--------------------------- MODULE MsgQueueProofs ----------------------------
(***************************************************************************)
(* Proofs about MsgQueue, for any number of threads and messages, whatever *)
(* a fresh message holds in its next field.                                *)
(***************************************************************************)
EXTENDS MsgQueue, SequenceTheorems, TLAPS

(* A step keeps the types and what each point of the code has in hand.      *)
LEMMA TypePreserved == TypeOK /\ [Next]_qvars => TypeOK'
<1> SUFFICES ASSUME TypeOK, [Next]_qvars PROVE TypeOK'
  OBVIOUS
<1> USE ConstantsAssumption DEF ConstantsAssumption, TypeOK, ValuesOK, HeldOK, Inside, At, Goto, Return, Lock, Unlock
<1>1. ASSUME NEW t \in Thread, NEW m \in Msg, Create(t, m) PROVE TypeOK'
  BY <1>1 DEF Create
<1>2. ASSUME NEW t \in Thread, Dispose(t) \/ DisposeBare(t) \/ CallPush(t) PROVE TypeOK'
  BY <1>2 DEF Dispose, DisposeBare, CallPush
<1>3. ASSUME NEW t \in Thread, NEW o \in {"pop", "clean", "delete"}, Call(t, o)
      PROVE TypeOK'
  BY <1>3 DEF Call, Entry
<1>4. ASSUME NEW t \in Thread, PopPeek(t) \/ PopLock(t) \/ PopTake(t) \/ PopUnlock(t)
      PROVE TypeOK'
  BY <1>4 DEF PopPeek, PopLock, PopTake, PopUnlock
<1>5. ASSUME NEW t \in Thread, PopUnlink(t) PROVE TypeOK'
  <2>1. CASE pc' = [pc EXCEPT ![t] = "popunlock"]
    <3>1. /\ local[t] \in Msg /\ list' = next[local[t]]
          /\ next' = [next EXCEPT ![local[t]] = NULL]
          /\ mine' = [mine EXCEPT ![t] = local[t]]
          /\ contents' = IF contents = <<>> THEN <<>> ELSE Tail(contents)
          /\ UNCHANGED <<q_lock, allocated, bare, op, local, spoilt>>
      BY <1>5, <2>1 DEF PopUnlink
    <3>2. contents' \in Seq(Msg)
      BY <3>1
    <3>3. mine' \in [Thread -> Msg \cup {NULL}] /\ next' \in [Msg -> Msg \cup {NULL, Wild}]
      BY <3>1
    <3>4. HeldOK'
      BY <2>1, <3>1
    <3> QED
      BY <2>1, <3>1, <3>2, <3>3, <3>4
  <2>2. CASE pc' = [pc EXCEPT ![t] = "crashed"]
    BY <1>5, <2>2 DEF PopUnlink
  <2> QED
    BY <1>5, <2>1, <2>2 DEF PopUnlink
<1>6. ASSUME NEW t \in Thread, PushLock(t) \/ PushStart(t) \/ PushWalk(t) \/ PushUnlock(t)
      PROVE TypeOK'
  BY <1>6, SMTT(30) DEF PushLock, PushStart, PushWalk, PushUnlock
<1>7. ASSUME NEW t \in Thread, PushFirst(t) PROVE TypeOK'
  BY <1>7 DEF PushFirst
<1>8. ASSUME NEW t \in Thread, PushAttach(t) PROVE TypeOK'
  BY <1>8, SMTT(30) DEF PushAttach
<1>9. ASSUME NEW t \in Thread, CleanCheck(t) \/ CleanWipe(t) \/ DeleteLock(t) \/ DeleteFree(t)
      PROVE TypeOK'
  BY <1>9 DEF CleanCheck, CleanWipe, DeleteLock, DeleteFree, Cleaned
<1>10. CASE UNCHANGED qvars
  BY <1>10 DEF qvars
<1> QED
  BY <1>1, <1>2, <1>3, <1>4, <1>5, <1>6, <1>7, <1>8, <1>9, <1>10 DEF Next, Step

(* The variables always hold values of their types, and no call forgets the *)
(* message it works on or starts with one it should not have.               *)
THEOREM TypeCorrect == Spec => []TypeOK
<1>1. Init => TypeOK
  BY ConstantsAssumption DEF ConstantsAssumption, Init, TypeOK, ValuesOK, HeldOK, Inside
<1> QED
  BY <1>1, TypePreserved, PTL DEF Spec

-----------------------------------------------------------------------------

(* A step keeps q_lock exclusive.                                           *)
LEMMA MutexPreserved ==
  ASSUME TypeOK, MutexInv, [Next]_qvars PROVE MutexInv'
<1> USE ConstantsAssumption DEF ConstantsAssumption, TypeOK, ValuesOK, MutexInv, Inside,
        At, Goto, Return, Lock, Unlock
<1>1. ASSUME NEW t \in Thread, NEW m \in Msg, Create(t, m) PROVE MutexInv'
  BY <1>1 DEF Create
<1>2. ASSUME NEW t \in Thread, Dispose(t) \/ DisposeBare(t) \/ CallPush(t) PROVE MutexInv'
  BY <1>2 DEF Dispose, DisposeBare, CallPush
<1>3. ASSUME NEW t \in Thread, NEW o \in {"pop", "clean", "delete"}, Call(t, o)
      PROVE MutexInv'
  BY <1>3 DEF Call, Entry
<1>4. ASSUME NEW t \in Thread,
             PopPeek(t) \/ PopLock(t) \/ PopTake(t) \/ PopUnlink(t) \/ PopUnlock(t)
      PROVE MutexInv'
  BY <1>4 DEF PopPeek, PopLock, PopTake, PopUnlink, PopUnlock
<1>5. ASSUME NEW t \in Thread,
             \/ PushLock(t) \/ PushFirst(t) \/ PushStart(t) \/ PushWalk(t)
             \/ PushAttach(t) \/ PushUnlock(t)
      PROVE MutexInv'
  BY <1>5 DEF PushLock, PushFirst, PushStart, PushWalk, PushAttach, PushUnlock
<1>6. ASSUME NEW t \in Thread, CleanCheck(t) \/ CleanWipe(t) \/ DeleteLock(t) \/ DeleteFree(t)
      PROVE MutexInv'
  BY <1>6 DEF CleanCheck, CleanWipe, DeleteLock, DeleteFree, Cleaned
<1>7. CASE UNCHANGED qvars
  BY <1>7 DEF qvars
<1> QED
  BY <1>1, <1>2, <1>3, <1>4, <1>5, <1>6, <1>7 DEF Next, Step

-----------------------------------------------------------------------------

(* What the list, the messages and the threads' pointers are like while the *)
(* list is in order, without the condition.                                 *)
Data == LocalInv /\ Represents /\ Ownership /\ CrashNeedsBareMessage

(* A broken list stays broken.                                              *)
LEMMA SpoiltStays == TypeOK /\ [Next]_qvars /\ spoilt' = "no" => spoilt = "no"
  BY DEF TypeOK, ValuesOK, Next, Step, Create, Dispose, DisposeBare, CallPush, Call, PopPeek, PopLock, PopTake,
         PopUnlink, PopUnlock, PushLock, PushFirst, PushStart, PushWalk, PushAttach,
         PushUnlock, CleanCheck, CleanWipe, DeleteLock, DeleteFree, qvars

(* Steps that only move a thread on, with its pointer into the list.        *)
LEMMA DataPreservedByMoves ==
  ASSUME TypeOK, MutexInv, Data, spoilt = "no", NEW t \in Thread,
         \/ CallPush(t) \/ \E o \in {"pop", "clean", "delete"} : Call(t, o)
         \/ PopPeek(t) \/ PopLock(t) \/ PopTake(t) \/ PopUnlock(t)
         \/ PushLock(t) \/ PushStart(t) \/ PushWalk(t) \/ PushUnlock(t)
         \/ CleanCheck(t) \/ DeleteLock(t) \/ DeleteFree(t)
  PROVE  Data'
<1> USE ConstantsAssumption DEF ConstantsAssumption, TypeOK, ValuesOK, Data, LocalInv,
        At, Goto, Return, Cleaned
<1>1. UNCHANGED <<list, next, allocated, mine, contents, spoilt>>
  BY DEF CallPush, Call, PopPeek, PopLock, PopTake, PopUnlock, PushLock, PushStart,
         PushWalk, PushUnlock, CleanCheck, DeleteLock, DeleteFree
<1>2. Represents' /\ Ownership'
  BY <1>1 DEF Represents, Ownership, Queued
<1>3. LocalInv' /\ CrashNeedsBareMessage'
  <2>1. CASE PopTake(t)
    BY <1>1, <2>1 DEF PopTake, Represents, CrashNeedsBareMessage, Queued
  <2>2. CASE PushStart(t)
    <3>1. Queued(list)
      BY <2>2 DEF PushStart, Represents, Queued
    <3> QED
      BY <1>1, <2>2, <3>1 DEF PushStart, CrashNeedsBareMessage, Queued
  <2>3. CASE PushWalk(t)
    <3>1. PICK i \in 1..Len(contents) : contents[i] = local[t]
      BY <2>3 DEF PushWalk, Queued
    <3>2. local[t] \in Msg
      BY <3>1
    <3>3. i # Len(contents) /\ next[local[t]] = contents[i + 1] /\ i + 1 \in 1..Len(contents)
      BY <2>3, <3>1, <3>2 DEF PushWalk, Represents
    <3>4. Queued(next[local[t]])
      BY <3>3 DEF Queued
    <3> QED
      BY <1>1, <2>3, <3>2, <3>4 DEF PushWalk, CrashNeedsBareMessage, Queued
  <2>4. CASE CallPush(t) \/ \E o \in {"pop", "clean", "delete"} : Call(t, o)
    <3>1. /\ UNCHANGED local
          /\ \E p \in {"pushlock", "peek", "cleancheck", "dellock"} : pc' = [pc EXCEPT ![t] = p]
      BY <2>4 DEF CallPush, Call, Entry
    <3> QED
      BY <1>1, <2>4, <3>1 DEF CrashNeedsBareMessage, Queued, CallPush, Call
  <2>5. CASE PopPeek(t) \/ PopLock(t) \/ PopUnlock(t) \/ PushLock(t) \/ PushUnlock(t)
    BY SMTT(30), <1>1, <2>5 DEF PopPeek, PopLock, PopUnlock, PushLock, PushUnlock, CrashNeedsBareMessage, Queued
  <2>6. CASE CleanCheck(t) \/ DeleteLock(t) \/ DeleteFree(t)
    BY <1>1, <2>6 DEF CleanCheck, DeleteLock, DeleteFree, CrashNeedsBareMessage, Queued
  <2> QED
    BY <2>1, <2>2, <2>3, <2>4, <2>5, <2>6
<1> QED
  BY <1>2, <1>3

(* Making and deleting messages.                                            *)
LEMMA DataPreservedByMessages ==
  ASSUME TypeOK, Data, spoilt = "no", NEW t \in Thread,
         Dispose(t) \/ DisposeBare(t) \/ \E m \in Msg : Create(t, m)
  PROVE  Data'
<1> USE ConstantsAssumption DEF ConstantsAssumption, TypeOK, ValuesOK, Data, At, Goto
<1>1. UNCHANGED <<list, local, contents, spoilt>>
  BY DEF Dispose, DisposeBare, Create
<1>2. CASE Dispose(t)
  <2>1. UNCHANGED next
    BY <1>2 DEF Dispose
  <2>2. Represents'
    BY <1>1, <2>1 DEF Represents
  <2>3. Ownership'
    BY <1>1, <1>2 DEF Ownership, Queued, Dispose
  <2>4. LocalInv' /\ CrashNeedsBareMessage'
    BY <1>1, <1>2 DEF LocalInv, CrashNeedsBareMessage, Queued, Dispose
  <2> QED
    BY <2>2, <2>3, <2>4
<1>3. CASE DisposeBare(t)
  <2>1. UNCHANGED <<next, allocated, bare, mine>>
    BY <1>3 DEF DisposeBare
  <2>2. Represents' /\ Ownership'
    BY <1>1, <2>1 DEF Represents, Ownership, Queued
  <2>3. LocalInv'
    BY <1>1, <1>3 DEF LocalInv, Queued, DisposeBare
  <2>4. CrashNeedsBareMessage'
    BY <1>1, <1>3, <2>1 DEF CrashNeedsBareMessage, DisposeBare
  <2> QED
    BY <2>2, <2>3, <2>4
<1>4. ASSUME NEW m \in Msg, Create(t, m) PROVE Data'
  <2>1. m \notin allocated /\ ~Queued(m)
    BY <1>4 DEF Create, Ownership
  <2>2. \A i \in 1..Len(contents) : contents[i] \in Msg /\ next'[contents[i]] = next[contents[i]]
    BY <1>4, <2>1 DEF Create, Queued
  <2>3. Represents'
    BY <1>1, <2>2 DEF Represents
  <2>4. Ownership'
    BY <1>1, <1>4, <2>1 DEF Ownership, Queued, Create
  <2>5. LocalInv' /\ CrashNeedsBareMessage'
    BY <1>1, <1>4 DEF LocalInv, CrashNeedsBareMessage, Queued, Create
  <2> QED
    BY <2>3, <2>4, <2>5
<1> QED
  BY <1>2, <1>3, <1>4

(* The first message of an empty list.                                      *)
LEMMA DataPreservedByPushFirst ==
  ASSUME TypeOK, MutexInv, Data, spoilt' = "no", spoilt = "no", NEW t \in Thread, PushFirst(t)
  PROVE  Data'
<1> USE ConstantsAssumption DEF ConstantsAssumption, TypeOK, ValuesOK, HeldOK, Data, At, Goto
<1>1. mine[t] \in Msg /\ next[mine[t]] = NULL /\ contents = <<>>
  <2>1. contents # <<>> => contents[1] \in Msg
    OBVIOUS
  <2> QED
    BY <2>1 DEF PushFirst, Represents
<1>2. /\ contents' \in Seq(Msg) /\ contents' # <<>>
      /\ Len(contents') = 1 /\ contents'[1] = mine[t] /\ list' = mine[t]
  BY <1>1 DEF PushFirst
<1>3. \A m \in Msg : Queued(m)' <=> m = mine[t]
  BY <1>2 DEF Queued
<1>4. Represents'
  BY <1>1, <1>2 DEF PushFirst, Represents
<1>5. Ownership'
  BY <1>1, <1>3 DEF PushFirst, Ownership
<1>6. \A u \in Thread : u # t => pc[u] \notin Inside
  BY DEF PushFirst, MutexInv, Inside
<1>7. LocalInv' /\ CrashNeedsBareMessage'
  BY <1>6 DEF PushFirst, LocalInv, CrashNeedsBareMessage, Inside
<1> QED
  BY <1>4, <1>5, <1>7

(* A message attached to the last one.                                      *)
LEMMA DataPreservedByPushAttach ==
  ASSUME TypeOK, MutexInv, Data, spoilt = "no", NEW t \in Thread, PushAttach(t)
  PROVE  Data'
<1> USE ConstantsAssumption DEF ConstantsAssumption, TypeOK, ValuesOK, HeldOK, Data, At, Goto
<1> DEFINE k == Len(contents)
<1>1. /\ mine[t] \in Msg /\ ~Queued(mine[t])
      /\ k \in Nat /\ k > 0 /\ local[t] = contents[k]
  <2>1. mine[t] \in Msg /\ ~Queued(mine[t])
    BY DEF PushAttach, Ownership
  <2>2. PICK i \in 1..k : contents[i] = local[t]
    BY DEF PushAttach, LocalInv, Queued
  <2>3. i # k => i + 1 \in 1..k /\ contents[i + 1] \in Msg
    OBVIOUS
  <2>4. i = k
    BY <2>2, <2>3 DEF PushAttach, Represents
  <2> QED
    BY <2>1, <2>2, <2>4
<1>2. /\ contents' \in Seq(Msg) /\ contents' # <<>> /\ Len(contents') = k + 1
      /\ contents'[k + 1] = mine[t] /\ \A i \in 1..k : contents'[i] = contents[i]
  BY <1>1 DEF PushAttach
<1>3. \A m \in Msg : Queued(m)' <=> Queued(m) \/ m = mine[t]
  BY <1>1, <1>2, SMTT(30) DEF Queued
<1>4. /\ next'[contents[k]] = mine[t] /\ next'[mine[t]] = NULL
      /\ \A i \in 1..k : i # k => next'[contents[i]] = next[contents[i]]
  BY <1>1 DEF PushAttach, Represents, Queued
<1>5. Represents'
  <2>1. \A i, j \in 1..(k + 1) : contents'[i] = contents'[j] => i = j
    BY SMTT(30), <1>1, <1>2 DEF Represents, Queued
  <2>2. \A i \in 1..(k + 1) :
          next'[contents'[i]] = IF i = k + 1 THEN NULL ELSE contents'[i + 1]
    <3> SUFFICES ASSUME NEW i \in 1..(k + 1)
                 PROVE  next'[contents'[i]] = IF i = k + 1 THEN NULL ELSE contents'[i + 1]
      OBVIOUS
    <3>1. CASE i = k + 1
      BY <1>2, <1>4, <3>1
    <3>2. CASE i = k
      BY <1>1, <1>2, <1>4, <3>2
    <3>3. CASE i < k
      <4>1. i \in 1..k /\ i + 1 \in 1..k /\ i # k /\ i # k + 1
        BY <1>1, <3>3
      <4>2. next[contents[i]] = contents[i + 1]
        BY <4>1 DEF Represents
      <4> QED
        BY <1>2, <1>4, <4>1, <4>2
    <3> QED
      BY <1>1, <3>1, <3>2, <3>3
  <2>3. list' = contents'[1]
    BY <1>1, <1>2 DEF PushAttach, Represents
  <2> QED
    BY <1>2, <2>1, <2>2, <2>3 DEF Represents
<1>6. Ownership'
  BY <1>1, <1>3 DEF PushAttach, Ownership
<1>7. \A u \in Thread : u # t => pc[u] \notin Inside
  BY DEF PushAttach, MutexInv, Inside
<1>8. LocalInv' /\ CrashNeedsBareMessage'
  BY <1>7 DEF PushAttach, LocalInv, CrashNeedsBareMessage, Inside
<1> QED
  BY <1>5, <1>6, <1>8

(* The oldest message taken off.                                            *)
LEMMA DataPreservedByPopUnlink ==
  ASSUME TypeOK, MutexInv, Data, spoilt = "no", NEW t \in Thread, PopUnlink(t)
  PROVE  Data'
<1> USE ConstantsAssumption DEF ConstantsAssumption, TypeOK, ValuesOK, HeldOK, Data, At, Goto
<1> DEFINE k == Len(contents)
<1>1. /\ contents # <<>> /\ k \in Nat /\ k > 0 /\ contents[1] \in Msg
      /\ local[t] = contents[1] /\ list = contents[1]
  BY DEF PopUnlink, LocalInv, Represents
<1>2. /\ list' = next[contents[1]]
      /\ next' = [next EXCEPT ![contents[1]] = NULL]
      /\ mine' = [mine EXCEPT ![t] = contents[1]]
      /\ contents' = Tail(contents)
      /\ pc' = [pc EXCEPT ![t] = "popunlock"]
      /\ UNCHANGED <<q_lock, allocated, op, local, spoilt>>
  BY <1>1 DEF PopUnlink
<1>3. /\ contents' \in Seq(Msg) /\ Len(contents') = k - 1 /\ (contents' = <<>> <=> k = 1)
      /\ \A i \in 1..(k - 1) : contents'[i] = contents[i + 1]
  <2>1. contents' \in Seq(Msg)
    BY <1>1, <1>2
  <2>2. Len(contents') = k - 1
    BY <1>1, <1>2
  <2>3. \A i \in 1..(k - 1) : contents'[i] = contents[i + 1]
    BY <1>1, <1>2
  <2>4. contents' = <<>> <=> k = 1
    BY <1>1, <2>1, <2>2, EmptySeq, SMTT(30)
  <2> QED
    BY <2>1, <2>2, <2>3, <2>4
<1>4. \A m \in Msg : Queued(m)' <=> Queued(m) /\ m # contents[1]
  <2>1. ASSUME NEW m \in Msg, Queued(m), m # contents[1] PROVE Queued(m)'
    <3>1. PICK i \in 1..k : contents[i] = m
      BY <2>1 DEF Queued
    <3>2. i # 1 /\ i - 1 \in 1..(k - 1) /\ contents'[i - 1] = m
      BY <1>1, <1>3, <2>1, <3>1
    <3> QED
      BY <1>3, <3>2 DEF Queued
  <2>2. ASSUME NEW m \in Msg, Queued(m)' PROVE Queued(m) /\ m # contents[1]
    <3>1. PICK i \in 1..(k - 1) : contents'[i] = m
      BY <1>3, <2>2 DEF Queued
    <3>2. i + 1 \in 1..k /\ 1 \in 1..k /\ contents[i + 1] = m /\ i + 1 # 1
      BY <1>1, <1>3, <3>1
    <3> QED
      BY <3>2 DEF Queued, Represents
  <2> QED
    BY <2>1, <2>2
<1>5. Represents'
  <2>1. \A i, j \in 1..(k - 1) : contents'[i] = contents'[j] => i = j
    BY <1>1, <1>3 DEF Represents
  <2>2. \A i \in 1..(k - 1) :
          next'[contents'[i]] = IF i = k - 1 THEN NULL ELSE contents'[i + 1]
    <3> SUFFICES ASSUME NEW i \in 1..(k - 1)
                 PROVE  next'[contents'[i]] = IF i = k - 1 THEN NULL ELSE contents'[i + 1]
      OBVIOUS
    <3>1. i + 1 \in 1..k /\ 1 \in 1..k /\ i + 1 # 1 /\ contents'[i] = contents[i + 1]
      BY <1>1, <1>3
    <3>2. contents[i + 1] # contents[1] /\ contents[i + 1] \in Msg
      BY <3>1 DEF Represents
    <3>3. next'[contents'[i]] = next[contents[i + 1]]
      BY <1>2, <3>1, <3>2
    <3>4. next[contents[i + 1]] = IF i + 1 = k THEN NULL ELSE contents[(i + 1) + 1]
      BY <3>1 DEF Represents
    <3>5. i # k - 1 => i + 1 \in 1..(k - 1) /\ contents'[i + 1] = contents[(i + 1) + 1]
      BY <1>1, <1>3
    <3> QED
      BY <1>1, <3>3, <3>4, <3>5
  <2>3. list' = IF contents' = <<>> THEN NULL ELSE contents'[1]
    <3>1. list' = IF 1 = k THEN NULL ELSE contents[1 + 1]
      <4>1. 1 \in 1..k /\ list' = next[contents[1]]
        BY <1>1, <1>2
      <4>2. next[contents[1]] = IF 1 = k THEN NULL ELSE contents[1 + 1]
        BY <4>1 DEF Represents
      <4> QED
        BY <4>1, <4>2
    <3>2. k # 1 => 1 \in 1..(k - 1) /\ contents'[1] = contents[1 + 1]
      BY <1>1, <1>3
    <3> QED
      BY <1>3, <3>1, <3>2
  <2> QED
    BY <1>3, <2>1, <2>2, <2>3 DEF Represents
<1>6. Queued(contents[1])
  BY <1>1 DEF Queued
<1>7. Ownership'
  BY <1>1, <1>2, <1>4, <1>6 DEF Ownership
<1>8. \A u \in Thread : u # t => pc[u] \notin Inside
  BY DEF PopUnlink, MutexInv, Inside
<1>9. LocalInv' /\ CrashNeedsBareMessage'
  <2>1. \A u \in Thread : pc'[u] # "crashed"
    BY <1>2 DEF PopUnlink
  <2>2. LocalInv'
    BY <1>2, <1>8 DEF LocalInv, Inside
  <2> QED
    BY <2>1, <2>2 DEF CrashNeedsBareMessage
<1> QED
  BY <1>5, <1>7, <1>9

(* The last store of clean, when it finds the queue still empty.            *)
LEMMA DataPreservedByWipe ==
  ASSUME TypeOK, Data, spoilt' = "no", spoilt = "no", NEW t \in Thread, CleanWipe(t)
  PROVE  Data'
<1> USE DEF TypeOK, ValuesOK, Data
<1>1. contents = <<>> /\ list = NULL /\ list' = NULL
  BY DEF CleanWipe, Represents
<1>2. UNCHANGED <<next, allocated, mine, contents, spoilt>>
  BY DEF CleanWipe
<1>3. Represents' /\ Ownership'
  BY <1>1, <1>2 DEF Represents, Ownership, Queued
<1>4. LocalInv' /\ CrashNeedsBareMessage'
  BY <1>2 DEF CleanWipe, Cleaned, Return, Goto, LocalInv, CrashNeedsBareMessage, Queued
<1> QED
  BY <1>3, <1>4

LEMMA DataPreserved ==
  ASSUME TypeOK, MutexInv, Data, spoilt = "no", spoilt' = "no", [Next]_qvars
  PROVE  Data'
<1>1. CASE UNCHANGED qvars
  BY <1>1 DEF qvars, Data, LocalInv, Represents, Ownership, CrashNeedsBareMessage, Queued
<1>2. ASSUME NEW t \in Thread,
             \/ \E m \in Msg : Create(t, m)
             \/ Dispose(t) \/ DisposeBare(t) \/ CallPush(t)
             \/ \E o \in {"pop", "clean", "delete"} : Call(t, o)
             \/ Step(t)
      PROVE Data'
  BY <1>2, DataPreservedByMoves, DataPreservedByMessages, DataPreservedByPushFirst,
     DataPreservedByPushAttach, DataPreservedByPopUnlink, DataPreservedByWipe DEF Step
<1> QED
  BY <1>1, <1>2 DEF Next

(* The mutex is exclusive and, until something spoils the list, the list is *)
(* in order, every message has one owner and the queue follows no bad       *)
(* pointer but the null buffer of a message that never got one.             *)
THEOREM ListInvHolds == Spec => []ListInv
<1>1. Init => ListInv
  <2> SUFFICES ASSUME Init PROVE ListInv
    OBVIOUS
  <2>1. contents = <<>> /\ Len(contents) = 0
    BY DEF Init
  <2>2. MutexInv /\ CrashNeedsBareMessage
    BY DEF Init, MutexInv, CrashNeedsBareMessage, Inside
  <2>3. LocalInv /\ Represents /\ Ownership
    BY <2>1 DEF Init, LocalInv, Represents, Ownership, Queued
  <2> QED
    BY <2>2, <2>3 DEF ListInv
<1>2. TypeOK /\ ListInv /\ [Next]_qvars => ListInv'
  <2> SUFFICES ASSUME TypeOK, ListInv, [Next]_qvars PROVE ListInv'
    OBVIOUS
  <2>1. MutexInv'
    BY MutexPreserved DEF ListInv
  <2>2. CASE spoilt' = "no"
    BY <2>1, <2>2, SpoiltStays, DataPreserved DEF ListInv, Data
  <2>3. CASE spoilt' # "no"
    BY <2>1, <2>3 DEF ListInv, LocalInv, Represents, Ownership, CrashNeedsBareMessage
  <2> QED
    BY <2>2, <2>3
<1> QED
  BY <1>1, <1>2, TypeCorrect, PTL DEF Spec

(* The list holds the messages queued and not yet taken, in order, until    *)
(* one of the two ways in which the code breaks it.                         *)
THEOREM RepresentsHolds == Spec => []Represents
<1>1. ListInv => Represents
  BY DEF ListInv
<1> QED
  BY <1>1, ListInvHolds, PTL

(* Until then a message has one owner, and what pop hands out may be freed. *)
THEOREM OwnershipHolds == Spec => []Ownership
<1>1. ListInv => Ownership
  BY DEF ListInv
<1> QED
  BY <1>1, ListInvHolds, PTL

(* Until then the process dies only of a message that has no buffer.        *)
THEOREM CrashNeedsBareMessageHolds == Spec => []CrashNeedsBareMessage
<1>1. ListInv => CrashNeedsBareMessage
  BY DEF ListInv
<1> QED
  BY <1>1, ListInvHolds, PTL

-----------------------------------------------------------------------------
(* The abstract queue.                                                      *)

(* Until the list is spoilt each step puts, takes, creates or deletes one   *)
(* message of the abstract queue, or leaves it alone.                       *)
LEMMA StepIsFifo ==
  ASSUME TypeOK, ListInv, spoilt = "no", spoilt' = "no", [Next]_qvars
  PROVE  [Fifo!Next]_(Fifo!vars)
<1> USE ConstantsAssumption DEF ConstantsAssumption, TypeOK, ValuesOK, HeldOK, At
<1>1. ASSUME NEW t \in Thread, NEW m \in Msg, Create(t, m) PROVE Fifo!Next
  <2>1. Fifo!Create(t, m)
    BY <1>1 DEF Create, ListInv, Ownership, Queued, Fifo!Create
  <2> QED
    BY <2>1 DEF Fifo!Next
<1>2. ASSUME NEW t \in Thread, Dispose(t) PROVE Fifo!Next
  BY <1>2 DEF Dispose, Fifo!Dispose, Fifo!Next
<1>3. ASSUME NEW t \in Thread, PushFirst(t) PROVE Fifo!Next
  BY <1>3 DEF PushFirst, Fifo!Put, Fifo!Next
<1>4. ASSUME NEW t \in Thread, PushAttach(t) PROVE Fifo!Next
  BY <1>4 DEF PushAttach, Fifo!Put, Fifo!Next
<1>5. ASSUME NEW t \in Thread, PopUnlink(t) PROVE Fifo!Next
  <2>1. contents # <<>> /\ local[t] = contents[1] /\ local[t] = list /\ mine[t] = NULL
    BY <1>5 DEF PopUnlink, ListInv, LocalInv, Represents
  <2>2. contents[1] \in Msg /\ Head(contents) = contents[1]
    <3>1. contents \in Seq(Msg) /\ contents # <<>>
      BY <2>1
    <3>2. Len(contents) \in Nat \ {0}
      BY <3>1, EmptySeq
    <3> QED
      BY <3>1, <3>2
  <2>3. mine' = [mine EXCEPT ![t] = contents[1]] /\ contents' = Tail(contents)
    BY <1>5, <2>1, <2>2 DEF PopUnlink
  <2> QED
    BY <2>1, <2>2, <2>3 DEF Fifo!Take, Fifo!Next
<1>6. ASSUME NEW t \in Thread,
             \/ CallPush(t) \/ \E o \in {"pop", "clean", "delete"} : Call(t, o)
             \/ PopPeek(t) \/ PopLock(t) \/ PopTake(t) \/ PopUnlock(t)
             \/ PushLock(t) \/ PushStart(t) \/ PushWalk(t) \/ PushUnlock(t)
             \/ CleanCheck(t) \/ CleanWipe(t) \/ DeleteLock(t) \/ DeleteFree(t)
      PROVE UNCHANGED Fifo!vars
  BY <1>6 DEF CallPush, Call, PopPeek, PopLock, PopTake, PopUnlock, PushLock, PushStart,
              PushWalk, PushUnlock, CleanCheck, CleanWipe, DeleteLock, DeleteFree, Fifo!vars
<1>7. ASSUME NEW t \in Thread, DisposeBare(t) PROVE UNCHANGED Fifo!vars
  BY <1>7 DEF DisposeBare, Fifo!vars
<1>8. CASE UNCHANGED qvars
  BY <1>8 DEF qvars, Fifo!vars
<1> QED
  BY <1>1, <1>2, <1>3, <1>4, <1>5, <1>6, <1>7, <1>8 DEF Next, Step

(* All four operations implement the FIFO queue until the list is spoilt.   *)
THEOREM FifoUntilSpoiltHolds == Spec => FifoUntilSpoilt
<1>1. Init => Fifo!Init
  BY DEF Init, Fifo!Init
<1>2. TypeOK /\ ListInv /\ [Next]_qvars => [spoilt' = "no" => Fifo!Next]_(Fifo!vars)
  BY StepIsFifo, SpoiltStays
<1> QED
  BY <1>1, <1>2, TypeCorrect, ListInvHolds, PTL DEF Spec, FifoUntilSpoilt
=============================================================================
