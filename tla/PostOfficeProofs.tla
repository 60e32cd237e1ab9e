------------------------- MODULE PostOfficeProofs ---------------------------
(***************************************************************************)
(* What PostOffice promises, for every set of threads, owners, mailboxes   *)
(* and places in memory.                                                   *)
(***************************************************************************)
EXTENDS PostOffice, FiniteSetTheorems, TLAPS

-----------------------------------------------------------------------------
(* Walks over a list.                                                      *)

(* A walk stays in every set that has its first place and each next one.    *)
LEMMA ReachStays ==
    ASSUME NEW P, NEW N, NEW p, NEW C \in SUBSET P, p \in P => p \in C,
           \A r \in C : N[r] \in P => N[r] \in C
    PROVE  Reach(P, N, p) \subseteq C
    BY DEF Reach

LEMMA ReachNowhere == ASSUME NEW P, NEW N, NEW p, p \notin P PROVE Reach(P, N, p) = {}
<1> DEFINE C == {}
<1>1. C \in SUBSET P /\ (p \in P => p \in C) /\ \A r \in C : N[r] \in P => N[r] \in C
    OBVIOUS
<1>2. \A r : r \notin C
    OBVIOUS
<1> HIDE DEF C
<1>3. Reach(P, N, p) \subseteq C
    BY <1>1, ReachStays
<1>4. QED
    BY <1>2, <1>3

LEMMA ReachWithin == ASSUME NEW P, NEW N, NEW p PROVE Reach(P, N, p) \subseteq P
    BY DEF Reach

(* A walk from p is at p, and then is a walk from the next place.           *)
LEMMA ReachOn ==
    ASSUME NEW P, NEW N, NEW p \in P
    PROVE  Reach(P, N, p) = {p} \cup Reach(P, N, N[p])
<1>1. ASSUME NEW s \in Reach(P, N, p), s # p PROVE s \in Reach(P, N, N[p])
  <2>1. SUFFICES ASSUME NEW C \in SUBSET P, N[p] \in P => N[p] \in C,
                        \A r \in C : N[r] \in P => N[r] \in C
                 PROVE  s \in C
    BY <1>1 DEF Reach
  <2> DEFINE D == C \cup {p}
  <2>2. D \in SUBSET P /\ p \in D /\ \A r \in D : N[r] \in P => N[r] \in D
    BY <2>1
  <2>3. s \in D
    BY <1>1, <2>2 DEF Reach
  <2>4. QED
    BY <1>1, <2>3
<1>2. p \in Reach(P, N, p)
    BY DEF Reach
<1>3. ASSUME NEW s \in Reach(P, N, N[p]) PROVE s \in Reach(P, N, p)
  <2>1. SUFFICES ASSUME NEW C \in SUBSET P, p \in C,
                        \A r \in C : N[r] \in P => N[r] \in C
                 PROVE  s \in C
    BY <1>3 DEF Reach
  <2>2. N[p] \in P => N[p] \in C
    BY <2>1
  <2>3. QED
    BY <1>3, <2>1, <2>2 DEF Reach
<1>4. QED
    BY <1>1, <1>2, <1>3

(* What a next field holds that is no place makes no difference.            *)
LEMMA ReachSame ==
    ASSUME NEW P, NEW N, NEW M, NEW p,
           \A r \in P : N[r] = M[r] \/ (N[r] \notin P /\ M[r] \notin P)
    PROVE  Reach(P, N, p) = Reach(P, M, p)
<1>1. ASSUME NEW C \in SUBSET P
      PROVE  (\A r \in C : N[r] \in P => N[r] \in C) <=> (\A r \in C : M[r] \in P => M[r] \in C)
    OBVIOUS
<1>2. QED
    BY <1>1 DEF Reach

(* A list that has all places still has them with one more at its end ...   *)
LEMMA ReachExtended ==
    ASSUME NEW P, NEW N, NEW M, NEW p \in P, NEW c \in P, NEW s, s \notin P,
           Reach(P, N, p) = P, N[c] \notin P, M[c] = s, M[s] \notin P \cup {s},
           \A r \in P \ {c} : M[r] = N[r] /\ N[r] # s
    PROVE  Reach(P \cup {s}, M, p) = P \cup {s}
<1>1. SUFFICES ASSUME NEW C \in SUBSET (P \cup {s}), p \in C,
                      \A r \in C : M[r] \in P \cup {s} => M[r] \in C
               PROVE  C = P \cup {s}
    BY DEF Reach
<1> DEFINE D == C \cap P
<1>2. \A r \in D : N[r] \in P => N[r] \in D
    BY <1>1
<1>3. \A r \in P : r \in D
  <2>1. D \in SUBSET P /\ p \in D
    BY <1>1
  <2>2. Reach(P, N, p) \subseteq D
    BY <1>2, <2>1, ReachStays
  <2>3. QED
    BY <2>2
<1>4. s \in C
    BY <1>1, <1>3
<1>5. QED
    BY <1>1, <1>3, <1>4

(* ... and without its first one.                                           *)
LEMMA ReachUnlinked ==
    ASSUME NEW P, NEW N, NEW p \in P, Reach(P, N, p) = P
    PROVE  Reach(P \ {p}, N, N[p]) = P \ {p}
<1>1. SUFFICES ASSUME NEW C \in SUBSET (P \ {p}), N[p] \in P \ {p} => N[p] \in C,
                      \A r \in C : N[r] \in P \ {p} => N[r] \in C
               PROVE  C = P \ {p}
    BY DEF Reach
<1> DEFINE D == C \cup {p}
<1>2. D \in SUBSET P /\ p \in D /\ \A r \in D : N[r] \in P => N[r] \in D
    BY <1>1
<1>3. \A r \in P : r \in D
  <2>1. Reach(P, N, p) \subseteq D
    BY <1>2, ReachStays
  <2>2. QED
    BY <2>1
<1>4. QED
    BY <1>1, <1>3
-----------------------------------------------------------------------------
(* Types.                                                                  *)

Pushes(t) == \E b \in {"inbox", "outbox"} : Push(t, b)

Steps(t) ==
    \/ \E id \in Id : \/ \E b \in Box : Create(t, id, b)
                      \/ \E o \in Lookups : Search(t, id, o)
    \/ First(t) \/ Make(t) \/ MakeBox(t) \/ MakeNext(t)
    \/ Scan(t) \/ Take(t) \/ Last(t) \/ Extend(t) \/ AppendBox(t) \/ AppendNext(t)
    \/ Visit(t) \/ Miss(t)
    \/ Pushes(t) \/ Pop(t) \/ PopFromInbox(t) \/ UseFreed(t)
    \/ RemoveDelete(t) \/ RemoveHangs(t) \/ RemoveUnplace(t)
    \/ CleanStart(t) \/ CleanDelete(t) \/ CleanUnlink(t) \/ CleanEnd(t)

LEMMA NextIsStep ==
    ASSUME Next PROVE "raced" \notin misuse /\ \E t \in Thread : Steps(t)
    BY DEF Next, Steps, Pushes, PushToInbox, PushToOutbox

(* Every step notes what it does; what was noted stays.                     *)
LEMMA NotesStay ==
    ASSUME NEW t \in Thread, Steps(t)
    PROVE  misuse \subseteq misuse' /\ ("raced" \notin misuse' => ~Races')
<1>1. ASSUME NEW events, Note(events)
      PROVE  misuse \subseteq misuse' /\ ("raced" \notin misuse' => ~Races')
    BY <1>1 DEF Note
<1>2. \E events : Note(events)
  <2>1. CASE \/ \E id \in Id : \/ \E b \in Box : Create(t, id, b)
                               \/ \E o \in Lookups : Search(t, id, o)
             \/ First(t) \/ Make(t) \/ MakeBox(t) \/ MakeNext(t)
    BY <2>1 DEF Create, Search, First, Make, MakeBox, MakeNext
  <2>2. CASE Scan(t) \/ Take(t) \/ Last(t) \/ Extend(t) \/ AppendBox(t) \/ AppendNext(t)
    BY <2>2 DEF Scan, Take, Last, Extend, AppendBox, AppendNext
  <2>3. CASE \/ Visit(t) \/ Miss(t) \/ Pushes(t) \/ Pop(t) \/ PopFromInbox(t) \/ UseFreed(t)
             \/ RemoveDelete(t) \/ RemoveHangs(t) \/ RemoveUnplace(t)
    BY <2>3 DEF Visit, Miss, Pushes, Push, Pop, PopFromInbox, UseFreed, RemoveDelete, RemoveHangs,
                Hang, RemoveUnplace
  <2>4. CASE CleanStart(t) \/ CleanDelete(t) \/ CleanUnlink(t) \/ CleanEnd(t)
    BY <2>4 DEF CleanStart, CleanDelete, Hang, CleanUnlink, CleanEnd
  <2>5. QED
    BY <2>1, <2>2, <2>3, <2>4 DEF Steps
<1>3. QED
    BY <1>1, <1>2

LEMMA NotesTyped ==
    ASSUME TypeOK, NEW events, Note(events),
           events \subseteq {"twice", "pulled", "nomemory"}
    PROVE  misuse' \subseteq {"twice", "pulled", "raced", "nomemory"}
    BY DEF TypeOK, Note

Typed == TypeOK /\ Known /\ IsFiniteSet(spots)

(* The part of a step that is the thread's own.                             *)
LEMMA LocalsTyped ==
    ASSUME Typed, NEW t \in Thread,
           NEW p \in {"idle", "use", "delete", "stuck", "dead"}
                     \cup Reading \cup Adding \cup Removing \cup Cleaning,
           pc' = [pc EXCEPT ![t] = p],
           \/ UNCHANGED <<op, meant, found, there>> /\ UNCHANGED cpo
           \/ /\ UNCHANGED <<op, meant, found, there>>
              /\ \E s \in Spot \cup {NULL} : cpo' = [cpo EXCEPT ![t] = s]
           \/ p = "idle" /\ Return(t)
    PROVE  /\ pc' \in [Thread -> {"idle", "use", "delete", "stuck", "dead"}
                                 \cup Reading \cup Adding \cup Removing \cup Cleaning]
           /\ op' \in [Thread -> {"none", "create", "use", "remove", "clean"}]
           /\ meant' \in [Thread -> Id \cup {NULL}]
           /\ found' \in [Thread -> Box \cup {NULL}]
           /\ cpo' \in [Thread -> Spot \cup {NULL, Wild}]
           /\ there' \in [Thread -> BOOLEAN]
<1>1. /\ pc \in [Thread -> {"idle", "use", "delete", "stuck", "dead"}
                            \cup Reading \cup Adding \cup Removing \cup Cleaning]
      /\ op \in [Thread -> {"none", "create", "use", "remove", "clean"}]
      /\ meant \in [Thread -> Id \cup {NULL}]
      /\ found \in [Thread -> Box \cup {NULL}]
      /\ cpo \in [Thread -> Spot \cup {NULL, Wild}]
      /\ there \in [Thread -> BOOLEAN]
    BY DEF Typed, TypeOK
<1>2. QED
    BY <1>1 DEF Return
LEMMA TypedAtFirst == Init => Typed
<1> SUFFICES ASSUME Init PROVE Typed
    OBVIOUS
<1>1. IsFiniteSet(spots) /\ \A t \in Thread : pc[t] = "idle" /\ found[t] = NULL
    BY FS_EmptySet DEF Init
<1>2. outbox \in [Box -> Seq(Letter)]
    BY DEF Init
<1>3. TypeOK
    BY <1>2 DEF Init, TypeOK
<1>4. QED
    BY <1>1, <1>3 DEF Typed, Known, Adding, Extending

Sound == Typed /\ "raced" \notin misuse /\ ~Races /\ OneList /\ Cursors

(* What a thread knows of its call is known after a step of it, too.        *)
LEMMA KnownKept ==
    ASSUME Typed, NEW t \in Thread,
           \A u \in Thread \ {t} : pc'[u] = pc[u] /\ meant'[u] = meant[u] /\ found'[u] = found[u],
           pc'[t] \in {"walk", "use", "delete"} => meant'[t] # NULL,
           pc'[t] \in Adding \cup {"use", "delete", "unplace"} => found'[t] # NULL,
           pc'[t] \in {"idle"} \cup Reading \cup Cleaning => found'[t] = NULL
    PROVE  Known'
    BY DEF Typed, Known

(* While a thread is in the list in a way that excludes another at its end, *)
(* all places are complete.                                                 *)
LEMMA ListWhole ==
    ASSUME Sound, NEW t \in Thread,
           pc[t] \in {"walk", "make", "first", "scan", "take", "last", "append", "clean", "unlink"}
    PROVE  \A s \in spots : next[s] \in spots \cup {NULL} /\ mailbox[s] # Wild
<1>1. \A u \in Thread : pc[u] \notin Extending
    BY DEF Sound, Races, Extending, Adding, Reading, Cleaning
<1>2. \A s \in spots : ~Endless(s) /\ ~Raw(s)
    BY <1>1 DEF Endless, Raw, Extending
<1>3. QED
    BY <1>2 DEF Sound, OneList

LEMMA TypesKept ==
    ASSUME Sound, NEW t \in Thread, Steps(t) PROVE Typed'
<1>1. /\ Typed /\ TypeOK /\ Known /\ Cursors /\ OneList /\ IsFiniteSet(spots)
      /\ Cursor(t) /\ {NULL, Wild} \cap (Id \cup Box \cup Spot) = {} /\ NULL # Wild
    BY OfficeAssumption DEF Sound, Typed, Cursors
<1>2. ASSUME NEW id \in Id, NEW b \in Box, Create(t, id, b) PROVE Typed'
  <2>1. most' \in Nat
    <3>1. IsFiniteSet(Taken) /\ IsFiniteSet({u \in Thread : pc'[u] \in Adding})
      BY <1>1, FS_Subset, OfficeAssumption DEF Taken
    <3>2. Cardinality(Taken) \in Nat /\ Cardinality({u \in Thread : pc'[u] \in Adding}) \in Nat
      BY <3>1, FS_CardinalityType
    <3>3. most \in Nat
      BY <1>1 DEF TypeOK
    <3>4. QED
      BY <1>2, <3>2, <3>3 DEF Create
  <2>2. misuse' \subseteq {"twice", "pulled", "raced", "nomemory"}
    BY <1>1, <1>2, NotesTyped DEF Create
  <2>3. TypeOK'
    BY <1>1, <1>2, <2>1, <2>2 DEF Create, TypeOK, Goto, list, Adding
  <2>4. Known'
    BY <1>1, <1>2, KnownKept DEF Create, Goto, TypeOK, Adding, Reading, Cleaning
  <2>5. QED
    BY <1>1, <1>2, <2>3, <2>4 DEF Typed, Create, list
<1>3. ASSUME NEW id \in Id, NEW o \in Lookups, Search(t, id, o) PROVE Typed'
  <2>1. misuse' \subseteq {"twice", "pulled", "raced", "nomemory"}
    BY <1>1, <1>3, NotesTyped DEF Search
  <2>2. TypeOK'
    BY <1>1, <1>3, <2>1 DEF Search, TypeOK, Goto, list, boxes, Reading, Lookups
  <2>3. Known'
    <3>1. found[t] = NULL
      BY <1>1, <1>3 DEF Search, At, Known
    <3>2. QED
      BY <1>1, <1>3, <3>1, KnownKept DEF Search, Goto, TypeOK, Adding, Extending
  <2>4. QED
    BY <1>1, <1>3, <2>2, <2>3 DEF Typed, Search, list
(* Steps that move on in the list.                                          *)
<1>4. ASSUME UNCHANGED <<list, boxes, most>>, NEW p \in {"idle", "use", "delete", "stuck", "dead"}
                     \cup Reading \cup Adding \cup Removing \cup Cleaning,
             NEW s \in Spot \cup {NULL}, Stay(t, p) \/ MoveTo(t, s, p) \/ (p = "idle" /\ Return(t)),
             NEW events, Note(events), events \subseteq {"twice", "pulled", "nomemory"},
             p \in {"walk", "use", "delete"} => meant[t] # NULL,
             p \in Adding \cup {"use", "delete", "unplace"} => found[t] # NULL,
             p \in {"idle"} \cup Reading \cup Cleaning => Return(t) \/ found[t] = NULL
      PROVE  Typed'
  <2>1. misuse' \subseteq {"twice", "pulled", "raced", "nomemory"}
    BY <1>1, <1>4, NotesTyped
  <2>2. /\ pc' = [pc EXCEPT ![t] = p]
        /\ \/ UNCHANGED <<op, meant, found, there>> /\ UNCHANGED cpo
           \/ /\ UNCHANGED <<op, meant, found, there>>
              /\ \E q \in Spot \cup {NULL} : cpo' = [cpo EXCEPT ![t] = q]
           \/ p = "idle" /\ Return(t)
    BY <1>4 DEF Stay, MoveTo, Return, Goto
  <2>3. TypeOK'
    BY <1>1, <1>4, <2>1, <2>2, LocalsTyped DEF TypeOK, list, boxes
  <2>4. Known'
    <3>1. p \in {"idle"} \cup Reading \cup Cleaning => found'[t] = NULL
      BY <1>1, <1>4, <2>2 DEF Return, TypeOK
    <3>2. QED
      BY <1>1, <1>4, <2>2, <3>1, KnownKept DEF Return, TypeOK, Adding, Extending
  <2>5. QED
    BY <1>1, <1>4, <2>3, <2>4 DEF Typed, list
<1>4a. ASSUME UNCHANGED <<list, boxes, most>>, NEW p \in {"make", "scan", "take", "last", "append"},
              NEW s \in Spot \cup {NULL}, Stay(t, p) \/ MoveTo(t, s, p), Note({}),
              found[t] # NULL
       PROVE  Typed'
  <2>1. /\ p \in Adding /\ p \notin {"walk", "use", "delete"}
        /\ p \notin {"idle"} \cup Reading \cup Cleaning
    BY <1>4a DEF Adding, Reading, Cleaning
  <2>2. {} \subseteq {"twice", "pulled", "nomemory"}
    OBVIOUS
  <2>3. QED
    BY <1>4, <1>4a, <2>1, <2>2
<1>5. ASSUME First(t) \/ Scan(t) \/ Last(t) \/ Miss(t) \/ CleanEnd(t) \/ PopFromInbox(t)
             \/ UseFreed(t)
      PROVE  Typed'
  <2>1. CASE First(t)
    <3>1. /\ Note({}) /\ UNCHANGED <<list, boxes, most>> /\ found[t] # NULL
          /\ central_postoffice \in Spot \cup {NULL}
          /\ Stay(t, "make") \/ MoveTo(t, central_postoffice, "scan")
      BY <1>1, <2>1 DEF First, TypeOK, At, Known, Adding
    <3>2. CASE Stay(t, "make")
      BY <1>4a, <3>1, <3>2
    <3>3. CASE MoveTo(t, central_postoffice, "scan")
      BY <1>4a, <3>1, <3>3
    <3>4. QED
      BY <3>1, <3>2, <3>3
  <2>2. CASE Scan(t) \/ Last(t)
    <3>1. /\ Note({}) /\ UNCHANGED <<list, boxes, most>> /\ found[t] # NULL
          /\ pc[t] \in {"scan", "last"}
      BY <1>1, <2>2 DEF Scan, Last, At, Known, Adding
    <3>2. /\ central_postoffice \in Spot \cup {NULL}
          /\ cpo[t] \in spots => next[cpo[t]] \in Spot \cup {NULL}
      BY <1>1, <3>1, ListWhole DEF TypeOK
    <3>3. PICK p \in {"last", "scan", "take", "append"} :
              \/ Stay(t, p) \/ MoveTo(t, central_postoffice, p)
              \/ cpo[t] \in spots /\ MoveTo(t, next[cpo[t]], p)
      BY <1>1, <2>2 DEF Scan, Last, At, Cursor
    <3>4. CASE Stay(t, p)
      BY <1>4a, <3>1, <3>4
    <3>5. CASE MoveTo(t, central_postoffice, p)
      BY <1>4a, <3>1, <3>2, <3>5
    <3>6. CASE cpo[t] \in spots /\ MoveTo(t, next[cpo[t]], p)
      BY <1>4a, <3>1, <3>2, <3>6
    <3>7. QED
      BY <3>3, <3>4, <3>5, <3>6
  <2>3. CASE Miss(t) \/ CleanEnd(t) \/ PopFromInbox(t)
    <3>1. Note({}) /\ UNCHANGED <<list, boxes, most>> /\ Return(t)
      BY <2>3 DEF Miss, CleanEnd, PopFromInbox
    <3>2. QED
      BY <1>4, <3>1 DEF Adding, Extending, Reading, Cleaning
  <2>4. CASE UseFreed(t)
    <3>1. Note({}) /\ UNCHANGED <<list, boxes, most>> /\ Stay(t, "dead")
      BY <2>4 DEF UseFreed
    <3>2. QED
      BY <1>4, <3>1 DEF Adding, Extending, Reading, Cleaning
  <2>5. QED
    BY <1>5, <2>1, <2>2, <2>3, <2>4
<1>6. ASSUME Visit(t) PROVE Typed'
  <2>1. /\ Note({}) /\ UNCHANGED <<list, boxes, most>> /\ meant[t] # NULL
        /\ pc[t] = "walk" /\ cpo[t] \in spots /\ found[t] = NULL
        /\ mailbox[cpo[t]] \in Box \cup {NULL}
    BY <1>1, <1>6 DEF Visit, At, Known, Reading, TypeOK
  <2>2. CASE MoveTo(t, next[cpo[t]], "walk")
    <3>1. next[cpo[t]] \in Spot \cup {NULL}
      BY <1>1, <2>1, ListWhole DEF TypeOK
    <3>2. QED
      BY <1>4, <2>1, <2>2, <3>1 DEF Reading, Adding, Extending
  <2>3. CASE Arrive(t, mailbox[cpo[t]]) /\ mailbox[cpo[t]] # NULL
    <3>1. misuse' \subseteq {"twice", "pulled", "raced", "nomemory"}
      BY <1>1, <2>1, NotesTyped
    <3>2. TypeOK'
      BY <1>1, <2>1, <2>3, <3>1 DEF Arrive, Goto, TypeOK, list, boxes
    <3>3. Known'
      BY <1>1, <2>1, <2>3, KnownKept DEF Arrive, Goto, TypeOK, Adding, Extending, Reading, Cleaning
    <3>4. QED
      BY <1>1, <2>1, <3>2, <3>3 DEF Typed, list
  <2>4. QED
    BY <1>6, <2>2, <2>3 DEF Visit, Match
(* Steps that write to the list.                                            *)
<1>7. ASSUME central_postoffice' \in Spot \cup {NULL}, spots' \subseteq Spot, IsFiniteSet(spots'),
             mailbox' \in [Spot -> Box \cup {NULL, Wild}],
             next' \in [Spot -> Spot \cup {NULL, Wild}],
             UNCHANGED <<boxes, most>>,
             NEW p \in {"makebox", "makenext", "appendbox", "appendnext", "idle", "dead", "clean"},
             Stay(t, p) \/ (p = "idle" /\ Return(t)), p \in Extending => found[t] # NULL,
             p = "clean" => found[t] = NULL, p = "idle" => Return(t),
             NEW events, Note(events), events \subseteq {"twice", "pulled", "nomemory"}
      PROVE  Typed'
  <2>1. misuse' \subseteq {"twice", "pulled", "raced", "nomemory"}
    BY <1>1, <1>7, NotesTyped
  <2>2. pc' = [pc EXCEPT ![t] = p]
    BY <1>7 DEF Stay, Return, Goto
  <2>3. /\ UNCHANGED <<op, meant, found, there, cpo>> \/ (p = "idle" /\ Return(t))
        /\ p \in {"idle", "use", "delete", "stuck", "dead"}
                \cup Reading \cup Adding \cup Removing \cup Cleaning
    BY <1>7 DEF Stay, Adding, Extending, Cleaning
  <2>4. TypeOK'
    BY <1>1, <1>7, <2>1, <2>2, <2>3, LocalsTyped DEF TypeOK, boxes
  <2>5. Known'
    <3>1. p \in {"idle", "clean"} => found'[t] = NULL
      BY <1>1, <1>7, <2>2, <2>3 DEF Return, TypeOK
    <3>2. QED
      BY <1>1, <1>7, <2>2, <2>3, <3>1, KnownKept
      DEF Return, TypeOK, Adding, Extending, Reading, Cleaning
  <2>6. QED
    BY <1>1, <1>7, <2>4, <2>5 DEF Typed
<1>8. CASE Make(t)
  <2>1. found[t] # NULL
    BY <1>1, <1>8 DEF Make, At, Known, Adding
  <2>2. CASE \E s \in Spot \ spots : central_postoffice' = s /\ Allocate(s)
    <3>1. PICK s \in Spot \ spots : central_postoffice' = s /\ Allocate(s)
      BY <2>2
    <3>2. Stay(t, "makebox") /\ Note({}) /\ next' = [next EXCEPT ![s] = Wild]
          /\ UNCHANGED <<boxes, most>>
      BY <1>1, <1>8, <3>1 DEF Make
    <3>3. IsFiniteSet(spots \cup {s})
      BY <1>1, FS_AddElement
    <3>4. QED
      BY <1>1, <1>7, <2>1, <3>1, <3>2, <3>3 DEF TypeOK, Allocate
  <2>3. CASE ~\E s \in Spot \ spots : central_postoffice' = s /\ Allocate(s)
    BY <1>1, <1>7, <1>8, <2>1, <2>3 DEF Make, TypeOK, Extending
  <2>4. QED
    BY <2>2, <2>3
<1>9. CASE Extend(t)
  <2>1. found[t] # NULL
    BY <1>1, <1>9 DEF Extend, At, Known, Adding
  <2>2. CASE \E s \in Spot \ spots :
               Allocate(s) /\ next' = [next EXCEPT ![cpo[t]] = s, ![s] = Wild]
    <3>1. PICK s \in Spot \ spots :
               Allocate(s) /\ next' = [next EXCEPT ![cpo[t]] = s, ![s] = Wild]
      BY <2>2
    <3>2. UNCHANGED <<central_postoffice, boxes, most>>
      BY <1>9 DEF Extend
    <3>3. CASE Stay(t, "appendbox") /\ Note({})
      <4>1. IsFiniteSet(spots \cup {s})
        BY <1>1, FS_AddElement
      <4>2. QED
        BY <1>1, <1>7, <2>1, <3>1, <3>2, <3>3, <4>1 DEF TypeOK, Allocate
    <3>4. CASE ~(Stay(t, "appendbox") /\ Note({}))
      BY <1>1, <1>7, <1>9, <2>1, <3>4 DEF Extend, TypeOK, Extending
    <3>5. QED
      BY <3>3, <3>4
  <2>3. CASE ~\E s \in Spot \ spots :
               Allocate(s) /\ next' = [next EXCEPT ![cpo[t]] = s, ![s] = Wild]
    BY <1>1, <1>7, <1>9, <2>1, <2>3 DEF Extend, TypeOK, Extending
  <2>4. QED
    BY <2>2, <2>3
<1>10. CASE MakeBox(t)
    BY <1>1, <1>7, <1>10 DEF MakeBox, At, Known, TypeOK, Adding, Extending
<1>11. CASE AppendBox(t)
    BY <1>1, <1>7, <1>11 DEF AppendBox, At, Known, TypeOK, Adding, Extending
<1>12. CASE MakeNext(t) \/ AppendNext(t)
    BY <1>1, <1>7, <1>12 DEF MakeNext, AppendNext, TypeOK, Extending
<1>13. CASE Take(t) \/ RemoveUnplace(t)
    BY <1>1, <1>7, <1>13 DEF Take, RemoveUnplace, TypeOK, Extending
<1>14. CASE CleanUnlink(t)
  <2>1. IsFiniteSet(spots')
    BY <1>1, <1>14, FS_Subset DEF CleanUnlink
  <2>2. next[central_postoffice] \in spots \cup {NULL}
    BY <1>1, <1>14, ListWhole DEF CleanUnlink, At, Cursor
  <2>3. QED
    BY <1>1, <1>7, <1>14, <2>1, <2>2 DEF CleanUnlink, At, Known, Cleaning, TypeOK, Extending
(* Steps that use or delete a mailbox.                                      *)
<1>15. ASSUME UNCHANGED <<list, most>>, live' \subseteq Box, owner' \in [Box -> Id \cup {NULL}],
              outbox' \in [Box -> Seq(Letter)], there' \in [Thread -> BOOLEAN],
              NEW p \in {"idle", "unplace", "unlink", "stuck", "clean", "dead"},
              pc' = [pc EXCEPT ![t] = p],
              UNCHANGED <<meant, found, cpo>> \/ (p = "idle" /\ Return(t)),
              op' \in [Thread -> {"none", "create", "use", "remove", "clean"}],
              p = "unplace" => found[t] # NULL, p \in {"unlink", "clean"} => found[t] = NULL,
              p = "idle" => Return(t),
              NEW events, Note(events), events \subseteq {"twice", "pulled", "nomemory"}
       PROVE  Typed'
  <2>1. misuse' \subseteq {"twice", "pulled", "raced", "nomemory"}
    BY <1>1, <1>15, NotesTyped
  <2>2. /\ meant' \in [Thread -> Id \cup {NULL}] /\ found' \in [Thread -> Box \cup {NULL}]
        /\ cpo' \in [Thread -> Spot \cup {NULL, Wild}]
        /\ \A u \in Thread \ {t} : meant'[u] = meant[u] /\ found'[u] = found[u]
        /\ p # "idle" => found'[t] = found[t]
    BY <1>1, <1>15 DEF Return, TypeOK
  <2>3. TypeOK'
    BY <1>1, <1>15, <2>1, <2>2 DEF TypeOK, list, Removing, Cleaning
  <2>4. Known'
    <3>1. p \in {"idle", "unlink", "clean"} => found'[t] = NULL
      BY <1>1, <1>15, <2>2 DEF Return, TypeOK
    <3>2. pc'[t] = p /\ \A u \in Thread \ {t} : pc'[u] = pc[u]
      BY <1>1, <1>15 DEF TypeOK
    <3>3. pc'[t] \notin Reading \cup Adding \cup {"use", "delete"}
      BY <3>2 DEF Reading, Adding, Extending
    <3>4. pc'[t] = "unplace" => found'[t] # NULL
      BY <1>15, <2>2, <3>2
    <3>5. pc'[t] \in {"idle"} \cup Cleaning => found'[t] = NULL
      BY <3>1, <3>2 DEF Cleaning
    <3>6. pc'[t] # "walk"
      BY <3>2
    <3>7. QED
      BY <1>1, <2>2, <3>2, <3>3, <3>4, <3>5, <3>6, KnownKept
  <2>5. QED
    BY <1>1, <1>15, <2>3, <2>4 DEF Typed, list
<1>16. CASE Pushes(t) \/ Pop(t)
  <2>1. /\ UNCHANGED <<list, most, live, owner>> /\ Return(t) /\ Note({})
        /\ meant[t] \in Id
        /\ found[t] \in Box
    BY <1>1, <1>16 DEF Pushes, Push, Pop, At, Known, TypeOK, Usable
  <2>2. outbox[found[t]] \in Seq(Letter)
    BY <1>1, <2>1 DEF TypeOK
  <2>3. /\ \A l \in Letter : Append(outbox[found[t]], l) \in Seq(Letter)
        /\ outbox[found[t]] # <<>> => Tail(outbox[found[t]]) \in Seq(Letter)
        /\ <<>> \in Seq(Letter)
    BY <2>1, <2>2
  <2>4. outbox' \in [Box -> Seq(Letter)]
    <3>1. PICK m \in Seq(Letter) : outbox' = [outbox EXCEPT ![found[t]] = m]
      <4>1. CASE Pushes(t)
        <5>1. PICK b \in {"inbox", "outbox"} : Push(t, b)
          BY <4>1 DEF Pushes
        <5>2. [to |-> meant[t], into |-> b] \in Letter
          BY <2>1 DEF Letter
        <5>3. QED
          BY <2>3, <5>1, <5>2 DEF Push
      <4>2. CASE Pop(t)
        BY <2>3, <4>2 DEF Pop
      <4>3. QED
        BY <1>16, <4>1, <4>2
    <3>2. QED
      BY <1>1, <3>1 DEF TypeOK
  <2>5. pc' = [pc EXCEPT ![t] = "idle"] /\ op' = [op EXCEPT ![t] = "none"]
        /\ there' = [there EXCEPT ![t] = FALSE]
    BY <2>1 DEF Return, Goto
  <2>6. QED
    BY <1>1, <1>15, <2>1, <2>4, <2>5 DEF TypeOK
<1>17. ASSUME NEW b \in Box, Hang(t, b) PROVE Typed'
  <2>1. Pulls(t, b) \subseteq {"twice", "pulled", "nomemory"}
    BY DEF Pulls
  <2>2. QED
    BY <1>1, <1>15, <1>17, <2>1 DEF Hang, Goto, TypeOK
<1>18. ASSUME NEW b \in Box, NEW p \in {"unplace", "unlink"}, Free(b), Stay(t, p),
              Note(Pulls(t, b)), UNCHANGED <<list, most>>, found[t] # NULL <=> p = "unplace"
       PROVE  Typed'
  <2>1. Pulls(t, b) \subseteq {"twice", "pulled", "nomemory"}
    BY DEF Pulls
  <2>2. QED
    BY <1>1, <1>15, <1>18, <2>1 DEF Free, Stay, Goto, TypeOK
<1>19. CASE RemoveDelete(t) \/ RemoveHangs(t)
  <2>1. found[t] \in Box
    BY <1>1, <1>19 DEF RemoveDelete, RemoveHangs, Usable, TypeOK
  <2>2. QED
    BY <1>1, <1>17, <1>18, <1>19, <2>1 DEF RemoveDelete, RemoveHangs
<1>20. CASE CleanStart(t)
    BY <1>1, <1>15, <1>20 DEF CleanStart, At, Known, Goto, TypeOK, boxes
<1>21. CASE CleanDelete(t)
  <2> DEFINE b == mailbox[central_postoffice]
  <2>1. live \subseteq Box /\ found[t] = NULL
    BY <1>1, <1>21 DEF TypeOK, CleanDelete, At, Known, Cleaning
  <2>2. CASE b \in live /\ Free(b) /\ Stay(t, "unlink") /\ Note(Pulls(t, b))
             /\ UNCHANGED <<list, most>>
    BY <1>18, <2>1, <2>2
  <2>3. CASE b \in live /\ Hang(t, b)
    BY <1>17, <2>1, <2>3
  <2>4. CASE \/ Stay(t, "unlink") /\ Note({}) /\ UNCHANGED <<list, boxes, most>>
             \/ Stay(t, "dead") /\ Note({"pulled"}) /\ UNCHANGED <<list, boxes, most>>
    BY <1>1, <1>15, <2>1, <2>4 DEF Stay, Goto, TypeOK, boxes
  <2>5. QED
    BY <1>21, <2>2, <2>3, <2>4 DEF CleanDelete
<1>22. QED
    BY <1>2, <1>3, <1>5, <1>6, <1>8, <1>9, <1>10, <1>11, <1>12, <1>13, <1>14, <1>16, <1>19,
       <1>20, <1>21 DEF Steps
-----------------------------------------------------------------------------
(* The list, without a race.                                               *)

\* a step of t leaves the calls of the others where they are
OthersStand(t) ==
    \A u \in Thread \ {t} : /\ pc'[u] = pc[u] /\ meant'[u] = meant[u]
                            /\ found'[u] = found[u] /\ cpo'[u] = cpo[u]

LEMMA OthersDoStand ==
    ASSUME TypeOK, NEW t \in Thread, Steps(t) PROVE OthersStand(t)
<1> USE DEF TypeOK, OthersStand, Goto, Return, MoveTo, Stay
<1>0. ASSUME NEW id \in Id,
             (\E b \in Box : Create(t, id, b)) \/ (\E o \in Lookups : Search(t, id, o))
      PROVE  OthersStand(t)
    BY <1>0, ZenonT(60) DEF Create, Search
<1>1. CASE First(t) \/ Scan(t) \/ Last(t) \/ Miss(t)
  <2>1. CASE First(t) \/ Miss(t)
    BY <2>1 DEF First, Miss
  <2>2. CASE Scan(t)
    BY <2>2 DEF Scan
  <2>3. CASE Last(t)
    BY <2>3 DEF Last
  <2>4. QED
    BY <1>1, <2>1, <2>2, <2>3
<1>2. CASE \/ Make(t) \/ MakeBox(t) \/ MakeNext(t) \/ Take(t)
           \/ Extend(t) \/ AppendBox(t) \/ AppendNext(t)
    BY <1>2 DEF Make, MakeBox, MakeNext, Take, Extend, AppendBox, AppendNext
<1>3. CASE Visit(t)
    BY <1>3 DEF Visit, Arrive
<1>4. CASE \/ Pushes(t) \/ Pop(t) \/ PopFromInbox(t) \/ UseFreed(t)
           \/ RemoveDelete(t) \/ RemoveHangs(t) \/ RemoveUnplace(t)
    BY <1>4 DEF Pushes, Push, Pop, PopFromInbox, UseFreed, RemoveDelete, RemoveHangs, Hang,
                RemoveUnplace
<1>5. CASE CleanStart(t) \/ CleanDelete(t) \/ CleanUnlink(t) \/ CleanEnd(t)
    BY <1>5 DEF CleanStart, CleanDelete, Hang, CleanUnlink, CleanEnd
<1>6. QED
    BY <1>0, <1>1, <1>2, <1>3, <1>4, <1>5 DEF Steps

(* Steps that do not write to the list do not begin or end the making of a  *)
(* place.                                                                   *)
Quietly(t) == UNCHANGED list /\ pc[t] \notin Extending /\ pc'[t] \notin Extending

Writes(t) ==
    \/ Make(t) /\ central_postoffice' # NULL
    \/ Extend(t) /\ spots' # spots
    \/ MakeBox(t) \/ MakeNext(t) \/ Take(t) \/ AppendBox(t) \/ AppendNext(t)
    \/ RemoveUnplace(t) \/ CleanUnlink(t)

LEMMA WritesOrNot ==
    ASSUME Sound, NEW t \in Thread, Steps(t) PROVE Writes(t) \/ Quietly(t)
<1>1. TypeOK /\ Cursor(t)
    BY DEF Sound, Typed, Cursors
<1> USE <1>1 DEF TypeOK, Goto, Return, MoveTo, Stay, At, Quietly, Writes, Extending
<1>2. CASE \/ \E id \in Id : \/ \E b \in Box : Create(t, id, b)
                             \/ \E o \in Lookups : Search(t, id, o)
           \/ First(t) \/ Scan(t) \/ Last(t) \/ Miss(t)
    BY <1>2, ZenonT(60) DEF Create, Search, First, Scan, Last, Miss
<1>3. CASE \/ MakeBox(t) \/ MakeNext(t) \/ Take(t)
           \/ AppendBox(t) \/ AppendNext(t) \/ RemoveUnplace(t) \/ CleanUnlink(t)
    BY <1>3
<1>4. CASE Make(t)
  <2>1. NULL \notin Spot
    BY OfficeAssumption
  <2>2. QED
    BY <1>4, <2>1 DEF Make, Cursor, list
<1>5. CASE Extend(t)
    BY <1>5 DEF Extend, Allocate, list
<1>6. CASE Visit(t)
    BY <1>6 DEF Visit, Arrive
<1>7. CASE \/ Pushes(t) \/ Pop(t) \/ PopFromInbox(t) \/ UseFreed(t)
           \/ RemoveDelete(t) \/ RemoveHangs(t)
    BY <1>7 DEF Pushes, Push, Pop, PopFromInbox, UseFreed, RemoveDelete, RemoveHangs, Hang
<1>8. CASE CleanStart(t) \/ CleanDelete(t) \/ CleanEnd(t)
    BY <1>8 DEF CleanStart, CleanDelete, Hang, CleanEnd
<1>9. QED
    BY <1>2, <1>3, <1>4, <1>5, <1>6, <1>7, <1>8 DEF Steps

(* Whoever adds a place or takes one out is the only one to do so.          *)
LEMMA OthersComplete ==
    ASSUME Sound, NEW t \in Thread, pc[t] \in Adding \cup Cleaning
    PROVE  \A u \in Thread \ {t} : pc[u] \notin Adding \cup Cleaning
    BY DEF Sound, Races, Adding

LEMMA OneListKept ==
    ASSUME Sound, NEW t \in Thread, Steps(t) PROVE OneList'
<1>1. /\ TypeOK /\ TypeOK' /\ OneList /\ Cursor(t) /\ OthersStand(t)
      /\ {NULL, Wild} \cap (Id \cup Box \cup Spot) = {} /\ NULL # Wild
    BY OthersDoStand, TypesKept, OfficeAssumption DEF Sound, Typed, Cursors
<1>2. CASE Quietly(t)
  <2>1. \A s : (Raw(s)' <=> Raw(s)) /\ (Endless(s)' <=> Endless(s))
    BY <1>1, <1>2 DEF Quietly, OthersStand, Raw, Endless, Extending, list
  <2>2. Places' = Places
    BY <1>2 DEF Quietly, list, Places, From
  <2>3. QED
    BY <1>1, <1>2, <2>1, <2>2 DEF Quietly, list, OneList
(* Writes to the mailbox of a place.                                        *)
<1>3. ASSUME NEW p \in Spot, NEW b \in Box \cup {NULL}, mailbox' = [mailbox EXCEPT ![p] = b],
             UNCHANGED <<central_postoffice, spots, next>>,
             \A s \in spots : Endless(s) => Endless(s)',
             \A s \in spots \ {p} : Raw(s) => Raw(s)'
      PROVE  OneList'
  <2>1. Places' = Places
    BY <1>3 DEF Places, From
  <2>2. \A s \in spots : mailbox'[s] = Wild => mailbox[s] = Wild /\ s # p
    BY <1>1, <1>3 DEF TypeOK
  <2>3. QED
    BY <1>1, <1>3, <2>1, <2>2 DEF OneList
<1>4. ASSUME MakeBox(t) \/ AppendBox(t) \/ Take(t) PROVE OneList'
  <2>1. /\ pc[t] \in {"makebox", "appendbox", "take"} /\ found[t] \in Box
        /\ pc'[t] \in {"makenext", "appendnext", "idle"}
        /\ UNCHANGED <<central_postoffice, spots, next>>
        /\ pc[t] = "makebox" => pc'[t] = "makenext"
        /\ pc[t] = "appendbox" => pc'[t] = "appendnext"
        /\ pc[t] # "take" => cpo'[t] = cpo[t]
    <3>1. found[t] \in Box
      BY <1>4 DEF Sound, Typed, Known, MakeBox, AppendBox, Take, At, Adding, Extending, TypeOK
    <3>2. QED
      BY <1>1, <1>4, <3>1 DEF MakeBox, AppendBox, Take, At, Stay, Return, Goto, TypeOK
  <2>2. \A u \in Thread \ {t} : pc[u] \notin Extending
    BY <2>1, OthersComplete DEF Adding, Extending
  <2>3. \A s \in spots : Endless(s) => Endless(s)'
    BY <2>1, <2>2 DEF Endless, Extending
  <2>4. PICK p \in Spot : /\ mailbox' = [mailbox EXCEPT ![p] = found[t]]
                          /\ pc[t] = "makebox" => p = central_postoffice
                          /\ pc[t] = "appendbox" => p = next[cpo[t]]
    <3>1. CASE MakeBox(t)
      BY <1>1, <3>1 DEF MakeBox, At, Cursor, TypeOK
    <3>2. CASE AppendBox(t)
      BY <1>1, <3>2 DEF AppendBox, At, Cursor, TypeOK
    <3>3. CASE Take(t)
      BY <1>1, <3>3 DEF Take, At, Cursor, TypeOK
    <3>4. QED
      BY <1>4, <3>1, <3>2, <3>3
  <2>5. \A s \in spots \ {p} : ~Raw(s)
    BY <2>1, <2>2, <2>4 DEF Raw, Extending
  <2>6. QED
    BY <1>3, <2>1, <2>3, <2>4, <2>5
<1>5. ASSUME RemoveUnplace(t) PROVE OneList'
  <2>1. /\ pc[t] = "unplace" /\ pc'[t] = "idle" /\ mailbox' = [mailbox EXCEPT ![cpo[t]] = NULL]
        /\ UNCHANGED <<central_postoffice, spots, next>>
    BY <1>1, <1>5 DEF RemoveUnplace, At, Return, Goto, TypeOK
  <2>2. \A s : (Endless(s) => Endless(s)') /\ (Raw(s) => Raw(s)')
    BY <1>1, <2>1 DEF Endless, Raw, OthersStand
  <2>3. CASE cpo[t] \in Spot
    BY <1>3, <2>1, <2>2, <2>3
  <2>4. CASE cpo[t] \notin Spot
    <3>1. mailbox' = mailbox
      BY <1>1, <2>1, <2>4 DEF TypeOK
    <3>2. Places' = Places
      BY <2>1 DEF Places, From
    <3>3. QED
      BY <1>1, <2>1, <2>2, <3>1, <3>2 DEF OneList
  <2>5. QED
    BY <2>3, <2>4
(* The last place gets its end.                                             *)
<1>6. ASSUME MakeNext(t) \/ AppendNext(t) PROVE OneList'
  <2>1. PICK p \in spots : /\ next' = [next EXCEPT ![p] = NULL] /\ next[p] = Wild
                           /\ pc[t] = "makenext" => p = central_postoffice
                           /\ pc[t] = "appendnext" => p = next[cpo[t]]
    BY <1>1, <1>6 DEF MakeNext, AppendNext, At, Cursor
  <2>2. pc[t] \in {"makenext", "appendnext"} /\ UNCHANGED <<central_postoffice, spots, mailbox>>
    BY <1>6 DEF MakeNext, AppendNext, At
  <2>3. \A u \in Thread \ {t} : pc[u] \notin Extending
    BY <2>2, OthersComplete DEF Adding, Extending
  <2>4. \A s \in spots : ~Raw(s) /\ (s # p => ~Endless(s))
    BY <2>1, <2>2, <2>3 DEF Raw, Endless, Extending
  <2>5. \A s \in spots : s # p => next'[s] = next[s]
    BY <1>1, <2>1 DEF TypeOK
  <2>6. next'[p] = NULL /\ NULL \notin spots /\ Wild \notin spots
    BY <1>1, <2>1 DEF TypeOK
  <2>7. Places' = Places
    <3>1. \A s \in spots : next'[s] = next[s] \/ (next'[s] \notin spots /\ next[s] \notin spots)
      BY <2>1, <2>5, <2>6
    <3>2. Reach(spots, next', central_postoffice) = Reach(spots, next, central_postoffice)
      BY <3>1, ReachSame
    <3>3. QED
      BY <2>2, <3>2 DEF Places, From
  <2>8. QED
    BY <1>1, <2>1, <2>2, <2>4, <2>5, <2>6, <2>7 DEF OneList
<1>7. ASSUME CleanUnlink(t) PROVE OneList'
  <2> DEFINE c == central_postoffice
  <2>1. /\ pc[t] = "unlink" /\ c \in spots /\ central_postoffice' = next[c]
        /\ spots' = spots \ {c} /\ UNCHANGED <<mailbox, next>>
    BY <1>1, <1>7 DEF CleanUnlink, At, Cursor
  <2>2. \A s \in spots : next[s] \in spots \cup {NULL} /\ mailbox[s] # Wild
    BY <2>1, ListWhole
  <2>3. Places' = spots'
    BY <1>1, <2>1, ReachUnlinked DEF OneList, Places, From
  <2>4. central_postoffice' \in spots' \cup {NULL}
    BY <1>1, <2>1, <2>2 DEF OneList
  <2>5. \A s \in spots' : /\ next'[s] \in spots' \cup {NULL}
                          /\ next'[s] \in spots' => next'[s] # central_postoffice'
    BY <1>1, <2>1, <2>2 DEF OneList
  <2>6. QED
    BY <1>1, <2>1, <2>2, <2>3, <2>4, <2>5 DEF OneList
<1>8. ASSUME Make(t), central_postoffice' # NULL PROVE OneList'
  <2>1. /\ pc[t] = "make" /\ central_postoffice = NULL
        /\ \E s \in Spot \ spots : central_postoffice' = s /\ Allocate(s)
        /\ next' = [next EXCEPT ![central_postoffice'] = Wild]
        /\ pc' = [pc EXCEPT ![t] = "makebox"]
    BY <1>1, <1>8 DEF Make, At, Cursor, Stay, Goto
  <2>2. PICK s \in Spot \ spots : central_postoffice' = s /\ Allocate(s)
    BY <2>1
  <2>3. spots = {}
    <3>1. NULL \notin spots
      BY <1>1 DEF TypeOK
    <3>2. QED
      BY <1>1, <2>1, <3>1, ReachNowhere DEF OneList, Places, From
  <2>4. spots' = {s} /\ next'[s] = Wild /\ mailbox'[s] = Wild /\ Wild # s
    BY <1>1, <2>1, <2>2, <2>3 DEF Allocate, TypeOK
  <2>5. Raw(s)' /\ Endless(s)'
    BY <1>1, <2>1, <2>2 DEF Raw, Endless, TypeOK
  <2>6. Places' = spots'
    <3>1. Reach(spots', next', s) = {s} \cup Reach(spots', next', next'[s])
      BY <2>4, ReachOn
    <3>2. Reach(spots', next', next'[s]) = {}
      BY <2>4, ReachNowhere
    <3>3. QED
      BY <2>2, <2>4, <3>1, <3>2 DEF Places, From
  <2>7. QED
    BY <2>2, <2>4, <2>5, <2>6 DEF OneList
<1>9. ASSUME Extend(t), spots' # spots PROVE OneList'
  <2> DEFINE c == central_postoffice
             p == cpo[t]
  <2>1. /\ pc[t] = "append" /\ p \in spots /\ next[p] = NULL
        /\ central_postoffice' = c /\ pc' = [pc EXCEPT ![t] = "appendbox"] /\ cpo' = cpo
        /\ \E s \in Spot \ spots :
              Allocate(s) /\ next' = [next EXCEPT ![p] = s, ![s] = Wild]
    BY <1>1, <1>9 DEF Extend, At, Cursor, Stay, Goto
  <2>2. PICK s \in Spot \ spots : Allocate(s) /\ next' = [next EXCEPT ![p] = s, ![s] = Wild]
    BY <2>1
  <2>3. \A q \in spots : next[q] \in spots \cup {NULL} /\ mailbox[q] # Wild
    BY <2>1, ListWhole
  <2>4. c \in spots
    <3>1. Reach(spots, next, c) # {}
      BY <1>1, <2>1 DEF OneList, Places, From
    <3>2. QED
      BY <3>1, ReachNowhere
  <2>5. /\ spots' = spots \cup {s} /\ next'[p] = s /\ next'[s] = Wild /\ mailbox'[s] = Wild
        /\ \A q \in spots \ {p} : next'[q] = next[q] /\ next[q] # s
        /\ \A q \in spots : mailbox'[q] = mailbox[q]
        /\ Wild \notin spots \cup {s} /\ NULL \notin spots \cup {s} /\ p # s
    BY <1>1, <2>1, <2>2, <2>3 DEF Allocate, TypeOK
  <2>6. Reach(spots \cup {s}, next', c) = spots \cup {s}
    <3>1. Reach(spots, next, c) = spots
      BY <1>1 DEF OneList, Places, From
    <3>2. /\ next[p] \notin spots /\ next'[s] \notin spots \cup {s} /\ s \notin spots
          /\ next'[p] = s /\ p \in spots
      BY <2>1, <2>2, <2>5
    <3>3. \A q \in spots \ {p} : next'[q] = next[q] /\ next[q] # s
      BY <2>5
    <3> HIDE DEF c, p
    <3>4. QED
      BY <2>4, <3>1, <3>2, <3>3, ReachExtended
  <2>7. Places' = spots'
    BY <2>1, <2>5, <2>6 DEF Places, From
  <2>8. Raw(s)' /\ Endless(s)'
    BY <1>1, <2>1, <2>5 DEF Raw, Endless, TypeOK
  <2>9. /\ \A q \in spots' : next'[q] \in spots' \cup {NULL} \/ q = s
        /\ \A q \in spots' : next'[q] \in spots' => next'[q] # c
        /\ \A q, r \in spots' : next'[r] = next'[q] /\ next'[r] \in spots' => r = q
    <3>1. \A q \in spots' : next'[q] \in spots' \cup {NULL} \/ q = s
      BY <2>3, <2>5
    <3>2. ASSUME NEW q \in spots', next'[q] \in spots', next'[q] = c PROVE FALSE
      <4>1. q # s /\ q # p
        BY <2>2, <2>4, <2>5, <3>2
      <4>2. next'[q] = next[q] /\ q \in spots
        BY <2>5, <4>1
      <4>3. QED
        BY <1>1, <2>4, <3>2, <4>2 DEF OneList
    <3>3. ASSUME NEW q \in spots', NEW r \in spots', next'[r] = next'[q], next'[r] \in spots'
          PROVE  r = q
      <4>1. q # s /\ r # s
        BY <2>5, <3>3
      <4>2. CASE q = p \/ r = p
        BY <2>5, <3>3, <4>1, <4>2
      <4>3. CASE q # p /\ r # p
        BY <1>1, <2>3, <2>5, <3>3, <4>1, <4>3 DEF OneList
      <4>4. QED
        BY <4>2, <4>3
    <3>4. QED
      BY <3>1, <3>2, <3>3
  <2>10. \A q \in spots' : mailbox'[q] = Wild => q = s
    BY <2>3, <2>5
  <2>11. central_postoffice' \in spots' \cup {NULL}
    BY <2>1, <2>4, <2>5
  <2>12. QED
    BY <2>1, <2>5, <2>7, <2>8, <2>9, <2>10, <2>11, ZenonT(60) DEF OneList
<1>10. QED
    BY <1>2, <1>4, <1>5, <1>6, <1>7, <1>8, <1>9, WritesOrNot DEF Writes

(* Only a call that starts to add a mailbox brings one to life.             *)
LEMMA LiveGrows ==
    ASSUME TypeOK, NEW t \in Thread, Steps(t)
    PROVE  live' \subseteq live \/ (pc[t] = "idle" /\ pc'[t] = "first")
<1>1. CASE \E id \in Id : \/ \E b \in Box : Create(t, id, b)
                          \/ \E o \in Lookups : Search(t, id, o)
    BY <1>1 DEF Create, Search, boxes, Goto, At, TypeOK
<1>2. CASE \/ First(t) \/ Make(t) \/ MakeBox(t) \/ MakeNext(t)
           \/ Scan(t) \/ Take(t) \/ Last(t) \/ Extend(t) \/ AppendBox(t) \/ AppendNext(t)
           \/ Visit(t) \/ Miss(t)
    BY <1>2 DEF First, Make, MakeBox, MakeNext, Scan, Take, Last, Extend, AppendBox,
                AppendNext, Visit, Miss, boxes
<1>3. CASE \/ Pushes(t) \/ Pop(t) \/ PopFromInbox(t) \/ UseFreed(t)
           \/ RemoveDelete(t) \/ RemoveHangs(t) \/ RemoveUnplace(t)
    BY <1>3 DEF Pushes, Push, Pop, PopFromInbox, UseFreed, RemoveDelete, RemoveHangs, Hang, Free,
                RemoveUnplace, boxes
<1>4. CASE CleanStart(t) \/ CleanDelete(t) \/ CleanUnlink(t) \/ CleanEnd(t)
    BY <1>4 DEF CleanStart, CleanDelete, Hang, Free, CleanUnlink, CleanEnd, boxes
<1>5. QED
    BY <1>1, <1>2, <1>3, <1>4 DEF Steps

(* Where a thread is in the list does not change under it.                  *)
LEMMA OthersCursors ==
    ASSUME Sound, NEW t \in Thread, Steps(t), ~Races', NEW u \in Thread \ {t}
    PROVE  Cursor(u)'
<1>1. /\ TypeOK /\ TypeOK' /\ OneList /\ Cursor(u) /\ OthersStand(t) /\ ~Races
      /\ pc'[u] = pc[u] /\ cpo'[u] = cpo[u]
    BY OthersDoStand, TypesKept DEF Sound, Typed, Cursors, OthersStand
<1>2. CASE Quietly(t)
  <2>1. pc[u] = "unlink" => live' \subseteq live
    BY <1>1, LiveGrows DEF Races, Cleaning, Adding
  <2>2. QED
    BY <1>1, <1>2, <2>1 DEF Quietly, Cursor, list
<1>3. CASE \/ Make(t) /\ central_postoffice' # NULL
           \/ Extend(t) \/ MakeBox(t) \/ MakeNext(t) \/ Take(t) \/ AppendBox(t) \/ AppendNext(t)
  <2>1. pc[t] \in Adding /\ spots \subseteq spots'
    BY <1>1, <1>3 DEF Make, Extend, MakeBox, MakeNext, Take, AppendBox, AppendNext, Allocate,
                      At, Adding, Extending
  <2>2. pc[u] \notin Adding \cup Cleaning
    BY <1>1, <2>1, OthersComplete
  <2>3. QED
    BY <1>1, <2>1, <2>2 DEF Cursor, Adding, Extending, Cleaning
<1>4. CASE RemoveUnplace(t)
  <2>1. /\ pc[t] = "unplace" /\ UNCHANGED <<central_postoffice, spots, next>>
        /\ \A s \in Spot : mailbox'[s] = mailbox[s] \/ mailbox'[s] = NULL
    BY <1>1, <1>4 DEF RemoveUnplace, At, TypeOK
  <2>2. pc[u] # "unlink"
    BY <1>1, <2>1 DEF Races, Cleaning, Removing
  <2>3. spots \subseteq Spot
    BY <1>1 DEF TypeOK
  <2>4. QED
    BY <1>1, <2>1, <2>2, <2>3 DEF Cursor
<1>5. CASE CleanUnlink(t)
  <2>1. pc[t] = "unlink"
    BY <1>5 DEF CleanUnlink, At
  <2>2. pc[u] \notin Reading \cup Adding \cup Removing \cup Cleaning
    BY <1>1, <2>1 DEF Races, Cleaning
  <2>3. QED
    BY <1>1, <2>2 DEF Cursor, Reading, Adding, Extending, Cleaning
<1>6. QED
    BY <1>2, <1>3, <1>4, <1>5, WritesOrNot DEF Writes

LEMMA CursorsKept ==
    ASSUME Sound, NEW t \in Thread, Steps(t), ~Races' PROVE Cursors'
<1>1. /\ TypeOK /\ TypeOK' /\ OneList /\ Cursor(t) /\ NULL \notin spots
      /\ {NULL, Wild} \cap (Id \cup Box \cup Spot) = {} /\ NULL # Wild
    BY OthersDoStand, TypesKept, OfficeAssumption DEF Sound, Typed, Cursors, TypeOK
<1>2. SUFFICES Cursor(t)'
    BY OthersCursors DEF Cursors
<1> USE DEF At, Stay, MoveTo, Goto, Return
<1>3. ASSUME pc'[t] \in {"idle", "use", "delete", "stuck", "dead", "unplace", "clean", "first"}
      PROVE  Cursor(t)'
    BY <1>3 DEF Cursor
<1>4. CASE \E id \in Id : \/ \E b \in Box : Create(t, id, b)
                          \/ \E o \in Lookups : Search(t, id, o)
  <2>1. CASE \E id \in Id, b \in Box : Create(t, id, b)
    BY <1>1, <1>3, <2>1 DEF Create, TypeOK
  <2>2. CASE \E id \in Id, o \in Lookups : Search(t, id, o)
    <3>1. pc'[t] = "walk" /\ cpo'[t] \in spots \cup {NULL} /\ UNCHANGED spots
      BY <1>1, <2>2 DEF Search, TypeOK, OneList, list
    <3>2. QED
      BY <3>1 DEF Cursor
  <2>3. QED
    BY <1>4, <2>1, <2>2
<1>5. CASE First(t)
  <2>1. /\ UNCHANGED list
        /\ \/ pc'[t] = "make" /\ central_postoffice = NULL
           \/ pc'[t] = "scan" /\ central_postoffice \in spots /\ cpo'[t] = central_postoffice
    BY <1>1, <1>5 DEF First, TypeOK, OneList
  <2>2. QED
    BY <2>1 DEF Cursor, list
<1>6. CASE Make(t)
  <2>1. CASE central_postoffice' = NULL
    BY <1>1, <1>3, <1>6, <2>1 DEF Make, TypeOK
  <2>2. CASE central_postoffice' # NULL
    <3>1. /\ pc'[t] = "makebox" /\ central_postoffice' \in spots'
          /\ next'[central_postoffice'] = Wild /\ mailbox'[central_postoffice'] = Wild
      BY <1>1, <1>6, <2>2 DEF Make, Allocate, TypeOK
    <3>2. QED
      BY <3>1 DEF Cursor
  <2>3. QED
    BY <2>1, <2>2
<1>7. CASE MakeBox(t) \/ AppendBox(t)
  <2>1. CASE MakeBox(t)
    <3>1. pc[t] = "makebox" /\ pc'[t] = "makenext" /\ UNCHANGED <<central_postoffice, spots, next>>
      BY <1>1, <2>1 DEF MakeBox, TypeOK
    <3>2. QED
      BY <1>1, <3>1 DEF Cursor
  <2>2. CASE AppendBox(t)
    <3>1. /\ pc[t] = "appendbox" /\ pc'[t] = "appendnext" /\ cpo'[t] = cpo[t]
          /\ UNCHANGED <<central_postoffice, spots, next>>
      BY <1>1, <2>2 DEF AppendBox, TypeOK
    <3>2. QED
      BY <1>1, <3>1 DEF Cursor
  <2>3. QED
    BY <1>7, <2>1, <2>2
<1>8. CASE MakeNext(t) \/ AppendNext(t) \/ Take(t) \/ RemoveUnplace(t) \/ Miss(t) \/ CleanEnd(t)
           \/ CleanUnlink(t) \/ CleanStart(t) \/ UseFreed(t)
    BY <1>1, <1>3, <1>8 DEF MakeNext, AppendNext, Take, RemoveUnplace, Miss, CleanEnd,
                            CleanUnlink, CleanStart, UseFreed, TypeOK
<1>9. CASE Pushes(t) \/ Pop(t) \/ PopFromInbox(t) \/ RemoveDelete(t) \/ RemoveHangs(t)
    BY <1>1, <1>3, <1>9 DEF Pushes, Push, Pop, PopFromInbox, RemoveDelete, RemoveHangs, Hang, TypeOK
<1>10. CASE Scan(t)
  <2>1. /\ UNCHANGED list /\ central_postoffice \in spots
        /\ \/ pc'[t] = "last" /\ cpo'[t] = central_postoffice
           \/ pc'[t] = "take" /\ cpo'[t] = cpo[t] /\ cpo[t] \in spots /\ mailbox[cpo[t]] = NULL
           \/ pc'[t] = "scan" /\ cpo[t] \in spots /\ cpo'[t] = next[cpo[t]]
    BY <1>1, <1>10 DEF Scan, TypeOK, Cursor
  <2>2. cpo[t] \in spots => next[cpo[t]] \in spots \cup {NULL}
    BY <1>10, ListWhole DEF Scan
  <2>3. QED
    BY <2>1, <2>2 DEF Cursor, list
<1>11. CASE Last(t)
  <2>1. /\ UNCHANGED list /\ cpo[t] \in spots
        /\ \/ pc'[t] = "append" /\ cpo'[t] = cpo[t] /\ next[cpo[t]] = NULL
           \/ pc'[t] = "last" /\ next[cpo[t]] # NULL /\ cpo'[t] = next[cpo[t]]
    BY <1>1, <1>11 DEF Last, TypeOK, Cursor
  <2>2. next[cpo[t]] \in spots \cup {NULL}
    BY <1>11, <2>1, ListWhole DEF Last
  <2>3. QED
    BY <2>1, <2>2 DEF Cursor, list
<1>12. CASE Extend(t)
  <2>1. CASE pc'[t] = "dead"
    BY <1>3, <2>1
  <2>2. CASE pc'[t] # "dead"
    <3>1. /\ pc'[t] = "appendbox" /\ cpo'[t] = cpo[t]
          /\ \E s \in Spot \ spots :
               Allocate(s) /\ next' = [next EXCEPT ![cpo[t]] = s, ![s] = Wild]
      BY <1>1, <1>12, <2>2 DEF Extend, TypeOK
    <3>2. PICK s \in Spot \ spots :
               Allocate(s) /\ next' = [next EXCEPT ![cpo[t]] = s, ![s] = Wild]
      BY <3>1
    <3>3. cpo[t] \in spots
      BY <1>1, <1>12 DEF Extend, Cursor
    <3>4. /\ spots' = spots \cup {s} /\ next'[cpo[t]] = s /\ next'[s] = Wild
          /\ mailbox'[s] = Wild
      BY <1>1, <3>2, <3>3 DEF Allocate, TypeOK
    <3>5. QED
      BY <3>1, <3>3, <3>4 DEF Cursor
  <2>3. QED
    BY <2>1, <2>2
<1>13. CASE Visit(t)
  <2>1. /\ UNCHANGED list /\ cpo[t] \in spots
        /\ \/ pc'[t] \in {"use", "delete"}
           \/ pc'[t] = "walk" /\ cpo'[t] = next[cpo[t]]
    BY <1>1, <1>13 DEF Visit, Arrive, TypeOK
  <2>2. next[cpo[t]] \in spots \cup {NULL}
    BY <1>13, <2>1, ListWhole DEF Visit
  <2>3. QED
    BY <2>1, <2>2 DEF Cursor, list
<1>14. CASE CleanDelete(t)
  <2>1. CASE pc'[t] # "unlink"
    BY <1>1, <1>3, <1>14, <2>1 DEF CleanDelete, Hang, TypeOK
  <2>2. CASE pc'[t] = "unlink"
    <3>1. /\ UNCHANGED list /\ central_postoffice \in spots
          /\ mailbox[central_postoffice] \notin live'
      BY <1>1, <1>14, <2>2 DEF CleanDelete, Hang, Free, OneList, TypeOK, boxes, list
    <3>2. QED
      BY <2>2, <3>1 DEF Cursor, list
  <2>3. QED
    BY <2>1, <2>2
<1>15. QED
    BY <1>4, <1>5, <1>6, <1>7, <1>8, <1>9, <1>10, <1>11, <1>12, <1>13, <1>14 DEF Steps

LEMMA SoundKept ==
    ASSUME Sound, NEW t \in Thread, Steps(t), "raced" \notin misuse' PROVE Sound'
<1>1. ~Races'
    BY NotesStay
<1>2. QED
    BY <1>1, TypesKept, OneListKept, CursorsKept DEF Sound

-----------------------------------------------------------------------------
(* A walk finds what is there.                                             *)

(* Beside a walk, no mailbox it could look for goes, or the walk knows.     *)
LEMMA BesideWalk ==
    ASSUME Sound, NEW t \in Thread, Steps(t), ~Races', NEW u \in Thread \ {t}, pc[u] = "walk"
    PROVE  /\ UNCHANGED <<spots, next>> /\ live \subseteq live'
           /\ \A s \in spots : mailbox[s] \in live => mailbox'[s] = mailbox[s]
           /\ there'[u] => there[u] /\ \A b \in live : owner[b] = meant[u] => owner'[b] = owner[b]
<1>1. /\ TypeOK /\ Cursor(t) /\ pc'[u] = "walk" /\ NULL \notin live /\ spots \subseteq Spot
      /\ live \subseteq Box
    BY OthersDoStand, OfficeAssumption DEF Sound, Typed, Cursors, OthersStand, TypeOK
<1>2. pc[t] \notin Extending \cup Removing \cup Cleaning
    BY <1>1 DEF Sound, Races, Reading
<1>3. pc'[t] \notin Extending \cup Removing \cup Cleaning
    BY <1>1 DEF Races, Reading
<1> USE <1>1 DEF At, Stay, MoveTo, Goto, Return, TypeOK
<1>4. CASE \E id \in Id : \/ \E b \in Box : Create(t, id, b)
                          \/ \E o \in Lookups : Search(t, id, o)
  <2>1. CASE \E id \in Id, b \in Box : Create(t, id, b)
    BY <2>1 DEF Create, list
  <2>2. CASE \E id \in Id, o \in Lookups : Search(t, id, o)
    BY <2>2 DEF Search, list, boxes
  <2>3. QED
    BY <1>4, <2>1, <2>2
<1>5. CASE First(t) \/ Scan(t) \/ Last(t) \/ Miss(t)
    BY <1>5 DEF First, Scan, Last, Miss, list, boxes
<1>6. CASE Make(t) \/ Extend(t)
  <2>1. pc'[t] # "makebox" /\ pc'[t] # "appendbox"
    BY <1>3 DEF Extending
  <2>2. QED
    BY <1>6, <2>1 DEF Make, Extend, boxes
<1>7. CASE MakeBox(t) \/ MakeNext(t) \/ AppendBox(t) \/ AppendNext(t) \/ RemoveUnplace(t)
    BY <1>2, <1>7 DEF MakeBox, MakeNext, AppendBox, AppendNext, RemoveUnplace, Extending, Removing
<1>8. CASE Take(t)
  <2>1. mailbox[cpo[t]] = NULL /\ UNCHANGED <<spots, next, boxes>> /\ there'[u] = there[u]
        /\ \A s \in Spot : s # cpo[t] => mailbox'[s] = mailbox[s]
    BY <1>8 DEF Take, Cursor
  <2>2. QED
    BY <2>1 DEF boxes
<1>9. CASE Visit(t)
    BY <1>9 DEF Visit, Arrive, list, boxes
<1>10. CASE Pushes(t) \/ Pop(t) \/ PopFromInbox(t) \/ UseFreed(t)
    BY <1>10 DEF Pushes, Push, Pop, PopFromInbox, UseFreed, list, boxes
<1>11. CASE RemoveDelete(t) \/ CleanStart(t) \/ CleanDelete(t) \/ CleanUnlink(t) \/ CleanEnd(t)
    BY <1>2, <1>3, <1>11 DEF RemoveDelete, CleanStart, CleanDelete, CleanUnlink, CleanEnd,
                             Removing, Cleaning
<1>12. CASE RemoveHangs(t)
    BY <1>12 DEF RemoveHangs, Hang, list
<1>13. QED
    BY <1>4, <1>5, <1>6, <1>7, <1>8, <1>9, <1>10, <1>11, <1>12 DEF Steps

(* A walk begins at the first place, and goes from place to place.          *)
LEMMA WalkSteps ==
    ASSUME TypeOK, NEW t \in Thread, Steps(t), pc'[t] = "walk"
    PROVE  \/ \E id \in Id, o \in Lookups : Search(t, id, o)
           \/ Visit(t) /\ ~Match(t, cpo[t]) /\ MoveTo(t, next[cpo[t]], "walk")
<1> USE DEF At, Stay, MoveTo, Goto, Return, TypeOK
<1>1. \A id \in Id, b \in Box : ~Create(t, id, b)
    BY DEF Create
<1>2. ~First(t) /\ ~Scan(t) /\ ~Last(t) /\ ~Miss(t)
  <2>1. ~First(t) /\ ~Miss(t) /\ ~Last(t)
    BY DEF First, Miss, Last
  <2>2. ~Scan(t)
    BY DEF Scan
  <2>3. QED
    BY <2>1, <2>2
<1>3. /\ ~Make(t) /\ ~MakeBox(t) /\ ~MakeNext(t) /\ ~Take(t)
      /\ ~Extend(t) /\ ~AppendBox(t) /\ ~AppendNext(t)
    BY DEF Make, MakeBox, MakeNext, Take, Extend, AppendBox, AppendNext
<1>4. /\ ~Pushes(t) /\ ~Pop(t) /\ ~PopFromInbox(t) /\ ~UseFreed(t)
      /\ ~RemoveDelete(t) /\ ~RemoveHangs(t) /\ ~RemoveUnplace(t)
    BY DEF Pushes, Push, Pop, PopFromInbox, UseFreed, RemoveDelete, RemoveHangs, Hang, RemoveUnplace
<1>5. ~CleanStart(t) /\ ~CleanDelete(t) /\ ~CleanUnlink(t) /\ ~CleanEnd(t)
    BY DEF CleanStart, CleanDelete, Hang, CleanUnlink, CleanEnd
<1>6. Visit(t) => ~Match(t, cpo[t]) /\ MoveTo(t, next[cpo[t]], "walk")
    BY DEF Visit, Arrive
<1>7. QED
    BY <1>1, <1>2, <1>3, <1>4, <1>5, <1>6 DEF Steps

LEMMA AheadKept ==
    ASSUME Sound, Ahead, NEW t \in Thread, Steps(t), ~Races' PROVE Ahead'
<1>1. /\ TypeOK /\ OneList /\ OthersStand(t) /\ NULL \notin live /\ spots \subseteq Spot
      /\ live \subseteq Box
    BY OthersDoStand, OfficeAssumption DEF Sound, Typed, TypeOK
<1>2. SUFFICES ASSUME NEW u \in Thread, pc'[u] = "walk", there'[u]
               PROVE  \E s \in From(cpo[u])' : mailbox'[s] \in live' /\ owner'[mailbox'[s]] = meant'[u]
    BY DEF Ahead
<1>3. CASE u # t
  <2>1. pc[u] = "walk" /\ cpo'[u] = cpo[u] /\ meant'[u] = meant[u]
    BY <1>1, <1>2, <1>3 DEF OthersStand
  <2>2. /\ UNCHANGED <<spots, next>> /\ live \subseteq live' /\ there[u]
        /\ \A s \in spots : mailbox[s] \in live => mailbox'[s] = mailbox[s]
        /\ \A b \in live : owner[b] = meant[u] => owner'[b] = owner[b]
    BY <1>2, <1>3, <2>1, BesideWalk
  <2>3. PICK s \in From(cpo[u]) : mailbox[s] \in live /\ owner[mailbox[s]] = meant[u]
    BY <2>1, <2>2 DEF Ahead
  <2>4. From(cpo[u])' = From(cpo[u]) /\ s \in spots
    BY <2>1, <2>2, <2>3, ReachWithin DEF From
  <2>5. QED
    BY <2>1, <2>2, <2>3, <2>4
<1>4. CASE u = t /\ \E id \in Id, o \in Lookups : Search(t, id, o)
  <2>1. PICK id \in Id, o \in Lookups : Search(t, id, o)
    BY <1>4
  <2>2. /\ UNCHANGED <<list, boxes>> /\ cpo'[t] = central_postoffice /\ meant'[t] = id
        /\ Placed(id) # {}
    BY <1>1, <1>2, <1>4, <2>1 DEF Search, TypeOK
  <2>3. PICK s \in Placed(id) : TRUE
    BY <2>2
  <2>4. From(cpo[t])' = Places
    BY <2>2 DEF From, Places, list
  <2>5. QED
    BY <1>4, <2>2, <2>3, <2>4 DEF Placed, list, boxes
<1>5. CASE u = t /\ Visit(t) /\ ~Match(t, cpo[t]) /\ MoveTo(t, next[cpo[t]], "walk")
  <2>1. /\ UNCHANGED <<list, boxes>> /\ cpo'[t] = next[cpo[t]] /\ meant'[t] = meant[t]
        /\ there[t] /\ pc[t] = "walk" /\ cpo[t] \in spots
        /\ mailbox[cpo[t]] = NULL \/ owner[mailbox[cpo[t]]] # meant[t]
    BY <1>1, <1>2, <1>5 DEF Visit, MoveTo, At, Match, TypeOK
  <2>2. PICK s \in From(cpo[t]) : mailbox[s] \in live /\ owner[mailbox[s]] = meant[t]
    BY <2>1 DEF Ahead
  <2>3. From(cpo[t]) = {cpo[t]} \cup From(next[cpo[t]])
    BY <2>1, ReachOn DEF From
  <2>4. s \in From(next[cpo[t]])
    BY <1>1, <2>1, <2>2, <2>3
  <2>5. From(cpo[t])' = From(next[cpo[t]])
    BY <2>1 DEF From, list
  <2>6. QED
    BY <1>5, <2>1, <2>2, <2>4, <2>5 DEF list, boxes
<1>6. QED
    BY <1>1, <1>2, <1>3, <1>4, <1>5, WalkSteps

-----------------------------------------------------------------------------
(* Places are used again.                                                  *)

LEMMA SmallerTaken ==
    ASSUME NEW S, IsFiniteSet(S), NEW T \in SUBSET S
    PROVE  Cardinality(T) \in Nat /\ Cardinality(S) \in Nat /\ Cardinality(T) <= Cardinality(S)
    BY FS_Subset, FS_CardinalityType

(* Beside one that adds a mailbox, places become empty and that is all.     *)
LEMMA BesideAdder ==
    ASSUME Sound, NEW t \in Thread, Steps(t), ~Races', NEW u \in Thread \ {t}, pc[u] \in Adding
    PROVE  UNCHANGED <<central_postoffice, spots, next, most>> /\ Taken' \subseteq Taken
<1>1. TypeOK /\ pc'[u] = pc[u]
    BY OthersDoStand DEF Sound, Typed, OthersStand
<1>2. pc[t] \notin Adding \cup Cleaning
    BY OthersComplete DEF Sound, Races
<1>3. pc'[t] \notin Adding
    BY <1>1 DEF Races
<1>4. /\ ~First(t) /\ ~Scan(t) /\ ~Last(t)
      /\ ~Make(t) /\ ~MakeBox(t) /\ ~MakeNext(t) /\ ~Take(t)
      /\ ~Extend(t) /\ ~AppendBox(t) /\ ~AppendNext(t)
      /\ ~CleanDelete(t) /\ ~CleanUnlink(t) /\ ~CleanEnd(t)
    BY <1>2 DEF First, Scan, Last, Make, MakeBox, MakeNext, Take, Extend, AppendBox, AppendNext,
                CleanDelete, CleanUnlink, CleanEnd, At, Adding, Extending, Cleaning
<1>5. \A id \in Id, b \in Box : ~Create(t, id, b)
    BY <1>1, <1>3 DEF Create, Goto, Adding, TypeOK
<1>6. CASE UNCHANGED <<list, most>>
    BY <1>6 DEF list, Taken
<1>7. CASE RemoveUnplace(t)
  <2>1. UNCHANGED <<central_postoffice, spots, next, most>>
    BY <1>7 DEF RemoveUnplace
  <2>2. \A s \in Spot : mailbox'[s] = mailbox[s] \/ mailbox'[s] = NULL
    BY <1>1, <1>7 DEF RemoveUnplace, TypeOK
  <2>3. NULL \notin Box /\ spots \subseteq Spot
    BY <1>1, OfficeAssumption DEF TypeOK
  <2>4. QED
    BY <2>1, <2>2, <2>3 DEF Taken
<1>8. CASE \E id \in Id, o \in Lookups : Search(t, id, o)
    BY <1>6, <1>8 DEF Search
<1>9. CASE \/ Visit(t) \/ Miss(t) \/ Pushes(t) \/ Pop(t) \/ PopFromInbox(t) \/ UseFreed(t)
           \/ RemoveDelete(t) \/ RemoveHangs(t) \/ CleanStart(t)
    BY <1>6, <1>9 DEF Visit, Miss, Pushes, Push, Pop, PopFromInbox, UseFreed, RemoveDelete, RemoveHangs,
                      Hang, CleanStart
<1>10. QED
    BY <1>4, <1>5, <1>7, <1>8, <1>9 DEF Steps

(* There never are more places than there were mailboxes.                   *)
LEMMA FewPlaces ==
    ASSUME Sound, SeenFull, NEW t \in Thread, Steps(t)
    PROVE  Cardinality(spots') <= most' /\ most <= most'
<1>1. /\ TypeOK /\ OneList /\ Cursor(t) /\ IsFiniteSet(spots) /\ most \in Nat
      /\ Cardinality(spots) <= most /\ Cardinality(spots) \in Nat
    BY FS_CardinalityType DEF Sound, Typed, Cursors, SeenFull, TypeOK
<1>2. CASE UNCHANGED <<spots, most>>
    BY <1>1, <1>2
<1>3. CASE Make(t) \/ Extend(t)
  <2>1. most' = most /\ pc[t] \in {"make", "append"}
    BY <1>3 DEF Make, Extend, At
  <2>2. Cardinality(spots) + 1 <= most
    <3>1. CASE pc[t] = "append"
      BY <3>1 DEF SeenFull
    <3>2. CASE pc[t] = "make"
      <4>1. central_postoffice = NULL /\ NULL \notin spots
        BY <1>1, <3>2, OfficeAssumption DEF Cursor, TypeOK
      <4>2. spots = {}
        BY <1>1, <4>1, ReachNowhere DEF OneList, Places, From
      <4>3. Taken = spots
        BY <4>2 DEF Taken
      <4>4. QED
        BY <3>2, <4>3 DEF SeenFull
    <3>3. QED
      BY <2>1, <3>1, <3>2
  <2>3. spots' = spots \/ \E s \in Spot \ spots : spots' = spots \cup {s}
    BY <1>3 DEF Make, Extend, Allocate
  <2>4. ASSUME NEW s \in Spot \ spots PROVE Cardinality(spots \cup {s}) = Cardinality(spots) + 1
    BY <1>1, FS_AddElement
  <2>5. QED
    BY <1>1, <2>1, <2>2, <2>3, <2>4
<1>4. CASE CleanUnlink(t)
  <2>1. most' = most /\ spots' \in SUBSET spots
    BY <1>4 DEF CleanUnlink
  <2>2. QED
    BY <1>1, <2>1, SmallerTaken
<1>5. CASE \E id \in Id, b \in Box : Create(t, id, b)
  <2>1. /\ UNCHANGED spots
        /\ LET now == Cardinality(Taken) + Cardinality({u \in Thread : pc'[u] \in Adding})
           IN  most' = IF now > most THEN now ELSE most
    BY <1>5 DEF Create, list
  <2>2. IsFiniteSet(Taken) /\ IsFiniteSet({u \in Thread : pc'[u] \in Adding})
    BY <1>1, FS_Subset, OfficeAssumption DEF Taken
  <2>3. Cardinality(Taken) \in Nat /\ Cardinality({u \in Thread : pc'[u] \in Adding}) \in Nat
    BY <2>2, FS_CardinalityType
  <2>4. QED
    BY <1>1, <2>1, <2>3
<1>6. CASE \E id \in Id, o \in Lookups : Search(t, id, o)
    BY <1>2, <1>6 DEF Search, list
<1>7. CASE First(t) \/ MakeBox(t) \/ MakeNext(t) \/ Scan(t) \/ Take(t) \/ Last(t)
           \/ AppendBox(t) \/ AppendNext(t)
    BY <1>2, <1>7 DEF First, MakeBox, MakeNext, Scan, Take, Last, AppendBox, AppendNext, list
<1>8. CASE \/ Visit(t) \/ Miss(t) \/ Pushes(t) \/ Pop(t) \/ PopFromInbox(t) \/ UseFreed(t)
           \/ RemoveDelete(t) \/ RemoveHangs(t) \/ RemoveUnplace(t)
    BY <1>2, <1>8 DEF Visit, Miss, Pushes, Push, Pop, PopFromInbox, UseFreed, RemoveDelete, RemoveHangs,
                      Hang, RemoveUnplace, list
<1>9. CASE CleanStart(t) \/ CleanDelete(t) \/ CleanEnd(t)
    BY <1>2, <1>9 DEF CleanStart, CleanDelete, Hang, CleanEnd, list
<1>10. QED
    BY <1>3, <1>4, <1>5, <1>6, <1>7, <1>8, <1>9 DEF Steps

(* Who goes on to the next place, and to the end, and extends the list.     *)
LEMMA ScanSteps ==
    ASSUME TypeOK, NEW t \in Thread, Steps(t),
           pc'[t] \in {"first", "make", "scan", "last", "append"}
    PROVE  \/ \E id \in Id, b \in Box : Create(t, id, b) /\ pc'[t] = "first"
           \/ First(t) /\ UNCHANGED cpo /\ pc'[t] = "make"
           \/ First(t) /\ MoveTo(t, central_postoffice, "scan") /\ pc'[t] = "scan"
           \/ Scan(t) /\ cpo[t] = NULL /\ pc'[t] = "last"
           \/ /\ Scan(t) /\ cpo[t] \in spots /\ mailbox[cpo[t]] # NULL
              /\ MoveTo(t, next[cpo[t]], "scan") /\ pc'[t] = "scan"
           \/ Last(t) /\ pc'[t] \in {"last", "append"}
<1> USE DEF At, Stay, MoveTo, Goto, Return, TypeOK
<1>1. /\ \A id \in Id, b \in Box : Create(t, id, b) => pc'[t] = "first"
      /\ \A id \in Id, o \in Lookups : ~Search(t, id, o)
    BY DEF Create, Search
<1>2. First(t) => \/ UNCHANGED cpo /\ pc'[t] = "make"
                  \/ MoveTo(t, central_postoffice, "scan") /\ pc'[t] = "scan"
    BY DEF First
<1>3. Scan(t) => \/ cpo[t] = NULL /\ pc'[t] = "last"
                 \/ /\ cpo[t] \in spots /\ mailbox[cpo[t]] # NULL
                    /\ MoveTo(t, next[cpo[t]], "scan") /\ pc'[t] = "scan"
    BY DEF Scan
<1>4. Last(t) => pc'[t] \in {"last", "append"}
    BY DEF Last
<1>5. /\ ~Make(t) /\ ~MakeBox(t) /\ ~MakeNext(t) /\ ~Take(t)
      /\ ~Extend(t) /\ ~AppendBox(t) /\ ~AppendNext(t) /\ ~Miss(t)
    BY DEF Make, MakeBox, MakeNext, Take, Extend, AppendBox, AppendNext, Miss
<1>6. /\ ~Pushes(t) /\ ~Pop(t) /\ ~PopFromInbox(t) /\ ~UseFreed(t)
      /\ ~RemoveDelete(t) /\ ~RemoveHangs(t) /\ ~RemoveUnplace(t)
    BY DEF Pushes, Push, Pop, PopFromInbox, UseFreed, RemoveDelete, RemoveHangs, Hang, RemoveUnplace
<1>7. ~CleanStart(t) /\ ~CleanDelete(t) /\ ~CleanUnlink(t) /\ ~CleanEnd(t) /\ ~Visit(t)
    BY DEF CleanStart, CleanDelete, Hang, CleanUnlink, CleanEnd, Visit, Arrive
<1>8. QED
    BY <1>1, <1>2, <1>3, <1>4, <1>5, <1>6, <1>7 DEF Steps

LEMMA SeenFullKept ==
    ASSUME Sound, SeenFull, NEW t \in Thread, Steps(t), ~Races' PROVE SeenFull'
<1>1. /\ TypeOK /\ TypeOK' /\ OneList /\ Cursor(t) /\ IsFiniteSet(spots)
      /\ NULL \notin spots /\ spots \subseteq Spot
      /\ most \in Nat /\ most' \in Nat /\ most <= most' /\ Cardinality(spots') <= most'
    BY FewPlaces, TypesKept, OfficeAssumption DEF Sound, Typed, Cursors, TypeOK
<1>2. SUFFICES ASSUME NEW u \in Thread,
                      pc'[u] \in {"first", "make", "scan", "last", "append"}
      PROVE /\ pc'[u] \in {"first", "make"} => Cardinality(Taken') + 1 <= most'
            /\ pc'[u] = "scan" =>
                  Cardinality(Taken' \cup (spots' \ From(cpo[u])')) + 1 <= most'
            /\ pc'[u] \in {"last", "append"} => Cardinality(spots') + 1 <= most'
    BY <1>1 DEF SeenFull
<1>3. CASE u # t
  <2>1. pc[u] = pc'[u] /\ cpo'[u] = cpo[u] /\ pc[u] \in Adding
    BY <1>1, <1>2, <1>3, OthersDoStand DEF OthersStand, Adding
  <2>2. UNCHANGED <<spots, next, most>> /\ Taken' \subseteq Taken
    BY <1>3, <2>1, BesideAdder
  <2>3. From(cpo[u])' = From(cpo[u])
    BY <2>1, <2>2 DEF From
  <2>4. IsFiniteSet(Taken) /\ IsFiniteSet(Taken \cup (spots \ From(cpo[u])))
    BY <1>1, FS_Subset DEF Taken
  <2>5. /\ Cardinality(Taken') \in Nat /\ Cardinality(Taken) \in Nat
        /\ Cardinality(Taken') <= Cardinality(Taken)
    BY <2>2, <2>4, SmallerTaken
  <2> DEFINE S == Taken \cup (spots \ From(cpo[u]))
             T == Taken' \cup (spots \ From(cpo[u]))
  <2>6. Cardinality(T) \in Nat /\ Cardinality(S) \in Nat /\ Cardinality(T) <= Cardinality(S)
    <3>1. T \in SUBSET S /\ IsFiniteSet(S)
      BY <2>2, <2>4
    <3> HIDE DEF S, T
    <3>2. QED
      BY <3>1, SmallerTaken
  <2>7. Taken' \cup (spots' \ From(cpo[u])') = T
    BY <2>2, <2>3
  <2>8. /\ pc[u] \in {"first", "make"} => Cardinality(Taken) + 1 <= most
        /\ pc[u] = "scan" => Cardinality(S) + 1 <= most
        /\ pc[u] \in {"last", "append"} => Cardinality(spots) + 1 <= most
    BY DEF SeenFull
  <2> HIDE DEF S, T
  <2>9. QED
    BY <1>1, <2>1, <2>2, <2>5, <2>6, <2>7, <2>8
<1>4. ASSUME NEW id \in Id, NEW b \in Box, Create(t, id, b), pc'[t] = "first", u = t
      PROVE  Cardinality(Taken') + 1 <= most'
  <2> DEFINE A == {v \in Thread : pc'[v] \in Adding}
  <2>1. /\ Taken' = Taken
        /\ LET now == Cardinality(Taken) + Cardinality(A)
           IN  most' = IF now > most THEN now ELSE most
    BY <1>4 DEF Create, list, Taken
  <2>2. IsFiniteSet(Taken) /\ IsFiniteSet(A) /\ t \in A
    BY <1>1, <1>4, FS_Subset, OfficeAssumption DEF Taken, Adding
  <2> HIDE DEF A
  <2>3. Cardinality(Taken) \in Nat /\ Cardinality(A) \in Nat /\ Cardinality(A) # 0
    <3>1. A # {}
      BY <2>2
    <3>2. QED
      BY <2>2, <3>1, FS_CardinalityType, FS_EmptySet
  <2>4. QED
    BY <1>1, <2>1, <2>3
<1>5. ASSUME u = t, First(t), UNCHANGED cpo, pc'[t] = "make"
      PROVE  Cardinality(Taken') + 1 <= most'
  <2>1. pc[t] = "first" /\ UNCHANGED <<list, most>>
    BY <1>5 DEF First, At
  <2>2. QED
    BY <2>1 DEF SeenFull, Taken, list
<1>6. ASSUME u = t, First(t), MoveTo(t, central_postoffice, "scan")
      PROVE  Cardinality(Taken' \cup (spots' \ From(cpo[t])')) + 1 <= most'
  <2>1. pc[t] = "first" /\ UNCHANGED <<list, most>> /\ cpo'[t] = central_postoffice
    BY <1>1, <1>6 DEF First, At, MoveTo, TypeOK
  <2>2. From(cpo[t])' = spots'
    BY <1>1, <2>1 DEF OneList, Places, From, list
  <2>3. Taken' \cup (spots' \ From(cpo[t])') = Taken
    BY <2>1, <2>2 DEF Taken, list
  <2>4. Cardinality(Taken) + 1 <= most
    BY <2>1 DEF SeenFull
  <2>5. QED
    BY <2>1, <2>3, <2>4
<1>7. ASSUME u = t, Scan(t), cpo[t] = NULL
      PROVE  Cardinality(spots') + 1 <= most'
  <2>1. pc[t] = "scan" /\ UNCHANGED <<list, most>>
    BY <1>7 DEF Scan, At
  <2>2. From(cpo[t]) = {}
    BY <1>1, <1>7, ReachNowhere DEF From
  <2>3. Taken \cup (spots \ From(cpo[t])) = spots
    BY <2>2 DEF Taken
  <2>4. Cardinality(spots) + 1 <= most
    BY <2>1, <2>3 DEF SeenFull
  <2>5. QED
    BY <2>1, <2>4 DEF list
<1>8. ASSUME u = t, Scan(t), cpo[t] \in spots, mailbox[cpo[t]] # NULL,
             MoveTo(t, next[cpo[t]], "scan")
      PROVE  Cardinality(Taken' \cup (spots' \ From(cpo[t])')) + 1 <= most'
  <2>1. pc[t] = "scan" /\ UNCHANGED <<list, most>> /\ cpo'[t] = next[cpo[t]]
    BY <1>1, <1>8 DEF Scan, At, MoveTo, TypeOK
  <2>2. cpo[t] \in Taken
    <3>1. mailbox[cpo[t]] # Wild
      BY <1>8, <2>1, ListWhole
    <3>2. QED
      BY <1>1, <1>8, <3>1 DEF Taken, TypeOK
  <2>3. From(cpo[t]) = {cpo[t]} \cup From(next[cpo[t]])
    BY <1>8, ReachOn DEF From
  <2>4. From(cpo[t])' = From(next[cpo[t]]) /\ Taken' = Taken /\ spots' = spots
    BY <2>1 DEF From, list, Taken
  <2> DEFINE S == Taken \cup (spots \ From(cpo[t]))
             T == Taken \cup (spots \ From(next[cpo[t]]))
  <2>5. IsFiniteSet(S) /\ T \in SUBSET S
    BY <1>1, <2>2, <2>3, FS_Subset DEF Taken
  <2>6. Cardinality(S) + 1 <= most
    BY <2>1 DEF SeenFull
  <2>7. Taken' \cup (spots' \ From(cpo[t])') = T
    BY <2>4
  <2> HIDE DEF S, T
  <2>8. Cardinality(T) \in Nat /\ Cardinality(S) \in Nat /\ Cardinality(T) <= Cardinality(S)
    BY <2>5, SmallerTaken
  <2>9. QED
    BY <1>1, <2>1, <2>6, <2>7, <2>8
<1>9. ASSUME u = t, Last(t) PROVE Cardinality(spots') + 1 <= most'
  <2>1. pc[t] = "last" /\ UNCHANGED <<list, most>>
    BY <1>9 DEF Last, At
  <2>2. QED
    BY <2>1 DEF SeenFull, list
<1>10. CASE u = t
  <2>1. From(cpo[u])' = From(cpo[t])'
    BY <1>10
  <2>2. CASE pc'[t] = "first"
    BY <1>1, <1>2, <1>4, <1>10, <2>2, ScanSteps
  <2>3. CASE pc'[t] = "make"
    BY <1>1, <1>2, <1>5, <1>10, <2>3, ScanSteps
  <2>4. CASE pc'[t] = "scan"
    BY <1>1, <1>2, <1>6, <1>8, <1>10, <2>1, <2>4, ScanSteps
  <2>5. CASE pc'[t] \in {"last", "append"}
    BY <1>1, <1>2, <1>7, <1>9, <1>10, <2>5, ScanSteps
  <2>6. QED
    BY <1>2, <1>10, <2>2, <2>3, <2>4, <2>5
<1>11. QED
    BY <1>3, <1>10

-----------------------------------------------------------------------------
(* Messages at home.                                                       *)

InOrder ==
    Sound /\ misuse \subseteq {"twice"} /\ InUse /\ OnItsWay /\ OnePlaceEach /\ MessagesAtHome

(* As long as nothing is pulled from under a thread, what others have found *)
(* stays, and nobody dies.                                                  *)
LEMMA NothingPulled ==
    ASSUME InOrder, NEW t \in Thread, Steps(t), misuse' \subseteq {"twice"}
    PROVE  /\ ~UseFreed(t) /\ pc'[t] # "dead"
           /\ \A u \in Thread \ {t} : found[u] \in live =>
                 found[u] \in live' /\ owner'[found[u]] = owner[found[u]]
<1>1. TypeOK /\ InUse /\ Known /\ pc[t] # "dead"
    BY DEF InOrder, Sound, Typed, MessagesAtHome, Alive
<1>2. ~UseFreed(t)
    BY <1>1 DEF UseFreed, InUse, Usable, Known
<1>3. \A events : Note(events) => "nomemory" \notin events /\ "pulled" \notin events
    BY DEF Note
<1> USE <1>1 DEF At, Stay, MoveTo, Goto, Return, TypeOK
<1>4. ASSUME NEW b \in Box, Hang(t, b) \/ (Free(b) /\ Note(Pulls(t, b)))
      PROVE  \A u \in Thread \ {t} : found[u] \in live =>
                 found[u] \in live' /\ owner'[found[u]] = owner[found[u]]
  <2>1. "pulled" \notin Pulls(t, b)
    BY <1>3, <1>4 DEF Hang
  <2>2. \A u \in Thread \ {t} : found[u] # b
    BY <2>1 DEF Pulls
  <2>3. QED
    BY <1>4, <2>2 DEF Hang, Free
<1>5. ASSUME UNCHANGED boxes \/ UNCHANGED <<live, owner>>, pc'[t] # "dead"
      PROVE  /\ ~UseFreed(t) /\ pc'[t] # "dead"
             /\ \A u \in Thread \ {t} : found[u] \in live =>
                 found[u] \in live' /\ owner'[found[u]] = owner[found[u]]
    BY <1>2, <1>5 DEF boxes
<1>6. CASE \E id \in Id, b \in Box : Create(t, id, b)
    BY <1>2, <1>6 DEF Create
<1>7. CASE \E id \in Id, o \in Lookups : Search(t, id, o)
    BY <1>5, <1>7 DEF Search
<1>8. CASE First(t) \/ Scan(t) \/ Last(t) \/ Visit(t)
    BY <1>5, <1>8 DEF First, Scan, Last, Visit, Arrive
<1>9. CASE \/ MakeBox(t) \/ MakeNext(t) \/ Take(t) \/ AppendBox(t) \/ AppendNext(t)
           \/ Miss(t) \/ Pushes(t) \/ Pop(t) \/ PopFromInbox(t) \/ RemoveUnplace(t)
           \/ CleanStart(t) \/ CleanUnlink(t) \/ CleanEnd(t)
    BY <1>5, <1>9 DEF MakeBox, MakeNext, Take, AppendBox, AppendNext, Miss, Pushes, Push, Pop,
                      PopFromInbox, RemoveUnplace, CleanStart, CleanUnlink, CleanEnd
<1>10. CASE Make(t) \/ Extend(t)
  <2>1. ~Note({"nomemory"}) /\ UNCHANGED boxes
    BY <1>3, <1>10 DEF Make, Extend
  <2>2. QED
    BY <1>2, <1>5, <1>10, <2>1 DEF Make, Extend
<1>11. CASE RemoveDelete(t) \/ RemoveHangs(t)
  <2>1. found[t] \in Box /\ pc'[t] \in {"unplace", "stuck"}
    BY <1>11 DEF RemoveDelete, RemoveHangs, Usable, Hang
  <2>2. Hang(t, found[t]) \/ (Free(found[t]) /\ Note(Pulls(t, found[t])))
    BY <1>11 DEF RemoveDelete, RemoveHangs
  <2>3. QED
    BY <1>2, <1>4, <2>1, <2>2
<1>12. CASE CleanDelete(t)
  <2> DEFINE b == mailbox[central_postoffice]
  <2>1. ~Note({"pulled"})
    BY <1>3
  <2>2. \/ UNCHANGED boxes /\ pc'[t] = "unlink"
        \/ b \in Box /\ Hang(t, b)
        \/ b \in Box /\ Free(b) /\ Note(Pulls(t, b)) /\ pc'[t] = "unlink"
    BY <1>12, <2>1 DEF CleanDelete
  <2>3. pc'[t] \in {"unlink", "stuck"}
    BY <2>2 DEF Hang
  <2>4. QED
    BY <1>2, <1>4, <1>5, <2>2, <2>3
<1>13. QED
    BY <1>2, <1>6, <1>7, <1>8, <1>9, <1>10, <1>11, <1>12 DEF Steps

(* What a step of a thread finds: the mailbox it makes, or one in the list. *)
LEMMA FoundBy ==
    ASSUME Typed, NEW t \in Thread, Steps(t)
    PROVE  \/ found'[t] \in {found[t], NULL} /\ pc'[t] \notin {"use", "delete", "first"}
           \/ /\ pc[t] = "idle" /\ pc'[t] = "first" /\ found'[t] \in Box \ live
              /\ owner'[found'[t]] # NULL /\ outbox'[found'[t]] = <<>>
              /\ found'[t] \in live' /\ UNCHANGED list
           \/ /\ pc[t] = "walk" /\ pc'[t] \in {"use", "delete"} /\ cpo'[t] = cpo[t]
              /\ cpo[t] \in spots /\ found'[t] = mailbox[cpo[t]] /\ found'[t] \in live
              /\ owner[found'[t]] = meant[t] /\ meant'[t] = meant[t]
              /\ UNCHANGED <<list, boxes>>
           \/ UseFreed(t)
<1> USE DEF At, Stay, MoveTo, Goto, Return, Typed, TypeOK
<1>1. CASE \E id \in Id, b \in Box : Create(t, id, b)
  <2>1. NULL \notin Id
    BY OfficeAssumption
  <2>2. QED
    BY <1>1, <2>1 DEF Create
<1>2. CASE \E id \in Id, o \in Lookups : Search(t, id, o)
    BY <1>2 DEF Search
<1>3. CASE First(t) \/ Scan(t) \/ Last(t)
    BY <1>3 DEF First, Scan, Last
<1>4. CASE Visit(t)
    BY <1>4 DEF Visit, Arrive, Match
<1>5. CASE \/ Make(t) \/ MakeBox(t) \/ MakeNext(t) \/ Take(t)
           \/ Extend(t) \/ AppendBox(t) \/ AppendNext(t)
    BY <1>5 DEF Make, MakeBox, MakeNext, Take, Extend, AppendBox, AppendNext
<1>6. CASE \/ Miss(t) \/ Pushes(t) \/ Pop(t) \/ PopFromInbox(t) \/ RemoveUnplace(t)
           \/ RemoveDelete(t) \/ RemoveHangs(t)
    BY <1>6 DEF Miss, Pushes, Push, Pop, PopFromInbox, RemoveUnplace, RemoveDelete, RemoveHangs, Hang
<1>7. CASE CleanStart(t) \/ CleanDelete(t) \/ CleanUnlink(t) \/ CleanEnd(t)
    BY <1>7 DEF CleanStart, CleanDelete, Hang, CleanUnlink, CleanEnd
<1>8. QED
    BY <1>1, <1>2, <1>3, <1>4, <1>5, <1>6, <1>7 DEF Steps

LEMMA InUseKept ==
    ASSUME InOrder, NEW t \in Thread, Steps(t), misuse' \subseteq {"twice"} PROVE InUse'
<1>1. InUse /\ OthersStand(t) /\ Typed
    BY OthersDoStand DEF InOrder, Sound, Typed
<1>2. SUFFICES ASSUME NEW u \in Thread, pc'[u] \in {"use", "delete"}
               PROVE  found'[u] \in live' /\ owner'[found'[u]] = meant'[u]
    BY DEF InUse
<1>3. CASE u # t
  <2>1. /\ pc[u] \in {"use", "delete"} /\ found'[u] = found[u] /\ meant'[u] = meant[u]
        /\ found[u] \in live /\ owner[found[u]] = meant[u]
    BY <1>1, <1>2, <1>3 DEF OthersStand, InUse
  <2>2. QED
    BY <1>3, <2>1, NothingPulled
<1>4. CASE u = t
    BY <1>1, <1>2, <1>4, FoundBy, NothingPulled DEF boxes
<1>5. QED
    BY <1>3, <1>4

(* The outbox of a mailbox changes under those that use it.                 *)
LEMMA OutboxBy ==
    ASSUME TypeOK, Known, NEW t \in Thread, Steps(t)
    PROVE  \/ UNCHANGED outbox
           \/ /\ pc'[t] = "first" /\ found'[t] \in Box \ live
              /\ outbox' = [outbox EXCEPT ![found'[t]] = <<>>]
              /\ live' = live \cup {found'[t]}
              /\ \A b \in live : owner'[b] = owner[b]
           \/ /\ pc[t] = "use" /\ found[t] \in live /\ UNCHANGED <<live, owner>>
              /\ \/ \E l \in Letter :
                        l.to = meant[t] /\ outbox' = [outbox EXCEPT ![found[t]] = Append(@, l)]
                 \/ outbox' = [outbox EXCEPT ![found[t]] = IF @ = <<>> THEN <<>> ELSE Tail(@)]
<1>1. CASE \E id \in Id, b \in Box : Create(t, id, b)
  <2>1. PICK id \in Id, b \in Box : Create(t, id, b)
    BY <1>1
  <2>2. pc'[t] = "first" /\ found'[t] = b /\ b \notin live
    BY <2>1 DEF Create, Goto, TypeOK
  <2>3. QED
    BY <2>1, <2>2 DEF Create, TypeOK
<1>2. CASE \E id \in Id, o \in Lookups : Search(t, id, o)
    BY <1>2 DEF Search, boxes
<1>3. CASE \/ First(t) \/ Make(t) \/ MakeBox(t) \/ MakeNext(t)
           \/ Scan(t) \/ Take(t) \/ Last(t) \/ Extend(t) \/ AppendBox(t) \/ AppendNext(t)
           \/ Visit(t) \/ Miss(t)
    BY <1>3 DEF First, Make, MakeBox, MakeNext, Scan, Take, Last, Extend, AppendBox,
                AppendNext, Visit, Miss, boxes
<1>4. CASE Pushes(t)
  <2>1. PICK b \in {"inbox", "outbox"} : Push(t, b)
    BY <1>4 DEF Pushes
  <2>2. pc[t] = "use" /\ found[t] \in live /\ meant[t] \in Id
    BY <2>1 DEF Push, Usable, At, Known, TypeOK
  <2>3. /\ [to |-> meant[t], into |-> b] \in Letter
        /\ [to |-> meant[t], into |-> b].to = meant[t]
    BY <2>2 DEF Letter
  <2>4. QED
    BY <2>1, <2>2, <2>3 DEF Push
<1>5. CASE Pop(t)
    BY <1>5 DEF Pop, Usable, At
<1>6. CASE \/ PopFromInbox(t) \/ UseFreed(t) \/ RemoveDelete(t) \/ RemoveHangs(t)
           \/ RemoveUnplace(t)
    BY <1>6 DEF PopFromInbox, UseFreed, RemoveDelete, RemoveHangs, Hang, Free, RemoveUnplace, boxes
<1>7. CASE CleanStart(t) \/ CleanDelete(t) \/ CleanUnlink(t) \/ CleanEnd(t)
    BY <1>7 DEF CleanStart, CleanDelete, Hang, Free, CleanUnlink, CleanEnd, boxes
<1>8. QED
    BY <1>1, <1>2, <1>3, <1>4, <1>6, <1>7, <1>5 DEF Steps

(* A mailbox has the owner it was made for until it is deleted.             *)
LEMMA OwnerBy ==
    ASSUME TypeOK, NEW t \in Thread, Steps(t)
    PROVE  \/ live' \subseteq live /\ \A b \in Box : owner'[b] \in {owner[b], NULL}
           \/ /\ pc[t] = "idle" /\ pc'[t] = "first" /\ found'[t] \in Box \ live
              /\ live' = live \cup {found'[t]} /\ outbox'[found'[t]] = <<>>
              /\ \A b \in live : owner'[b] = owner[b] /\ outbox'[b] = outbox[b]
              /\ UNCHANGED list
<1> USE DEF TypeOK, boxes
<1>1. CASE \E id \in Id : \/ \E b \in Box : Create(t, id, b)
                          \/ \E o \in Lookups : Search(t, id, o)
  <2>1. CASE \E id \in Id, b \in Box : Create(t, id, b)
    BY <2>1 DEF Create, Goto, At
  <2>2. CASE \E id \in Id, o \in Lookups : Search(t, id, o)
    BY <2>2 DEF Search
  <2>3. QED
    BY <1>1, <2>1, <2>2
<1>2. CASE \/ First(t) \/ Make(t) \/ MakeBox(t) \/ MakeNext(t)
           \/ Scan(t) \/ Take(t) \/ Last(t) \/ Extend(t) \/ AppendBox(t) \/ AppendNext(t)
           \/ Visit(t) \/ Miss(t)
    BY <1>2 DEF First, Make, MakeBox, MakeNext, Scan, Take, Last, Extend, AppendBox,
                AppendNext, Visit, Miss
<1>3. CASE \/ Pushes(t) \/ Pop(t) \/ PopFromInbox(t) \/ UseFreed(t)
           \/ RemoveDelete(t) \/ RemoveHangs(t) \/ RemoveUnplace(t)
    BY <1>3 DEF Pushes, Push, Pop, PopFromInbox, UseFreed, RemoveDelete, RemoveHangs, Hang, Free,
                RemoveUnplace
<1>4. CASE CleanStart(t) \/ CleanDelete(t) \/ CleanUnlink(t) \/ CleanEnd(t)
    BY <1>4 DEF CleanStart, CleanDelete, Hang, Free, CleanUnlink, CleanEnd
<1>5. QED
    BY <1>1, <1>2, <1>3, <1>4 DEF Steps

LEMMA AtHome ==
    ASSUME NEW id \in Id, NEW m \in Seq(Letter), \A i \in 1..Len(m) : m[i].to = id
    PROVE  /\ \A l \in Letter : l.to = id =>
                 \A i \in 1..Len(Append(m, l)) : Append(m, l)[i].to = id
           /\ m # <<>> => \A i \in 1..Len(Tail(m)) : Tail(m)[i].to = id
<1>1. ASSUME NEW l \in Letter, l.to = id, NEW i \in 1..Len(Append(m, l))
      PROVE  Append(m, l)[i].to = id
  <2>1. (i \in 1..Len(m) /\ Append(m, l)[i] = m[i]) \/ Append(m, l)[i] = l
    BY <1>1
  <2>2. QED
    BY <1>1, <2>1
<1>2. ASSUME m # <<>>, NEW i \in 1..Len(Tail(m)) PROVE Tail(m)[i].to = id
  <2>1. Tail(m)[i] = m[i + 1] /\ i + 1 \in 1..Len(m)
    BY <1>2
  <2>2. QED
    BY <2>1
<1>3. QED
    BY <1>1, <1>2

LEMMA MessagesKept ==
    ASSUME InOrder, NEW t \in Thread, Steps(t), misuse' \subseteq {"twice"}
    PROVE  MessagesAtHome'
<1>1. /\ TypeOK /\ TypeOK' /\ Known /\ MessagesAtHome /\ InUse
      /\ misuse \subseteq {"twice"} /\ NULL \notin Id
    BY TypesKept, OfficeAssumption DEF InOrder, Sound, Typed
<1>2. Alive'
    BY <1>1, NothingPulled, OthersDoStand DEF MessagesAtHome, Alive, OthersStand
<1>3. SUFFICES ASSUME NEW b \in live', owner'[b] # NULL
               PROVE  \A i \in 1..Len(outbox'[b]) : outbox'[b][i].to = owner'[b]
    BY <1>2 DEF MessagesAtHome
<1>4. CASE b \in live /\ owner'[b] = owner[b]
  <2>1. \A i \in 1..Len(outbox[b]) : outbox[b][i].to = owner[b]
    BY <1>1, <1>3, <1>4 DEF MessagesAtHome
  <2>2. b \in Box /\ owner[b] \in Id /\ outbox[b] \in Seq(Letter)
    BY <1>1, <1>3, <1>4 DEF TypeOK
  <2>3. CASE outbox'[b] = outbox[b]
    BY <1>4, <2>1, <2>3
  <2>4. CASE outbox'[b] # outbox[b]
    <3>1. /\ pc[t] = "use" /\ found[t] \in live
          /\ \/ \E l \in Letter :
                        l.to = meant[t] /\ outbox' = [outbox EXCEPT ![found[t]] = Append(@, l)]
             \/ outbox' = [outbox EXCEPT ![found[t]] = IF @ = <<>> THEN <<>> ELSE Tail(@)]
      BY <1>1, <1>4, <2>2, <2>4, OutboxBy DEF TypeOK
    <3>2. b = found[t] /\ owner[b] = meant[t]
      BY <1>1, <2>2, <2>4, <3>1 DEF TypeOK, InUse
    <3>3. \/ \E l \in Letter : l.to = owner[b] /\ outbox'[b] = Append(outbox[b], l)
          \/ outbox'[b] = <<>>
          \/ outbox[b] # <<>> /\ outbox'[b] = Tail(outbox[b])
      BY <1>1, <2>2, <3>1, <3>2 DEF TypeOK
    <3>4. /\ \A l \in Letter : l.to = owner[b] =>
                \A i \in 1..Len(Append(outbox[b], l)) : Append(outbox[b], l)[i].to = owner[b]
          /\ outbox[b] # <<>> =>
                \A i \in 1..Len(Tail(outbox[b])) : Tail(outbox[b])[i].to = owner[b]
      BY <2>1, <2>2, AtHome
    <3>5. CASE \E l \in Letter : l.to = owner[b] /\ outbox'[b] = Append(outbox[b], l)
      BY <1>4, <3>4, <3>5
    <3>6. CASE outbox'[b] = <<>>
      BY <3>6
    <3>7. CASE outbox[b] # <<>> /\ outbox'[b] = Tail(outbox[b])
      BY <1>4, <3>4, <3>7
    <3>8. QED
      BY <3>3, <3>5, <3>6, <3>7
  <2>5. QED
    BY <2>3, <2>4
<1>5. CASE ~(b \in live /\ owner'[b] = owner[b])
  <2>1. b \in Box
    BY <1>1 DEF TypeOK
  <2>2. b = found'[t] /\ outbox'[b] = <<>>
    BY <1>1, <1>3, <1>5, <2>1, OwnerBy
  <2>3. QED
    BY <2>2
<1>6. QED
    BY <1>4, <1>5

(* A thread that has removed a mailbox takes it out of its place, and one   *)
(* that hangs does nothing any more.                                        *)
LEMMA EmptyingSteps ==
    ASSUME NEW t \in Thread, Steps(t)
    PROVE  /\ pc[t] = "unplace" => RemoveUnplace(t)
           /\ pc[t] = "unlink" => CleanUnlink(t)
           /\ pc[t] # "stuck"
<1>1. CASE \E id \in Id : \/ \E b \in Box : Create(t, id, b)
                          \/ \E o \in Lookups : Search(t, id, o)
    BY <1>1 DEF Create, Search, At
<1>2. CASE \/ First(t) \/ Make(t) \/ MakeBox(t) \/ MakeNext(t)
           \/ Scan(t) \/ Take(t) \/ Last(t) \/ Extend(t) \/ AppendBox(t) \/ AppendNext(t)
           \/ Visit(t) \/ Miss(t)
    BY <1>2 DEF First, Make, MakeBox, MakeNext, Scan, Take, Last, Extend, AppendBox,
                AppendNext, Visit, Miss, At
<1>3. CASE \/ Pushes(t) \/ Pop(t) \/ PopFromInbox(t) \/ UseFreed(t)
           \/ RemoveDelete(t) \/ RemoveHangs(t) \/ RemoveUnplace(t)
    BY <1>3 DEF Pushes, Push, Pop, PopFromInbox, UseFreed, RemoveDelete, RemoveHangs, RemoveUnplace, At
<1>4. CASE CleanStart(t) \/ CleanDelete(t) \/ CleanUnlink(t) \/ CleanEnd(t)
    BY <1>4 DEF CleanStart, CleanDelete, CleanUnlink, CleanEnd, At
<1>5. QED
    BY <1>1, <1>2, <1>3, <1>4 DEF Steps

Fills(t, p) ==
    /\ mailbox' = [mailbox EXCEPT ![p] = found[t]] /\ mailbox[p] \in {NULL, Wild}
    /\ UNCHANGED <<central_postoffice, spots, next, boxes>>
    /\ \/ pc[t] = "makebox" /\ pc'[t] = "makenext" /\ p = central_postoffice
       \/ /\ pc[t] = "appendbox" /\ pc'[t] = "appendnext" /\ p = next[cpo[t]]
          /\ cpo'[t] = cpo[t]
       \/ pc[t] = "take" /\ pc'[t] = "idle"

LEMMA FilledBy ==
    ASSUME Sound, NEW t \in Thread, Steps(t)
    PROVE  \/ \A s \in Filled' : s \in Filled /\ mailbox'[s] = mailbox[s]
           \/ \E p \in spots : /\ Fills(t, p)
                               /\ \A s \in Filled' \ {p} : s \in Filled /\ mailbox'[s] = mailbox[s]
<1>1. /\ TypeOK /\ Cursor(t) /\ OthersStand(t) /\ spots \subseteq Spot /\ ~Races
      /\ {NULL, Wild} \cap Box = {}
    BY OthersDoStand, OfficeAssumption DEF Sound, Typed, Cursors, TypeOK
<1>2. CASE pc[t] = "unplace"
  <2>1. /\ mailbox' = [mailbox EXCEPT ![cpo[t]] = NULL]
        /\ UNCHANGED <<central_postoffice, spots, next>>
    BY <1>2, EmptyingSteps DEF RemoveUnplace
  <2>2. ASSUME NEW s \in Filled' PROVE s \in Filled /\ mailbox'[s] = mailbox[s]
    <3>1. s \in spots /\ mailbox'[s] \in Box /\ ~Stale(s)'
      BY <2>1, <2>2 DEF Filled
    <3>2. s # cpo[t] /\ mailbox'[s] = mailbox[s]
      BY <1>1, <2>1, <3>1 DEF TypeOK
    <3>3. ~Stale(s)
      BY <1>1, <1>2, <2>1, <3>1, <3>2 DEF Stale, OthersStand
    <3>4. QED
      BY <3>1, <3>2, <3>3 DEF Filled
  <2>3. QED
    BY <2>2
<1>3. CASE pc[t] = "unlink"
  <2>1. spots' = spots \ {central_postoffice} /\ UNCHANGED <<mailbox, next>>
    BY <1>3, EmptyingSteps DEF CleanUnlink
  <2>2. \A u \in Thread \ {t} : pc[u] # "unlink"
    BY <1>1, <1>3 DEF Races, Cleaning
  <2>3. ASSUME NEW s \in Filled' PROVE s \in Filled /\ mailbox'[s] = mailbox[s]
    <3>1. s \in spots /\ s # central_postoffice /\ mailbox[s] \in Box /\ ~Stale(s)'
      BY <2>1, <2>3 DEF Filled
    <3>2. ~Stale(s)
      BY <1>1, <1>3, <2>1, <2>2, <3>1 DEF Stale, OthersStand
    <3>3. QED
      BY <2>1, <3>1, <3>2 DEF Filled
  <2>4. QED
    BY <2>3
<1>4. CASE pc[t] \notin {"unplace", "unlink"}
  <2>1. ~RemoveUnplace(t) /\ ~CleanUnlink(t)
    BY <1>4 DEF RemoveUnplace, CleanUnlink, At
  <2>2. UNCHANGED central_postoffice \/ \A u \in Thread : pc[u] # "unlink"
    <3>1. CASE Quietly(t)
      BY <3>1 DEF Quietly, list
    <3>2. CASE Make(t)
      BY <3>2, OthersComplete DEF Make, At, Adding, Cleaning
    <3>3. CASE MakeBox(t) \/ MakeNext(t) \/ Take(t) \/ Extend(t) \/ AppendBox(t) \/ AppendNext(t)
      BY <3>3 DEF MakeBox, MakeNext, Take, Extend, AppendBox, AppendNext
    <3>4. QED
      BY <2>1, <3>1, <3>2, <3>3, WritesOrNot DEF Writes
  <2>3. \A s : Stale(s) => Stale(s)'
    BY <1>1, <1>4, <2>2 DEF Stale, OthersStand
  <2>4. ASSUME spots \subseteq spots', \A s \in spots' : mailbox'[s] \in Box => s \in spots,
               NEW s \in Filled', mailbox'[s] = mailbox[s] \/ mailbox'[s] \notin Box
        PROVE  s \in Filled /\ mailbox'[s] = mailbox[s]
    BY <2>3, <2>4 DEF Filled
  <2>5. CASE UNCHANGED <<spots, mailbox>>
    BY <2>4, <2>5
  <2>6. CASE Make(t) /\ central_postoffice' # NULL
    <3>1. PICK s \in Spot \ spots : Allocate(s)
      BY <2>6 DEF Make
    <3>2. QED
      BY <1>1, <2>4, <3>1 DEF Allocate, TypeOK
  <2>7. CASE Extend(t) /\ spots' # spots
    <3>1. PICK s \in Spot \ spots : Allocate(s)
      BY <2>7 DEF Extend
    <3>2. QED
      BY <1>1, <2>4, <3>1 DEF Allocate, TypeOK
  <2>8. CASE MakeBox(t) \/ Take(t) \/ AppendBox(t)
    <3>1. \E p \in spots : Fills(t, p)
      <4>1. CASE MakeBox(t)
        BY <1>1, <4>1 DEF MakeBox, At, Cursor, Fills, Stay, Goto, TypeOK
      <4>2. CASE Take(t)
        BY <1>1, <4>2 DEF Take, At, Cursor, Fills, Return, Goto, TypeOK
      <4>3. CASE AppendBox(t)
        BY <1>1, <4>3 DEF AppendBox, At, Cursor, Fills, Stay, Goto, TypeOK
      <4>4. QED
        BY <2>8, <4>1, <4>2, <4>3
    <3>2. PICK p \in spots : Fills(t, p)
      BY <3>1
    <3>3. spots' = spots /\ \A s \in Spot \ {p} : mailbox'[s] = mailbox[s]
      BY <1>1, <3>2 DEF Fills, TypeOK
    <3>4. QED
      BY <1>1, <2>4, <3>2, <3>3 DEF Filled
  <2>9. QED
    BY <2>1, <2>5, <2>6, <2>7, <2>8, WritesOrNot
    DEF Writes, Quietly, list, MakeNext, AppendNext
<1>5. QED
    BY <1>2, <1>3, <1>4

LEMMA AddingSteps ==
    ASSUME TypeOK, NEW t \in Thread, Steps(t), pc'[t] \in Adding
    PROVE  \/ pc'[t] = "first"
           \/ /\ pc[t] \in Adding \ {"makenext", "appendnext"} /\ UNCHANGED boxes
              /\ found'[t] = found[t]
<1> USE DEF At, Stay, MoveTo, Goto, Return, TypeOK, Adding, Extending
<1>1. CASE \E id \in Id : \/ \E b \in Box : Create(t, id, b)
                          \/ \E o \in Lookups : Search(t, id, o)
  <2>1. CASE \E id \in Id, b \in Box : Create(t, id, b)
    BY <2>1 DEF Create
  <2>2. CASE \E id \in Id, o \in Lookups : Search(t, id, o)
    BY <2>2 DEF Search
  <2>3. QED
    BY <1>1, <2>1, <2>2
<1>2. CASE First(t) \/ Last(t)
    BY <1>2 DEF First, Last
<1>3. CASE Scan(t)
    BY <1>3 DEF Scan
<1>4. CASE \/ Make(t) \/ MakeBox(t) \/ MakeNext(t) \/ Take(t)
           \/ Extend(t) \/ AppendBox(t) \/ AppendNext(t)
    BY <1>4 DEF Make, MakeBox, MakeNext, Take, Extend, AppendBox, AppendNext
<1>5. ~Visit(t) /\ ~Miss(t) /\ ~Pushes(t) /\ ~Pop(t) /\ ~PopFromInbox(t) /\ ~UseFreed(t)
    BY DEF Visit, Arrive, Miss, Pushes, Push, Pop, PopFromInbox, UseFreed
<1>6. /\ ~RemoveDelete(t) /\ ~RemoveHangs(t) /\ ~RemoveUnplace(t)
      /\ ~CleanStart(t) /\ ~CleanDelete(t) /\ ~CleanUnlink(t) /\ ~CleanEnd(t)
    BY DEF RemoveDelete, RemoveHangs, Hang, RemoveUnplace, CleanStart, CleanDelete, CleanUnlink,
           CleanEnd
<1>7. QED
    BY <1>1, <1>2, <1>3, <1>4, <1>5, <1>6 DEF Steps

LEMMA OnItsWayKept ==
    ASSUME InOrder, NEW t \in Thread, Steps(t), misuse' \subseteq {"twice"} PROVE OnItsWay'
<1>1. /\ Sound /\ Typed /\ TypeOK /\ Known /\ TypeOK' /\ InUse /\ OnItsWay /\ OnePlaceEach
      /\ OthersStand(t) /\ ~Races /\ ~Races' /\ ~UseFreed(t) /\ NULL \notin Box /\ live \subseteq Box
    BY OthersDoStand, TypesKept, NothingPulled, NotesStay, OfficeAssumption
    DEF InOrder, Sound, Typed, TypeOK
<1>2. SUFFICES ASSUME NEW u \in Thread, pc'[u] \in Adding
      PROVE  /\ found'[u] \in live' /\ owner'[found'[u]] # NULL /\ outbox'[found'[u]] = <<>>
             /\ \A v \in Thread \ {u} : found'[v] = found'[u] => pc'[v] \in {"unplace", "stuck"}
             /\ \A s \in Filled' : mailbox'[s] = found'[u] =>
                   \/ pc'[u] = "makenext" /\ s = central_postoffice'
                   \/ pc'[u] = "appendnext" /\ s = next'[cpo'[u]]
    BY DEF OnItsWay
<1>3. CASE u # t
  <2>1. /\ pc[u] \in Adding /\ pc'[u] = pc[u] /\ found'[u] = found[u] /\ cpo'[u] = cpo[u]
        /\ found[u] \in live /\ owner[found[u]] # NULL /\ outbox[found[u]] = <<>>
        /\ \A v \in Thread \ {u} : found[v] = found[u] => pc[v] \in {"unplace", "stuck"}
        /\ \A s \in Filled : mailbox[s] = found[u] =>
                   \/ pc[u] = "makenext" /\ s = central_postoffice
                   \/ pc[u] = "appendnext" /\ s = next[cpo[u]]
    BY <1>1, <1>2, <1>3 DEF OthersStand, OnItsWay
  <2>2. found[u] \in live' /\ owner'[found[u]] # NULL
    BY <1>3, <2>1, NothingPulled
  <2>3. outbox'[found[u]] = <<>>
    <3>1. pc[t] = "use" => found[t] # found[u]
      BY <1>3, <2>1
    <3>2. found'[t] \in Box \ live => found'[t] # found[u]
      BY <2>1
    <3>3. outbox'[found[u]] = outbox[found[u]]
      <4>1. CASE UNCHANGED outbox
        BY <4>1
      <4>2. CASE /\ found'[t] \in Box \ live
                 /\ outbox' = [outbox EXCEPT ![found'[t]] = <<>>]
        BY <1>1, <2>1, <3>2, <4>2 DEF TypeOK
      <4>3. CASE /\ pc[t] = "use" /\ found[t] \in live
                 /\ \/ \E l \in Letter :
                        l.to = meant[t] /\ outbox' = [outbox EXCEPT ![found[t]] = Append(@, l)]
                    \/ outbox' = [outbox EXCEPT ![found[t]] = IF @ = <<>> THEN <<>> ELSE Tail(@)]
        BY <1>1, <2>1, <3>1, <4>3 DEF TypeOK
      <4>4. QED
        BY <1>1, <4>1, <4>2, <4>3, OutboxBy
    <3>4. QED
      BY <2>1, <3>3
  <2>4. pc[t] \notin Adding \cup Cleaning
    BY <1>1, <1>3, <2>1, OthersComplete
  <2>5. found'[t] = found[u] => pc'[t] \in {"unplace", "stuck"}
    <3>1. SUFFICES ASSUME found'[t] = found[u] PROVE FALSE
      OBVIOUS
    <3>2. CASE found'[t] \in {found[t], NULL}
      <4>1. found[t] = found[u] /\ pc[t] = "unplace"
        BY <1>1, <1>3, <2>1, <3>1, <3>2, EmptyingSteps
      <4>2. found'[t] = NULL
        BY <1>1, <4>1, EmptyingSteps DEF RemoveUnplace, Return, TypeOK
      <4>3. QED
        BY <1>1, <2>1, <3>1, <4>2
    <3>3. CASE pc[t] = "walk" /\ cpo[t] \in spots /\ found'[t] = mailbox[cpo[t]]
      <4>1. \A v \in Thread : pc[v] \notin Extending \cup Removing \cup Cleaning
        BY <1>1, <3>3 DEF Races, Reading, Removing, Extending, Cleaning
      <4>2. ~Stale(cpo[t])
        BY <4>1 DEF Stale, Removing, Cleaning
      <4>3. cpo[t] \in Filled
        BY <1>1, <2>1, <3>1, <3>3, <4>2 DEF Filled
      <4>4. QED
        BY <2>1, <3>1, <3>3, <4>1, <4>3 DEF Extending
    <3>4. QED
      BY <1>1, <2>1, <3>1, <3>2, <3>3, FoundBy
  <2>6. \A v \in Thread \ {u} : found'[v] = found'[u] => pc'[v] \in {"unplace", "stuck"}
    BY <1>1, <2>1, <2>5 DEF OthersStand
  <2>7. \A s \in Filled' : s \in Filled /\ mailbox'[s] = mailbox[s]
    BY <1>1, <2>4, FilledBy DEF Fills, Adding, Extending
  <2>8. UNCHANGED <<central_postoffice, next>>
    BY <1>1, <1>3, <2>1, BesideAdder
  <2>9. QED
    BY <2>1, <2>2, <2>3, <2>6, <2>7, <2>8
<1>4. CASE u = t /\ pc'[t] = "first"
  <2>1. /\ pc[t] = "idle" /\ found'[t] \in Box \ live /\ found'[t] \in live'
        /\ owner'[found'[t]] # NULL /\ outbox'[found'[t]] = <<>>
    BY <1>1, <1>4, FoundBy
  <2>2. ASSUME NEW v \in Thread \ {t}, found'[v] = found'[t]
        PROVE  pc'[v] \in {"unplace", "stuck"}
    <3>1. found[v] = found'[t] /\ pc'[v] = pc[v] /\ pc'[v] # "dead"
      BY <1>1, <2>2, NothingPulled DEF OthersStand, InOrder, MessagesAtHome, Alive
    <3>2. found[v] \in Box /\ found[v] \notin live
      BY <2>1, <3>1
    <3>3. pc[v] \notin Adding \cup {"use", "delete"}
      BY <1>1, <3>2 DEF InUse, OnItsWay
    <3>4. pc[v] \notin {"idle"} \cup Reading \cup Cleaning
      BY <1>1, <3>2 DEF Known
    <3>5. QED
      BY <1>1, <3>1, <3>3, <3>4 DEF TypeOK, Removing
  <2>3. \A s \in Filled' : mailbox'[s] # found'[t]
    <3>1. \A s \in Filled' : s \in Filled /\ mailbox'[s] = mailbox[s]
      BY <1>1, <2>1, FilledBy DEF Fills
    <3>2. QED
      BY <1>1, <2>1, <3>1 DEF OnePlaceEach
  <2>4. QED
    BY <1>4, <2>1, <2>2, <2>3
<1>5. CASE u = t /\ pc'[t] # "first"
  <2>1. /\ pc[t] \in Adding \ {"makenext", "appendnext"} /\ UNCHANGED boxes
        /\ found'[t] = found[t]
    BY <1>1, <1>2, <1>5, AddingSteps
  <2>2. /\ found[t] \in live /\ owner[found[t]] # NULL /\ outbox[found[t]] = <<>>
        /\ \A v \in Thread \ {t} : found[v] = found[t] => pc[v] \in {"unplace", "stuck"}
        /\ \A s \in Filled : mailbox[s] # found[t]
    BY <1>1, <2>1 DEF OnItsWay
  <2>3. \A v \in Thread \ {t} : found'[v] = found'[t] => pc'[v] \in {"unplace", "stuck"}
    BY <1>1, <2>1, <2>2 DEF OthersStand
  <2>4. \A s \in Filled' : mailbox'[s] = found[t] =>
           \/ pc'[t] = "makenext" /\ s = central_postoffice'
           \/ pc'[t] = "appendnext" /\ s = next'[cpo'[t]]
    BY <1>1, <1>2, <1>5, <2>2, FilledBy DEF Fills, Adding, Extending
  <2>5. QED
    BY <1>5, <2>1, <2>2, <2>3, <2>4 DEF boxes
<1>6. QED
    BY <1>3, <1>4, <1>5

LEMMA FreedBy ==
    ASSUME TypeOK, NEW t \in Thread, Steps(t), NEW b \in live, b \notin live'
    PROVE  \/ pc[t] = "delete" /\ pc'[t] = "unplace" /\ b = found[t]
           \/ /\ pc[t] = "clean" /\ pc'[t] = "unlink" /\ central_postoffice # NULL
              /\ b = mailbox[central_postoffice] /\ UNCHANGED list
<1> USE DEF boxes
<1>1. CASE \E id \in Id : \/ \E c \in Box : Create(t, id, c)
                          \/ \E o \in Lookups : Search(t, id, o)
    BY <1>1 DEF Create, Search
<1>2. CASE \/ First(t) \/ Make(t) \/ MakeBox(t) \/ MakeNext(t)
           \/ Scan(t) \/ Take(t) \/ Last(t) \/ Extend(t) \/ AppendBox(t) \/ AppendNext(t)
           \/ Visit(t) \/ Miss(t)
    BY <1>2 DEF First, Make, MakeBox, MakeNext, Scan, Take, Last, Extend, AppendBox,
                AppendNext, Visit, Miss
<1>3. CASE \/ Pushes(t) \/ Pop(t) \/ PopFromInbox(t) \/ UseFreed(t) \/ RemoveHangs(t)
           \/ RemoveUnplace(t)
    BY <1>3 DEF Pushes, Push, Pop, PopFromInbox, UseFreed, RemoveHangs, Hang, RemoveUnplace
<1>4. CASE CleanStart(t) \/ CleanUnlink(t) \/ CleanEnd(t)
    BY <1>4 DEF CleanStart, CleanUnlink, CleanEnd
<1>5. CASE RemoveDelete(t)
    BY <1>5 DEF RemoveDelete, Free, Stay, Goto, At, TypeOK
<1>6. CASE CleanDelete(t)
    BY <1>6 DEF CleanDelete, Hang, Free, Stay, Goto, At, TypeOK
<1>7. QED
    BY <1>1, <1>2, <1>3, <1>4, <1>5, <1>6 DEF Steps

LEMMA DeleteSteps ==
    ASSUME TypeOK, NEW t \in Thread, Steps(t), pc'[t] = "unplace" PROVE RemoveDelete(t)
<1> USE DEF At, Stay, MoveTo, Goto, Return, TypeOK
<1>1. \A id \in Id : /\ \A b \in Box : ~Create(t, id, b)
                     /\ \A o \in Lookups : ~Search(t, id, o)
    BY DEF Create, Search
<1>2. ~First(t) /\ ~Miss(t) /\ ~Last(t)
    BY DEF First, Miss, Last
<1>3. ~Scan(t)
    BY DEF Scan
<1>4. /\ ~Make(t) /\ ~MakeBox(t) /\ ~MakeNext(t) /\ ~Take(t)
      /\ ~Extend(t) /\ ~AppendBox(t) /\ ~AppendNext(t) /\ ~Visit(t)
    BY DEF Make, MakeBox, MakeNext, Take, Extend, AppendBox, AppendNext, Visit, Arrive
<1>5. /\ ~Pushes(t) /\ ~Pop(t) /\ ~PopFromInbox(t) /\ ~UseFreed(t)
      /\ ~RemoveHangs(t) /\ ~RemoveUnplace(t)
    BY DEF Pushes, Push, Pop, PopFromInbox, UseFreed, RemoveHangs, Hang, RemoveUnplace
<1>6. ~CleanStart(t) /\ ~CleanDelete(t) /\ ~CleanUnlink(t) /\ ~CleanEnd(t)
    BY DEF CleanStart, CleanDelete, Hang, CleanUnlink, CleanEnd
<1>7. QED
    BY <1>1, <1>2, <1>3, <1>4, <1>5, <1>6 DEF Steps

(* A mailbox stays in its place until the place is emptied or unlinked.     *)
LEMMA PlaceStays ==
    ASSUME Sound, NEW t \in Thread, Steps(t), NEW s \in spots, mailbox[s] \in Box
    PROVE  /\ mailbox'[s] = mailbox[s] \/ (pc[t] = "unplace" /\ s = cpo[t])
           /\ s \in spots' \/ (pc[t] = "unlink" /\ s = central_postoffice)
<1>1. TypeOK /\ Cursor(t) /\ spots \subseteq Spot /\ {NULL, Wild} \cap Box = {}
    BY OfficeAssumption DEF Sound, Typed, Cursors, TypeOK
<1>2. CASE Quietly(t)
    BY <1>2 DEF Quietly, list
<1>3. CASE Make(t) /\ central_postoffice' # NULL
  <2>1. PICK p \in Spot \ spots : Allocate(p)
    BY <1>3 DEF Make
  <2>2. QED
    BY <1>1, <2>1 DEF Allocate, TypeOK
<1>4. CASE Extend(t) /\ spots' # spots
  <2>1. PICK p \in Spot \ spots : Allocate(p)
    BY <1>4 DEF Extend
  <2>2. QED
    BY <1>1, <2>1 DEF Allocate, TypeOK
<1>5. CASE MakeBox(t) \/ Take(t)
    BY <1>1, <1>5 DEF MakeBox, Take, At, Cursor, TypeOK
<1>6. CASE AppendBox(t)
    BY <1>1, <1>6 DEF AppendBox, At, Cursor, TypeOK
<1>7. CASE MakeNext(t) \/ AppendNext(t)
    BY <1>7 DEF MakeNext, AppendNext
<1>8. CASE RemoveUnplace(t)
    BY <1>1, <1>8 DEF RemoveUnplace, At, TypeOK
<1>9. CASE CleanUnlink(t)
    BY <1>9 DEF CleanUnlink, At
<1>10. QED
    BY <1>2, <1>3, <1>4, <1>5, <1>6, <1>7, <1>8, <1>9, WritesOrNot DEF Writes

LEMMA RemoversKept ==
    ASSUME InOrder, NEW t \in Thread, Steps(t), misuse' \subseteq {"twice"},
           NEW u \in Thread, pc'[u] \in {"delete", "unplace"}
    PROVE  /\ cpo'[u] \in spots' /\ mailbox'[cpo'[u]] = found'[u]
           /\ \A v \in Thread \ {u} : pc'[v] = "unplace" => cpo'[v] # cpo'[u]
<1>1. /\ Sound /\ Typed /\ TypeOK /\ Known /\ InUse /\ OnePlaceEach /\ Cursor(t)
      /\ OthersStand(t) /\ ~Races /\ ~Races' /\ ~UseFreed(t)
    BY OthersDoStand, NothingPulled, NotesStay DEF InOrder, Sound, Typed, Cursors
<1>2. ASSUME pc'[t] = "unplace"
      PROVE  /\ pc[t] = "delete" /\ cpo'[t] = cpo[t] /\ found'[t] = found[t]
             /\ found[t] \in live /\ found[t] \notin live' /\ UNCHANGED list
    BY <1>1, <1>2, DeleteSteps DEF RemoveDelete, At, Usable, Free, Stay
<1>3. CASE u # t
  <2>1. /\ pc[u] \in {"delete", "unplace"} /\ cpo'[u] = cpo[u] /\ found'[u] = found[u]
        /\ cpo[u] \in spots /\ mailbox[cpo[u]] = found[u] /\ found[u] \in Box
        /\ \A v \in Thread \ {u} : pc[v] = "unplace" => cpo[v] # cpo[u]
    BY <1>1, <1>3 DEF OthersStand, OnePlaceEach, Known, TypeOK
  <2>2. cpo[u] \in spots'
    <3>1. CASE pc[t] # "unlink"
      BY <1>1, <2>1, <3>1, PlaceStays
    <3>2. CASE pc[t] = "unlink"
      <4>1. pc[u] = "delete" /\ found[u] \in live
        BY <1>1, <1>3, <2>1, <3>2 DEF Races, Cleaning, Removing, InUse
      <4>2. cpo[u] # central_postoffice
        BY <1>1, <2>1, <3>2, <4>1 DEF Cursor
      <4>3. QED
        BY <1>1, <2>1, <4>2, PlaceStays
    <3>3. QED
      BY <3>1, <3>2
  <2>3. mailbox'[cpo[u]] = found[u]
    BY <1>1, <1>3, <2>1, PlaceStays
  <2>4. ASSUME pc'[t] = "unplace" PROVE cpo'[t] # cpo[u]
    <3>1. mailbox[cpo[t]] = found[t]
      BY <1>1, <1>2, <2>4 DEF OnePlaceEach
    <3>2. found[u] # found[t]
      BY <1>2, <1>3, <2>4, NothingPulled
    <3>3. QED
      BY <1>2, <2>1, <2>4, <3>1, <3>2
  <2>5. QED
    BY <1>1, <2>1, <2>2, <2>3, <2>4 DEF OthersStand
<1>4. CASE u = t /\ pc'[t] = "unplace"
    BY <1>1, <1>2, <1>4 DEF OthersStand, OnePlaceEach, list
<1>5. CASE u = t /\ pc'[t] = "delete"
  <2>1. /\ pc[t] = "walk" /\ cpo'[t] = cpo[t] /\ cpo[t] \in spots
        /\ found'[t] = mailbox[cpo[t]] /\ UNCHANGED list
    BY <1>1, <1>5, FoundBy
  <2>2. \A v \in Thread \ {t} : pc'[v] # "unplace"
    BY <1>1, <2>1 DEF Races, Reading, Removing, OthersStand
  <2>3. QED
    BY <1>5, <2>1, <2>2 DEF list
<1>6. QED
    BY <1>3, <1>4, <1>5

LEMMA OnePlaceEachKept ==
    ASSUME InOrder, NEW t \in Thread, Steps(t), misuse' \subseteq {"twice"} PROVE OnePlaceEach'
<1>1. /\ Sound /\ TypeOK /\ InUse /\ OnItsWay /\ OnePlaceEach /\ OneList /\ Cursor(t)
      /\ OthersStand(t) /\ ~Races /\ spots \subseteq Spot /\ live \subseteq Box
    BY OthersDoStand DEF InOrder, Sound, Typed, Cursors, TypeOK
(* Who frees a mailbox is at its place.                                     *)
<1>2. ASSUME NEW s \in Filled, mailbox[s] \notin live' PROVE Stale(s)'
  <2>1. mailbox[s] \in live
    BY <1>1 DEF OnePlaceEach
  <2>2. CASE pc[t] = "delete" /\ pc'[t] = "unplace" /\ mailbox[s] = found[t]
    <3>1. /\ cpo[t] \in spots /\ mailbox[cpo[t]] = found[t]
          /\ \A u \in Thread : pc[u] = "unplace" => cpo[u] # cpo[t]
      BY <1>1, <2>2 DEF OnePlaceEach
    <3>2. \A u \in Thread : pc[u] = "unlink" => cpo[t] # central_postoffice
      BY <2>1, <2>2, <3>1 DEF InOrder, Sound, Cursors, Cursor
    <3>3. cpo[t] \in Filled
      BY <1>1, <2>1, <2>2, <3>1, <3>2 DEF Filled, Stale
    <3>4. s = cpo[t]
      BY <1>1, <2>2, <3>1, <3>3 DEF OnePlaceEach
    <3>5. cpo'[t] = cpo[t]
      BY <1>1, <2>2, DeleteSteps DEF RemoveDelete, Stay
    <3>6. QED
      BY <2>2, <3>4, <3>5 DEF Stale
  <2>3. CASE /\ pc[t] = "clean" /\ pc'[t] = "unlink" /\ central_postoffice # NULL
             /\ mailbox[s] = mailbox[central_postoffice] /\ UNCHANGED list
    <3>1. \A u \in Thread : pc[u] \notin {"unplace", "unlink"}
      BY <1>1, <2>3 DEF Races, Removing, Cleaning
    <3>2. central_postoffice \in Filled
      BY <1>1, <2>1, <2>3, <3>1 DEF OneList, Filled, Stale
    <3>3. s = central_postoffice
      BY <1>1, <2>3, <3>2 DEF OnePlaceEach
    <3>4. QED
      BY <2>3, <3>3 DEF Stale, list
  <2>4. QED
    BY <1>1, <1>2, <2>1, <2>2, <2>3, FreedBy
<1>3. \A s \in Filled' : ~Stale(s)'
    BY DEF Filled
<1>4. CASE \A s \in Filled' : s \in Filled /\ mailbox'[s] = mailbox[s]
  <2>1. /\ \A s \in Filled' : mailbox'[s] \in live'
        /\ \A r, s \in Filled' : mailbox'[r] = mailbox'[s] => r = s
    BY <1>1, <1>2, <1>3, <1>4 DEF OnePlaceEach
  <2>2. QED
    BY <2>1, RemoversKept DEF OnePlaceEach
<1>5. ASSUME NEW p \in spots, Fills(t, p),
             \A s \in Filled' \ {p} : s \in Filled /\ mailbox'[s] = mailbox[s]
      PROVE  OnePlaceEach'
  <2>1. /\ pc[t] \in Adding \ {"makenext", "appendnext"} /\ UNCHANGED boxes
        /\ mailbox'[p] = found[t]
    BY <1>1, <1>5 DEF Fills, Adding, Extending, TypeOK
  <2>2. found[t] \in live /\ \A s \in Filled : mailbox[s] # found[t]
    BY <1>1, <2>1 DEF OnItsWay
  <2>3. /\ \A s \in Filled' : mailbox'[s] \in live'
        /\ \A r, s \in Filled' : mailbox'[r] = mailbox'[s] => r = s
    BY <1>1, <1>5, <2>1, <2>2 DEF OnePlaceEach, boxes
  <2>4. QED
    BY <2>3, RemoversKept DEF OnePlaceEach
<1>6. QED
    BY <1>1, <1>4, <1>5, FilledBy

LEMMA InOrderKept ==
    ASSUME InOrder, NEW t \in Thread, Steps(t), misuse' \subseteq {"twice"} PROVE InOrder'
    BY SoundKept, InUseKept, OnItsWayKept, OnePlaceEachKept, MessagesKept DEF InOrder

(* Two mailboxes of one owner are noted.                                    *)
LEMMA OneBoxEachKept ==
    ASSUME TypeOK, OneBoxEach, NEW t \in Thread, Steps(t), misuse' = {} PROVE OneBoxEach'
<1>1. CASE live' \subseteq live /\ \A b \in Box : owner'[b] \in {owner[b], NULL}
  <2>1. live \subseteq Box
    BY DEF TypeOK
  <2>2. QED
    BY <1>1, <2>1 DEF OneBoxEach
<1>2. CASE \E id \in Id, b \in Box : Create(t, id, b)
  <2>1. PICK id \in Id, b \in Box : Create(t, id, b)
    BY <1>2
  <2>2. \A c \in live : owner[c] # id
    BY <2>1 DEF Create, Note
  <2>3. /\ live' = live \cup {b} /\ b \notin live /\ owner'[b] = id
        /\ \A c \in live : owner'[c] = owner[c]
    BY <2>1 DEF Create, TypeOK
  <2>4. QED
    BY <2>2, <2>3 DEF OneBoxEach
<1>3. CASE pc[t] = "idle" /\ pc'[t] = "first" /\ ~\E id \in Id, b \in Box : Create(t, id, b)
  <2>1. \A id \in Id, b \in Box : ~Create(t, id, b)
    BY <1>3
  <2>2. QED
    BY <1>3, <2>1, ScanSteps DEF First, Scan, Last, At
<1>4. QED
    BY <1>1, <1>2, <1>3, OwnerBy

LEMMA OfficeStarts == Init => OfficeInv
<1> SUFFICES ASSUME Init PROVE OfficeInv
    OBVIOUS
<1>1. /\ spots = {} /\ live = {} /\ misuse = {} /\ most = 0 /\ central_postoffice = NULL
      /\ \A t \in Thread : pc[t] = "idle" /\ found[t] = NULL
    BY DEF Init
<1>2. Typed
    BY TypedAtFirst
<1>3. ~Races /\ Cursors /\ Ahead
    BY <1>1 DEF Races, Adding, Extending, Removing, Cleaning, Cursors, Cursor, Ahead
<1>4. OneList
  <2>1. Places = {}
    BY <1>1, ReachNowhere DEF Places, From
  <2>2. QED
    BY <1>1, <2>1 DEF OneList
<1>5. SeenFull
  <2>1. Cardinality(spots) = 0
    BY <1>1, FS_EmptySet
  <2>2. QED
    BY <1>1, <2>1 DEF SeenFull
<1>6. InUse /\ OnItsWay /\ MessagesAtHome /\ OneBoxEach
    BY <1>1 DEF InUse, OnItsWay, MessagesAtHome, Alive, OneBoxEach, Adding, Extending
<1>7. OnePlaceEach
  <2>1. Filled = {}
    BY <1>1 DEF Filled
  <2>2. QED
    BY <1>1, <2>1 DEF OnePlaceEach
<1>8. QED
    BY <1>1, <1>2, <1>3, <1>4, <1>5, <1>6, <1>7 DEF OfficeInv, Typed

LEMMA OfficeRests == OfficeInv /\ UNCHANGED vars => OfficeInv'
<1> SUFFICES ASSUME OfficeInv, UNCHANGED vars PROVE OfficeInv'
    OBVIOUS
<1> USE DEF vars, list, boxes, locals, history
<1>1. (TypeOK /\ Known /\ IsFiniteSet(spots))'
    BY DEF OfficeInv, TypeOK, Known
<1>2. (~Races => ~Races') /\ (Cursors => Cursors') /\ (InUse => InUse')
    BY DEF Races, Cursors, Cursor, InUse
<1>3. (Ahead => Ahead') /\ (SeenFull => SeenFull')
    BY DEF Ahead, SeenFull, From, Taken
<1>4. OneList => OneList'
  <2>1. Places' = Places /\ \A s : (Raw(s)' <=> Raw(s)) /\ (Endless(s)' <=> Endless(s))
    BY DEF Places, From, Raw, Endless
  <2>2. QED
    BY <2>1 DEF OneList
<1>5. Filled' = Filled
  <2>1. \A s : Stale(s)' <=> Stale(s)
    BY DEF Stale
  <2>2. QED
    BY <2>1 DEF Filled
<1>6. (OnItsWay => OnItsWay') /\ (OnePlaceEach => OnePlaceEach')
    BY <1>5 DEF OnItsWay, OnePlaceEach
<1>7. (MessagesAtHome => MessagesAtHome') /\ (OneBoxEach => OneBoxEach')
    BY DEF MessagesAtHome, Alive, OneBoxEach
<1>8. QED
    BY <1>1, <1>2, <1>3, <1>4, <1>6, <1>7 DEF OfficeInv

LEMMA OfficeSteps == OfficeInv /\ Next => OfficeInv'
<1> SUFFICES ASSUME OfficeInv, Next PROVE OfficeInv'
    OBVIOUS
<1>1. "raced" \notin misuse
    BY NextIsStep
<1>2. PICK t \in Thread : Steps(t)
    BY NextIsStep
<1>3. Sound /\ Ahead /\ SeenFull
    BY <1>1 DEF OfficeInv, Sound, Typed
<1>4. Typed' /\ misuse \subseteq misuse'
    BY <1>2, <1>3, TypesKept, NotesStay
<1>5. ASSUME "raced" \notin misuse' PROVE (~Races /\ OneList /\ Cursors /\ Ahead /\ SeenFull)'
  <2>1. ~Races'
    BY <1>2, <1>5, NotesStay
  <2>2. QED
    BY <1>2, <1>3, <1>5, <2>1, SoundKept, AheadKept, SeenFullKept DEF Sound
<1>6. ASSUME misuse' \subseteq {"twice"}
      PROVE  (InUse /\ OnItsWay /\ OnePlaceEach /\ MessagesAtHome)'
  <2>1. InOrder
    BY <1>3, <1>4, <1>6 DEF OfficeInv, InOrder
  <2>2. QED
    BY <1>2, <1>6, <2>1, InOrderKept DEF InOrder
<1>7. ASSUME misuse' = {} PROVE OneBoxEach'
    BY <1>2, <1>4, <1>7, OneBoxEachKept DEF OfficeInv
<1>8. QED
    BY <1>4, <1>5, <1>6, <1>7 DEF OfficeInv, Typed

-----------------------------------------------------------------------------
(* What follows.                                                           *)

(* Whatever the threads do at once, what makes the list a list, the cursors *)
(* of the calls true and the mailboxes those of their owners is kept, as    *)
(* far as nothing was done that the code does not stand.                    *)
THEOREM OfficeInvHolds == Spec => []OfficeInv
<1>1. OfficeInv /\ [Next]_vars => OfficeInv'
    BY OfficeSteps, OfficeRests
<1>2. QED
    BY <1>1, OfficeStarts, PTL DEF Spec

(* Every variable keeps its type, whatever was misused, up to the step at   *)
(* which threads race: a place's next and a call's cursor are places, NULL  *)
(* or what malloc left there, and nothing else gets into the list.          *)
THEOREM TypeCorrect == Spec => []TypeOK
<1>1. OfficeInv => TypeOK
    BY DEF OfficeInv
<1>2. QED
    BY <1>1, OfficeInvHolds, PTL

(* net_msg_push_to_* and net_msg_pop_from_*: unless a mailbox was removed   *)
(* under a thread that had found it, threads raced or a place could not be  *)
(* had, no thread uses freed memory, and every message lies in the mailbox  *)
(* of the owner it was pushed for.                                          *)
THEOREM MessagesAtHomeHolds == Spec => []MessagesAtHome
<1>1. OfficeInv => MessagesAtHome
    BY DEF OfficeInv, MessagesAtHome
<1>2. QED
    BY <1>1, OfficeInvHolds, PTL

(* net_msg_search_on_handle: a walk misses no mailbox that has been there   *)
(* since it began, whoever fills or empties places beside it without a race.*)
THEOREM FindsWhatIsThereHolds == Spec => []FindsWhatIsThere
<1>1. OfficeInv => FindsWhatIsThere
  <2>1. SUFFICES ASSUME OfficeInv, "raced" \notin misuse, NEW t \in Thread,
                        pc[t] = "walk", cpo[t] = NULL, there[t]
                 PROVE  FALSE
    BY DEF FindsWhatIsThere
  <2>2. From(cpo[t]) # {}
    BY <2>1 DEF OfficeInv, Ahead
  <2>3. cpo[t] \notin spots
    BY <2>1, OfficeAssumption DEF OfficeInv, TypeOK
  <2>4. QED
    BY <2>2, <2>3, ReachNowhere DEF From
<1>2. QED
    BY <1>1, OfficeInvHolds, PTL

(* net_msg_add_mailbox_to_postoffice: as long as no threads race there are  *)
(* never more places than there were mailboxes at one time, for any number  *)
(* of mailboxes that come and go.                                           *)
THEOREM PlacesReusedHolds == Spec => []PlacesReused
<1>1. OfficeInv => PlacesReused
    BY DEF OfficeInv, SeenFull, PlacesReused
<1>2. QED
    BY <1>1, OfficeInvHolds, PTL

-----------------------------------------------------------------------------
(* The post office is a directory.                                         *)

(* With one mailbox for an owner, it does not matter at which place of its  *)
(* the letters are looked for.                                              *)
LettersAre ==
    \A id \in Id : /\ Placed(id) = {} => Letters[id] = NULL
                   /\ \A s \in Placed(id) : Letters[id] = outbox[mailbox[s]]

LEMMA LettersAtPlaces == OneBoxEach => LettersAre
<1> SUFFICES ASSUME OneBoxEach, NEW id \in Id
             PROVE  /\ Placed(id) = {} => Letters[id] = NULL
                    /\ \A s \in Placed(id) : Letters[id] = outbox[mailbox[s]]
    BY DEF LettersAre
<1>1. Placed(id) = {} => Letters[id] = NULL
    BY DEF Letters
<1>2. ASSUME NEW s \in Placed(id) PROVE Letters[id] = outbox[mailbox[s]]
  <2> DEFINE r == CHOOSE q \in Placed(id) : TRUE
  <2>1. r \in Placed(id)
    BY <1>2
  <2>2. mailbox[r] = mailbox[s]
    BY <2>1, OfficeAssumption DEF Placed, OneBoxEach
  <2>3. Placed(id) # {}
    BY <1>2
  <2>4. QED
    BY <2>2, <2>3 DEF Letters
<1>3. QED
    BY <1>1, <1>2

(* Where no letters come to a place, mailboxes are closed, if that.         *)
LEMMA Closes ==
    ASSUME LettersAre, LettersAre',
           \A id \in Id : \A s \in Placed(id)' :
              /\ s \in Placed(id) /\ mailbox'[s] = mailbox[s]
              /\ outbox'[mailbox[s]] = outbox[mailbox[s]]
    PROVE  Dir!DirectoryNext
<1> DEFINE ids == {id \in Id : Placed(id)' = {}}
<1>1. \A id \in ids : Letters'[id] = NULL
    BY DEF LettersAre
<1>2. ASSUME NEW id \in Id \ ids PROVE Letters'[id] = Letters[id]
  <2>1. PICK s \in Placed(id)' : TRUE
    BY <1>2
  <2>2. QED
    BY <2>1 DEF LettersAre
<1>3. Letters' = [id \in Id |-> Letters'[id]]
    BY DEF Letters
<1>4. Letters' = [id \in Id |-> IF id \in ids THEN NULL ELSE Letters[id]]
    BY <1>1, <1>2, <1>3
<1>5. ids \in SUBSET Id
    OBVIOUS
<1> HIDE DEF ids
<1>6. QED
    BY <1>4, <1>5 DEF Dir!DirectoryNext, Dir!Close

(* Mailboxes come to places by the steps that fill one.                     *)
LEMMA PlaceBy ==
    ASSUME Sound, NEW t \in Thread, Steps(t)
    PROVE  \/ \A s \in spots' : mailbox'[s] \in Box => s \in spots /\ mailbox'[s] = mailbox[s]
           \/ \E p \in spots : Fills(t, p)
<1>1. /\ TypeOK /\ Cursor(t) /\ spots \subseteq Spot /\ {NULL, Wild} \cap Box = {}
    BY OfficeAssumption DEF Sound, Typed, Cursors, TypeOK
<1>2. CASE Quietly(t)
    BY <1>2 DEF Quietly, list
<1>3. CASE Make(t) /\ central_postoffice' # NULL
  <2>1. PICK p \in Spot \ spots : Allocate(p)
    BY <1>3 DEF Make
  <2>2. QED
    BY <1>1, <2>1 DEF Allocate, TypeOK
<1>4. CASE Extend(t) /\ spots' # spots
  <2>1. PICK p \in Spot \ spots : Allocate(p)
    BY <1>4 DEF Extend
  <2>2. QED
    BY <1>1, <2>1 DEF Allocate, TypeOK
<1>5. CASE MakeBox(t)
    BY <1>1, <1>5 DEF MakeBox, At, Cursor, Fills, Stay, Goto, TypeOK
<1>6. CASE Take(t)
    BY <1>1, <1>6 DEF Take, At, Cursor, Fills, Return, Goto, TypeOK
<1>7. CASE AppendBox(t)
    BY <1>1, <1>7 DEF AppendBox, At, Cursor, Fills, Stay, Goto, TypeOK
<1>8. CASE MakeNext(t) \/ AppendNext(t)
    BY <1>8 DEF MakeNext, AppendNext
<1>9. CASE RemoveUnplace(t)
    BY <1>1, <1>9 DEF RemoveUnplace, At, TypeOK
<1>10. CASE CleanUnlink(t)
    BY <1>10 DEF CleanUnlink, At
<1>11. QED
    BY <1>2, <1>3, <1>4, <1>5, <1>6, <1>7, <1>8, <1>9, <1>10, WritesOrNot DEF Writes

(* Filling a place opens the mailbox of its owner.                          *)
LEMMA FillRefines ==
    ASSUME InOrder, OneBoxEach, LettersAre, LettersAre', OneList',
           NEW t \in Thread, NEW p \in spots, Fills(t, p)
    PROVE  Dir!DirectoryNext \/ UNCHANGED Letters
<1>1. /\ TypeOK /\ OnItsWay /\ OneList /\ spots \subseteq Spot /\ live \subseteq Box
      /\ {NULL, Wild} \cap Box = {}
    BY OfficeAssumption DEF InOrder, Sound, Typed, TypeOK
<1>2. /\ found[t] \in live /\ owner[found[t]] # NULL /\ outbox[found[t]] = <<>>
    BY <1>1 DEF Fills, OnItsWay, Adding, Extending
<1>3. PICK id \in Id : id = owner[found[t]]
    BY <1>1, <1>2 DEF TypeOK
<1>4. /\ mailbox'[p] = found[t] /\ mailbox[p] \notin live
      /\ \A s \in Spot \ {p} : mailbox'[s] = mailbox[s]
    BY <1>1 DEF Fills, TypeOK
<1>5. UNCHANGED <<spots, boxes>> /\ Places = spots /\ Places' = spots
    BY <1>1 DEF Fills, OneList
<1>6. /\ Placed(id)' = Placed(id) \cup {p}
      /\ \A o \in Id \ {id} : Placed(o)' = Placed(o) /\ p \notin Placed(o)
    BY <1>1, <1>2, <1>3, <1>4, <1>5 DEF Placed, boxes
<1>7. Letters'[id] = <<>>
    BY <1>2, <1>3, <1>4, <1>5, <1>6 DEF LettersAre, boxes
<1>8. ASSUME NEW o \in Id \ {id} PROVE Letters'[o] = Letters[o]
  <2>1. CASE Placed(o) = {}
    BY <1>6, <1>8, <2>1 DEF LettersAre
  <2>2. CASE Placed(o) # {}
    <3>1. PICK s \in Placed(o) : TRUE
      BY <2>2
    <3>2. s \in Spot \ {p} /\ s \in Placed(o)'
      BY <1>1, <1>5, <1>6, <1>8, <3>1 DEF Placed
    <3>3. QED
      BY <1>4, <1>5, <1>8, <3>1, <3>2 DEF LettersAre, boxes
  <2>3. QED
    BY <2>1, <2>2
<1>9. Letters[id] \in {NULL, <<>>}
  <2>1. CASE Placed(id) = {}
    BY <1>3, <2>1 DEF LettersAre
  <2>2. ASSUME NEW s \in Placed(id) PROVE Letters[id] = <<>>
    <3>1. mailbox[s] = found[t]
      BY <1>2, <1>3, <2>2 DEF Placed, OneBoxEach
    <3>2. QED
      BY <1>2, <1>3, <2>2, <3>1 DEF LettersAre
  <2>3. QED
    BY <2>1, <2>2
<1>10. DOMAIN Letters = Id /\ Letters = [o \in Id |-> Letters[o]] /\ Letters' = [o \in Id |-> Letters'[o]]
    BY DEF Letters
<1>11. CASE Letters[id] = NULL
  <2>1. Letters' = [Letters EXCEPT ![id] = <<>>]
    BY <1>3, <1>7, <1>8, <1>10
  <2>2. QED
    BY <1>3, <1>11, <2>1 DEF Dir!DirectoryNext, Dir!Open
<1>12. CASE Letters[id] = <<>>
    BY <1>7, <1>8, <1>10, <1>12
<1>13. QED
    BY <1>9, <1>11, <1>12

(* A mailbox that is made for an owner without one opens it at once where   *)
(* the memory is that of a mailbox whose place has not been emptied yet.    *)
LEMMA CreateRefines ==
    ASSUME TypeOK, LettersAre, LettersAre', NEW t \in Thread, NEW id \in Id, NEW b \in Box,
           Create(t, id, b), misuse' = {}
    PROVE  Dir!DirectoryNext \/ UNCHANGED Letters
<1>1. \A c \in live : owner[c] # id
    BY DEF Create, Note
<1>2. /\ b \notin live /\ live' = live \cup {b} /\ owner'[b] = id /\ outbox'[b] = <<>>
      /\ \A c \in live : owner'[c] = owner[c] /\ outbox'[c] = outbox[c]
      /\ UNCHANGED list /\ Places' = Places
    BY DEF Create, TypeOK, Places, From, list
<1>3. /\ Placed(id) = {} /\ \A s \in Placed(id)' : mailbox'[s] = b
      /\ \A o \in Id \ {id} : Placed(o)' = Placed(o)
    BY <1>1, <1>2 DEF Placed, list
<1>4. Letters[id] = NULL /\ Letters'[id] \in {NULL, <<>>}
    BY <1>2, <1>3 DEF LettersAre
<1>5. ASSUME NEW o \in Id \ {id} PROVE Letters'[o] = Letters[o]
  <2>1. CASE Placed(o) = {}
    BY <1>3, <1>5, <2>1 DEF LettersAre
  <2>2. ASSUME NEW s \in Placed(o) PROVE Letters'[o] = Letters[o]
    <3>1. s \in Placed(o)' /\ mailbox'[s] = mailbox[s] /\ mailbox[s] \in live
      BY <1>2, <1>3, <1>5, <2>2 DEF Placed, list
    <3>2. QED
      BY <1>2, <1>5, <2>2, <3>1 DEF LettersAre
  <2>3. QED
    BY <2>1, <2>2
<1>6. Letters = [o \in Id |-> Letters[o]] /\ Letters' = [o \in Id |-> Letters'[o]]
    BY DEF Letters
<1>7. CASE Letters'[id] = <<>>
  <2>1. Letters' = [Letters EXCEPT ![id] = <<>>]
    BY <1>5, <1>6, <1>7
  <2>2. QED
    BY <1>4, <2>1 DEF Dir!DirectoryNext, Dir!Open
<1>8. CASE Letters'[id] = NULL
    BY <1>4, <1>5, <1>6, <1>8
<1>9. QED
    BY <1>4, <1>7, <1>8

(* A message put in a mailbox or taken out is its owner's.                  *)
LEMMA UseRefines ==
    ASSUME TypeOK, OneBoxEach, InUse, LettersAre, LettersAre', NEW t \in Thread,
           Pushes(t) \/ Pop(t)
    PROVE  Dir!DirectoryNext \/ UNCHANGED Letters
<1>1. /\ found[t] \in live /\ owner[found[t]] = meant[t] /\ meant[t] # NULL /\ live \subseteq Box
      /\ UNCHANGED <<list, live, owner>>
    BY DEF Pushes, Push, Pop, Usable, At, InUse, TypeOK
<1>2. PICK id \in Id, b \in live : id = meant[t] /\ b = found[t]
    BY <1>1 DEF TypeOK
<1>3. \A c \in Box \ {b} : outbox'[c] = outbox[c]
    BY <1>1, <1>2 DEF Pushes, Push, Pop, TypeOK
<1>4. \A o \in Id : Placed(o)' = Placed(o)
    BY <1>1 DEF Placed, Places, From, list
<1>5. ASSUME NEW o \in Id \ {id} PROVE Letters'[o] = Letters[o]
  <2>1. CASE Placed(o) = {}
    BY <1>4, <1>5, <2>1 DEF LettersAre
  <2>2. ASSUME NEW s \in Placed(o) PROVE Letters'[o] = Letters[o]
    <3>1. s \in Placed(o)' /\ mailbox'[s] = mailbox[s]
      BY <1>1, <1>4, <1>5, <2>2 DEF list
    <3>2. mailbox[s] \in Box \ {b}
      BY <1>1, <1>2, <1>5, <2>2 DEF Placed
    <3>3. QED
      BY <1>3, <1>5, <2>2, <3>1, <3>2 DEF LettersAre
  <2>3. QED
    BY <2>1, <2>2
<1>6. Letters = [o \in Id |-> Letters[o]] /\ Letters' = [o \in Id |-> Letters'[o]]
    BY DEF Letters
<1>7. CASE Placed(id) = {}
    BY <1>4, <1>5, <1>6, <1>7 DEF LettersAre
<1>8. CASE Placed(id) # {}
  <2>1. PICK s \in Placed(id) : TRUE
    BY <1>8
  <2>2. mailbox[s] = b /\ mailbox'[s] = b /\ s \in Placed(id)'
    BY <1>1, <1>2, <1>4, <2>1 DEF Placed, OneBoxEach, list
  <2>3. Letters[id] = outbox[b] /\ Letters'[id] = outbox'[b]
    BY <2>1, <2>2 DEF LettersAre
  <2>4. Letters[id] # NULL
    <3>1. outbox[b] \in Seq(Letter) /\ NULL \notin Seq(Letter)
      BY <1>1, OfficeAssumption DEF TypeOK
    <3>2. QED
      BY <2>3, <3>1
  <2>5. CASE Pushes(t)
    <3>1. PICK x \in {"inbox", "outbox"} : Push(t, x)
      BY <2>5 DEF Pushes
    <3>2. outbox'[b] = Append(outbox[b], [to |-> id, into |-> x])
      BY <1>1, <1>2, <3>1 DEF Push, TypeOK
    <3>3. Letters' = [Letters EXCEPT ![id] = Append(Letters[id], [to |-> id, into |-> x])]
      BY <1>5, <1>6, <2>3, <3>2
    <3>4. Dir!Put(id, x)
      BY <2>4, <3>3 DEF Dir!Put
    <3>5. QED
      BY <3>4 DEF Dir!DirectoryNext
  <2>6. CASE Pop(t) /\ outbox[b] # <<>>
    <3>1. outbox'[b] = Tail(outbox[b])
      BY <1>1, <1>2, <2>6 DEF Pop, TypeOK
    <3>2. Letters' = [Letters EXCEPT ![id] = Tail(Letters[id])]
      BY <1>5, <1>6, <2>3, <3>1
    <3>3. Letters[id] # <<>>
      BY <2>3, <2>6
    <3>4. QED
      BY <2>4, <3>2, <3>3 DEF Dir!DirectoryNext, Dir!Take
  <2>7. CASE Pop(t) /\ outbox[b] = <<>>
    <3>1. outbox'[b] = outbox[b]
      BY <1>1, <1>2, <2>7 DEF Pop, TypeOK
    <3>2. QED
      BY <1>5, <1>6, <2>3, <3>1
  <2>8. QED
    BY <2>5, <2>6, <2>7
<1>9. QED
    BY <1>7, <1>8

\* who uses a mailbox pushes to it, or pops from its outbox or its inbox
LEMMA UseSteps ==
    ASSUME NEW t \in Thread, Steps(t), pc[t] = "use"
    PROVE  Pushes(t) \/ Pop(t) \/ UNCHANGED outbox
<1> USE DEF At
<1>1. \A id \in Id : /\ \A b \in Box : ~Create(t, id, b)
                     /\ \A o \in Lookups : ~Search(t, id, o)
    BY DEF Create, Search
<1>2. /\ ~First(t) /\ ~Scan(t) /\ ~Last(t) /\ ~Make(t) /\ ~MakeBox(t) /\ ~MakeNext(t)
      /\ ~Take(t) /\ ~Extend(t) /\ ~AppendBox(t) /\ ~AppendNext(t) /\ ~Visit(t) /\ ~Miss(t)
    BY DEF First, Scan, Last, Make, MakeBox, MakeNext, Take, Extend, AppendBox, AppendNext,
           Visit, Miss
<1>3. /\ ~RemoveDelete(t) /\ ~RemoveHangs(t) /\ ~RemoveUnplace(t)
      /\ ~CleanStart(t) /\ ~CleanDelete(t) /\ ~CleanUnlink(t) /\ ~CleanEnd(t)
    BY DEF RemoveDelete, RemoveHangs, RemoveUnplace, CleanStart, CleanDelete, CleanUnlink, CleanEnd
<1>4. PopFromInbox(t) \/ UseFreed(t) => UNCHANGED outbox
    BY DEF PopFromInbox, UseFreed, boxes
<1>5. QED
    BY <1>1, <1>2, <1>3, <1>4 DEF Steps

LEMMA EveryStepRefines ==
    OfficeInv /\ OfficeInv' /\ [Next]_vars => [misuse' = {} => Dir!DirectoryNext]_Letters
<1>1. OneBoxEach' => LettersAre'
    BY LettersAtPlaces, PTL
<1> SUFFICES ASSUME OfficeInv, OfficeInv', [Next]_vars, misuse' = {}
             PROVE  Dir!DirectoryNext \/ UNCHANGED Letters
    OBVIOUS
<1>2. CASE UNCHANGED vars
    BY <1>2 DEF vars, list, boxes, Letters, Placed, Places, From
<1>3. CASE Next
  <2>1. PICK t \in Thread : Steps(t)
    BY <1>3, NextIsStep
  <2>2. misuse = {} /\ "raced" \notin misuse'
    BY <2>1, NotesStay
  <2>3. /\ Sound /\ InOrder /\ TypeOK /\ Known /\ InUse /\ OneBoxEach /\ OneList /\ OneList'
        /\ LettersAre /\ LettersAre' /\ NULL \notin Id /\ TypeOK'
    BY <1>1, <2>2, LettersAtPlaces, OfficeAssumption DEF OfficeInv, Sound, Typed, InOrder
  <2>4. CASE \E id \in Id, b \in Box : Create(t, id, b)
    BY <2>3, <2>4, CreateRefines
  <2>5. CASE Pushes(t) \/ Pop(t)
    BY <2>3, <2>5, UseRefines
  <2>6. CASE \E p \in spots : Fills(t, p)
    BY <2>3, <2>6, FillRefines
  <2>7. CASE /\ ~\E id \in Id, b \in Box : Create(t, id, b)
             /\ ~Pushes(t) /\ ~Pop(t)
             /\ ~\E p \in spots : Fills(t, p)
    <3>1. pc'[t] # "first"
      <4>1. \A id \in Id, b \in Box : ~Create(t, id, b)
        BY <2>7
      <4>2. QED
        BY <2>1, <2>3, <4>1, ScanSteps
    <3>2. live' \subseteq live /\ \A b \in Box : owner'[b] \in {owner[b], NULL}
      BY <2>1, <2>3, <3>1, OwnerBy
    <3>3. UNCHANGED outbox
      BY <2>1, <2>3, <2>7, <3>1, OutboxBy, UseSteps
    <3>4. \A s \in spots' : mailbox'[s] \in Box => s \in spots /\ mailbox'[s] = mailbox[s]
      BY <2>1, <2>3, <2>7, PlaceBy
    <3>5. Places = spots /\ Places' = spots' /\ live \subseteq Box
      BY <2>3 DEF OneList, TypeOK
    <3>6. ASSUME NEW id \in Id, NEW s \in Placed(id)'
          PROVE  /\ s \in Placed(id) /\ mailbox'[s] = mailbox[s]
                 /\ outbox'[mailbox[s]] = outbox[mailbox[s]]
      <4>1. s \in spots' /\ mailbox'[s] \in live' /\ owner'[mailbox'[s]] = id
        BY <3>5, <3>6 DEF Placed
      <4>2. s \in spots /\ mailbox'[s] = mailbox[s] /\ mailbox[s] \in live
        BY <3>2, <3>4, <3>5, <4>1
      <4>3. owner[mailbox[s]] = id
        BY <2>3, <3>2, <3>5, <4>1, <4>2
      <4>4. QED
        BY <3>3, <3>5, <4>2, <4>3 DEF Placed
    <3>7. QED
      BY <2>3, <3>6, Closes
  <2>8. QED
    BY <2>4, <2>5, <2>6, <2>7
<1>4. QED
    BY <1>2, <1>3

(* The post office implements Directory: as long as no owner_id was given   *)
(* twice at once and nothing else the code does not stand was done, every   *)
(* step of a thread in net_messenger.c opens a mailbox, puts a message in   *)
(* it or takes one out, closes mailboxes, or changes nothing that their     *)
(* owners can tell.                                                         *)
THEOREM OfficeIsDirectory == Spec => IsDirectory
<1>1. Init => Dir!DirectoryInit
  <2>1. SUFFICES ASSUME Init PROVE Dir!DirectoryInit
    OBVIOUS
  <2>2. \A id \in Id : Placed(id) = {}
    BY <2>1 DEF Init, Placed
  <2>3. QED
    BY <2>2 DEF Letters, Dir!DirectoryInit
<1>2. OfficeInv /\ OfficeInv' /\ [Next]_vars => [misuse' = {} => Dir!DirectoryNext]_Letters
    BY EveryStepRefines
<1>3. QED
    BY <1>1, <1>2, OfficeInvHolds, PTL DEF Spec, IsDirectory
=============================================================================
