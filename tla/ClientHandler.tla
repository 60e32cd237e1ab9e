---------------------------- MODULE ClientHandler ----------------------------
(***************************************************************************)
(* One handler thread of src/src/network/net_threader.c from its first     *)
(* allocation to its exit: the buffers it owns, the select loop, the parse *)
(* loop around the reading callback, the two write loops and the teardown  *)
(* all its paths lead to.  How the thread got its descriptor is the        *)
(* subject of NetThreader.                                                 *)
(*                                                                         *)
(* A reply is the sequence of its byte positions 1, 2, ..., so that what   *)
(* reaches the client can be compared with what the callback wrote.        *)
(***************************************************************************)
EXTENDS Integers, Sequences

CONSTANTS
    ReadSize,     \* size of the read buffer
    WriteSize,    \* size of the write buffer
    SizeMax,      \* the largest size_t, which is also (size_t) -1
    MaxUnread     \* bound: bytes a client that ends may leave behind unread

ASSUME SizesAssumption ==
    /\ ReadSize \in Nat \ {0} /\ WriteSize \in Nat \ {0}
    /\ SizeMax \in Nat /\ SizeMax > ReadSize /\ SizeMax > WriteSize
    /\ MaxUnread \in Nat

Hooks == {"active", "idle", "initiator", "liberator"}

VARIABLES
    hooks,                    \* the callbacks the program registered
    pc,
    peer,                     \* the client's end of the connection
    unread,                   \* bytes of a client that has ended, not yet read
    stalled,                  \* a write waits for a client that does not read
    socket,                   \* the handler's end: "open" or "closed"
    read_buffer, write_buffer, state,      \* "none", "live", "freed"
    num_bytes, bytes_commited, read_offset_commited,    \* of the read buffer
    write_num_bytes, write_commited,                    \* of the write buffer
    writing,                  \* which of the two write loops: "reply" or "idle"
    sent,                     \* history: the positions written for the present reply
    short                     \* history: a write took less than it was given

readVars    == <<num_bytes, bytes_commited, read_offset_commited>>
writeVars   == <<write_num_bytes, write_commited, writing, sent, short>>
memory      == <<read_buffer, write_buffer, state>>
clientVars  == <<peer, unread, stalled>>
handlerVars == <<hooks, pc, clientVars, socket, memory, readVars, writeVars>>

-----------------------------------------------------------------------------

HandlerTypeOK ==
    /\ hooks \subseteq Hooks
    /\ pc \in {"allocwrite", "allocread", "initiate", "select", "read", "report",
               "parse", "reparse", "write", "idle", "disconnect", "free", "liberate",
               "exited", "crashed", "killed"}
    /\ peer \in {"open", "closed", "reset", "broken"}
    /\ unread \in 0..MaxUnread
    /\ stalled \in BOOLEAN
    /\ socket \in {"open", "closed"}
    /\ {read_buffer, write_buffer, state} \subseteq {"none", "live", "freed"}
    /\ num_bytes \in 0..ReadSize \cup {SizeMax}
    /\ bytes_commited \in 0..SizeMax
    /\ read_offset_commited \in 0..SizeMax
    /\ write_num_bytes \in 0..WriteSize
    /\ write_commited \in 0..(2 * WriteSize - 1)
    /\ writing \in {"reply", "idle"}
    /\ sent \in Seq(1..WriteSize)
    /\ short \in {"no", "yes"}

HandlerInit ==
    /\ hooks \in SUBSET Hooks
    /\ pc = "allocwrite"
    /\ peer = "open" /\ unread = 0 /\ stalled = FALSE
    /\ socket = "open"
    /\ read_buffer = "none" /\ write_buffer = "none" /\ state = "none"
    /\ num_bytes = 0 /\ bytes_commited = 0 /\ read_offset_commited = 0
    /\ write_num_bytes = 0 /\ write_commited = 0
    /\ writing = "reply"
    /\ sent = <<>> /\ short = "no"

-----------------------------------------------------------------------------
(* The client: it closes in order, or its end disappears; what it has sent  *)
(* before stays to be read.  A write that waited for it waits no longer.    *)

PeerEnds ==
    /\ peer = "open"
    /\ peer' \in {"closed", "reset"}
    /\ unread' \in 0..MaxUnread
    /\ stalled' = FALSE
    /\ UNCHANGED <<hooks, pc, socket, memory, readVars, writeVars>>

-----------------------------------------------------------------------------
(* Setting up.  Each failure goes straight to the teardown.                 *)

AllocWrite ==
    /\ pc = "allocwrite"
    /\ \/ write_buffer' = "live" /\ pc' = "allocread"
       \/ UNCHANGED write_buffer /\ pc' = "disconnect"
    /\ UNCHANGED <<hooks, clientVars, socket, read_buffer, state, readVars, writeVars>>

AllocRead ==
    /\ pc = "allocread"
    /\ \/ read_buffer' = "live" /\ pc' = "initiate"
       \/ UNCHANGED read_buffer /\ pc' = "disconnect"
    /\ UNCHANGED <<hooks, clientVars, socket, write_buffer, state, readVars, writeVars>>

(* Mutant of Initiate: a failing initiator frees the read buffer itself.    *)
InitiateFrees ==
    /\ pc = "initiate"
    /\ \/ state' = "live" /\ pc' = "select" /\ UNCHANGED read_buffer
       \/ UNCHANGED state /\ pc' = "disconnect" /\ read_buffer' = "freed"
    /\ UNCHANGED <<hooks, clientVars, socket, write_buffer, readVars, writeVars>>

Initiate ==
    /\ pc = "initiate"
    /\ \/ "initiator" \in hooks /\ state' = "live" /\ pc' = "select"
       \/ "initiator" \in hooks /\ UNCHANGED state /\ pc' = "disconnect"
       \/ "initiator" \notin hooks /\ UNCHANGED state /\ pc' = "select"
    /\ UNCHANGED <<hooks, clientVars, socket, read_buffer, write_buffer, readVars, writeVars>>

-----------------------------------------------------------------------------
(* The select loop.                                                         *)

(* Data, the end of the stream or an error to report makes select ready.    *)
SelectReady ==
    /\ pc = "select"
    /\ pc' = "read"
    /\ UNCHANGED <<hooks, clientVars, socket, memory, readVars, writeVars>>

(* One second without activity, or a signal: both are "idle".               *)
SelectIdle ==
    /\ pc = "select"
    /\ pc' = "idle"
    /\ UNCHANGED <<hooks, clientVars, socket, memory, readVars, writeVars>>

SelectFails ==
    /\ pc = "select"
    /\ pc' = "disconnect"
    /\ UNCHANGED <<hooks, clientVars, socket, memory, readVars, writeVars>>

(* What read() gives: bytes, as long as there are any, also of a client     *)
(* that has ended; ...                                                      *)
ReadBytes ==
    /\ peer = "open" \/ unread > 0
    /\ num_bytes' \in 1..ReadSize
    /\ peer # "open" => num_bytes' <= unread
    /\ unread' = IF peer = "open" THEN unread ELSE unread - num_bytes'
    /\ UNCHANGED peer

(* ... then 0, the end of the stream, or -1 for a connection that was       *)
(* reset, which is reported once.  The result goes into a size_t.           *)
ReadEnd ==
    /\ peer # "open" /\ unread = 0
    /\ num_bytes' = IF peer = "reset" THEN SizeMax ELSE 0
    /\ peer' = IF peer = "reset" THEN "broken" ELSE peer
    /\ UNCHANGED unread

(* So the test "num_bytes <= 0" sees the end of the stream only.            *)
Read ==
    /\ pc = "read"
    /\ ReadBytes \/ ReadEnd
    /\ bytes_commited' = 0
    /\ pc' = IF num_bytes' = 0 THEN "disconnect"
             ELSE IF "active" \in hooks THEN "parse" ELSE "report"
    /\ UNCHANGED <<hooks, stalled, socket, memory, read_offset_commited, writeVars>>

(* No reading callback: the bytes are logged; "bye" ends the session.       *)
Report ==
    /\ pc = "report"
    /\ pc' \in {"select", "disconnect"}
    /\ UNCHANGED <<hooks, clientVars, socket, memory, readVars, writeVars>>

(* The callback fills the write buffer and says what to do with it.  Any    *)
(* code that is neither of the two known ones lets the loop go on.          *)
Answer(loop, otherwise) ==
    /\ write_num_bytes' \in 0..WriteSize
    /\ writing' = loop
    /\ sent' = <<>> /\ short' = "no"
    /\ pc' \in {"disconnect", "write", otherwise}
    /\ UNCHANGED write_commited

(* The reading callback handles the bytes from bytes_commited on.  Its side *)
(* of the agreement at line 99: it leaves the count alone, sets it to 0, or *)
(* moves it forward to where it left off, which may be past the end.        *)
Parse ==
    /\ pc = "parse"
    /\ read_offset_commited' = bytes_commited
    /\ bytes_commited' \in {0} \cup bytes_commited..SizeMax
    /\ Answer("reply", "reparse")
    /\ UNCHANGED <<hooks, clientVars, socket, memory, num_bytes>>

(* Mutants of Reparse: the test for the end of the buffer is missing; the   *)
(* test that the callback moved the count is missing.                       *)
ReparsePastEnd ==
    /\ pc = "reparse"
    /\ pc' = IF read_offset_commited # bytes_commited /\ bytes_commited # 0
             THEN "parse" ELSE "select"
    /\ UNCHANGED <<hooks, clientVars, socket, memory, readVars, writeVars>>

ReparseUnmoved ==
    /\ pc = "reparse"
    /\ pc' = IF bytes_commited < num_bytes /\ bytes_commited # 0 THEN "parse" ELSE "select"
    /\ UNCHANGED <<hooks, clientVars, socket, memory, readVars, writeVars>>

(* The condition of the parse loop.                                         *)
Reparse ==
    /\ pc = "reparse"
    /\ pc' = IF /\ read_offset_commited # bytes_commited
                /\ bytes_commited < num_bytes
                /\ bytes_commited # 0
             THEN "parse" ELSE "select"
    /\ UNCHANGED <<hooks, clientVars, socket, memory, readVars, writeVars>>

Idle ==
    /\ pc = "idle"
    /\ IF "idle" \in hooks
       THEN Answer("idle", "select")
       ELSE pc' = "select" /\ UNCHANGED writeVars
    /\ UNCHANGED <<hooks, clientVars, socket, memory, readVars>>

-----------------------------------------------------------------------------
(* The write loops (lines 121 and 165): the same code twice.                *)

(* write() is given the whole buffer, from its start, and takes the first   *)
(* count bytes of it.                                                       *)
Take(count) ==
    /\ pc = "write" /\ write_commited < write_num_bytes
    /\ count \in 1..write_num_bytes
    /\ sent' = sent \o [i \in 1..count |-> i]
    /\ write_commited' = write_commited + count
    /\ short' = IF count < write_num_bytes THEN "yes" ELSE short
    /\ UNCHANGED <<hooks, pc, unread, socket, memory, readVars, write_num_bytes, writing>>

(* A client that has gone makes the connection break.                       *)
WriteSome(count) ==
    /\ peer \in {"open", "closed"} /\ ~stalled
    /\ Take(count)
    /\ peer' = IF peer = "closed" THEN "broken" ELSE peer
    /\ UNCHANGED stalled

(* The socket is a blocking one (net_server.c:445): a write to a client     *)
(* that has stopped reading waits ...                                       *)
WriteBlocks ==
    /\ pc = "write" /\ write_commited < write_num_bytes
    /\ peer = "open" /\ ~stalled
    /\ stalled' = TRUE
    /\ UNCHANGED <<hooks, pc, peer, unread, socket, memory, readVars, writeVars>>

(* ... until the client reads on, ...                                       *)
PeerReads(count) ==
    /\ stalled
    /\ Take(count)
    /\ stalled' = FALSE
    /\ UNCHANGED peer

(* ... or a signal interrupts it, which is an error like any other.         *)
WriteInterrupted ==
    /\ pc = "write" /\ stalled
    /\ stalled' = FALSE
    /\ pc' = "disconnect"
    /\ UNCHANGED <<hooks, peer, unread, socket, memory, readVars, writeVars>>

(* Mutant of WriteError: an error is tried again, and SIGPIPE is ignored.   *)
WriteErrorRetried ==
    /\ pc = "write" /\ write_commited < write_num_bytes
    /\ peer \in {"reset", "broken"} /\ peer' = "broken"
    /\ UNCHANGED <<hooks, pc, unread, stalled, socket, memory, readVars, writeVars>>

(* The first write after a reset reports it; on a connection known to be    *)
(* broken the write raises SIGPIPE, which nothing in the program handles.   *)
WriteError ==
    /\ pc = "write" /\ write_commited < write_num_bytes
    /\ \/ peer = "reset" /\ peer' = "broken" /\ pc' = "disconnect"
       \/ peer = "broken" /\ UNCHANGED peer /\ pc' = "killed"
    /\ UNCHANGED <<hooks, unread, stalled, socket, memory, readVars, writeVars>>

(* Mutant of WriteDone: the count of written bytes is not reset.            *)
WriteDoneKeepsCount ==
    /\ pc = "write" /\ write_commited >= write_num_bytes
    /\ write_num_bytes' = 0
    /\ pc' = IF writing = "reply" THEN "reparse" ELSE "select"
    /\ UNCHANGED <<hooks, clientVars, socket, memory, readVars, write_commited, writing,
                   sent, short>>

WriteDone ==
    /\ pc = "write" /\ write_commited >= write_num_bytes
    /\ write_commited' = 0 /\ write_num_bytes' = 0
    /\ pc' = IF writing = "reply" THEN "reparse" ELSE "select"
    /\ UNCHANGED <<hooks, clientVars, socket, memory, readVars, writing, sent, short>>

-----------------------------------------------------------------------------
(* The teardown.                                                            *)

Disconnect ==
    /\ pc = "disconnect"
    /\ socket' = "closed"
    /\ pc' = "free"
    /\ UNCHANGED <<hooks, clientVars, memory, readVars, writeVars>>

(* Mutant of Free: only the read buffer is freed.                           *)
FreeReadOnly ==
    /\ pc = "free"
    /\ IF read_buffer # "live"
       THEN pc' = "crashed" /\ UNCHANGED read_buffer
       ELSE pc' = "liberate" /\ read_buffer' = "freed"
    /\ UNCHANGED <<hooks, clientVars, socket, state, write_buffer, readVars, writeVars>>

(* free_buffer_state follows the pointer it is given, null or not; the read *)
(* buffer comes first.                                                      *)
Free ==
    /\ pc = "free"
    /\ IF read_buffer # "live" \/ write_buffer # "live"
       THEN pc' = "crashed" /\ UNCHANGED <<read_buffer, write_buffer>>
       ELSE pc' = "liberate" /\ read_buffer' = "freed" /\ write_buffer' = "freed"
    /\ UNCHANGED <<hooks, clientVars, socket, state, readVars, writeVars>>

Liberate ==
    /\ pc = "liberate"
    /\ state' = IF "liberator" \in hooks /\ state = "live" THEN "freed" ELSE state
    /\ pc' = "exited"
    /\ UNCHANGED <<hooks, clientVars, socket, read_buffer, write_buffer, readVars, writeVars>>

-----------------------------------------------------------------------------

Step ==
    \/ AllocWrite \/ AllocRead \/ Initiate
    \/ SelectReady \/ SelectIdle \/ SelectFails
    \/ Read \/ Report \/ Parse \/ Reparse \/ Idle
    \/ \E count \in 1..WriteSize : WriteSome(count)
    \/ WriteError \/ WriteDone
    \/ Disconnect \/ Free \/ Liberate

(* The client, and signals.                                                 *)
Environment ==
    \/ PeerEnds \/ WriteBlocks \/ WriteInterrupted
    \/ \E count \in 1..WriteSize : PeerReads(count)

HandlerNext == Environment \/ Step

HandlerSpec == HandlerInit /\ [][HandlerNext]_handlerVars

(* The thread runs, and signals do not keep select from ever reporting a    *)
(* connection that has ended.  The client need not read what it is sent.    *)
FairHandlerSpec ==
    HandlerSpec /\ WF_handlerVars(Step) /\ SF_handlerVars(SelectReady /\ peer # "open")

-----------------------------------------------------------------------------
(* Safety.                                                                  *)

Ended == pc \in {"exited", "crashed", "killed"}

(* When a write loop ends and every write took all it was given, the client *)
(* has been sent the reply: each byte once, in order, nothing of an earlier *)
(* reply.                                                                   *)
ReplySentOnce ==
    pc = "write" /\ write_commited >= write_num_bytes /\ short = "no" =>
        sent = [i \in 1..write_num_bytes |-> i]

(* After a read that gave bytes, the reading callback is only entered with  *)
(* some of them unhandled, also when it is entered again and whatever it    *)
(* did to the count.  (After a read that failed it is entered with none at  *)
(* all, and with (size_t) -1 for their number.)                             *)
CallbackHasInput ==
    pc = "parse" /\ num_bytes # SizeMax => bytes_commited < num_bytes

(* A thread that ends by itself leaves nothing behind: the descriptor is    *)
(* closed, both buffers are freed, and so is the state, if the program      *)
(* registered a function for that.                                          *)
NothingLeaks ==
    pc = "exited" =>
        /\ socket = "closed" /\ read_buffer = "freed" /\ write_buffer = "freed"
        /\ "liberator" \in hooks => state # "live"

(* The teardown itself fails only where an allocation had failed before.    *)
CrashNeedsFailedAlloc ==
    pc = "crashed" => read_buffer = "none" \/ write_buffer = "none"

-----------------------------------------------------------------------------
(* Why they hold.                                                           *)

(* Where the handler is in its life.                                       *)
Serving  == {"select", "read", "report", "parse", "reparse", "write", "idle"}
TornDown == {"liberate", "exited"}

(* The buffers are allocated one after the other before the loop, are both *)
(* there during it, and are freed in one place; the socket is closed first.*)
OwnedInv ==
    /\ pc = "allocwrite" => read_buffer = "none" /\ write_buffer = "none"
    /\ pc = "allocread" => read_buffer = "none" /\ write_buffer = "live"
    /\ pc \in Serving \cup {"initiate"} => read_buffer = "live" /\ write_buffer = "live"
    /\ pc \notin TornDown => read_buffer # "freed" /\ write_buffer # "freed"
    /\ pc \in TornDown => read_buffer = "freed" /\ write_buffer = "freed"
    /\ pc \in TornDown \cup {"free"} => socket = "closed"
    /\ pc = "exited" /\ "liberator" \in hooks => state # "live"

(* A write loop starts with its counter at zero, whichever loop was the    *)
(* last one and however it was left.                                       *)
FreshCounterInv == pc \in (Serving \ {"write"}) \cup {"allocwrite", "allocread", "initiate"}
                      => write_commited = 0

(* Without a short write, a reply has either not been started or been sent *)
(* by a single write.                                                      *)
ReplyInv ==
    pc = "write" /\ short = "no" =>
        \/ write_commited = 0 /\ sent = <<>>
        \/ write_commited = write_num_bytes /\ sent = [i \in 1..write_num_bytes |-> i]

-----------------------------------------------------------------------------
(* Liveness, under FairHandlerSpec.                                         *)

(* Once the client has gone the thread ends, by itself or with the process: *)
(* no unread or half-handled message, callback result or pending reply      *)
(* keeps it going round.                                                    *)
EndsAfterHangUp == peer # "open" ~> Ended

(* Only a client that never reads on can keep a thread in a write loop.     *)
WriteEnds == (pc = "write" ~> pc # "write") \/ <>[]stalled

-----------------------------------------------------------------------------
(* What the code says of itself, and does not keep.                         *)

(* net_threader.c:120 "write until amount of commited bytes is equal to the *)
(* number of bytes in the buffer".                                          *)
WritesUntilEqual ==
    pc = "write" /\ write_commited >= write_num_bytes => write_commited = write_num_bytes
=============================================================================
