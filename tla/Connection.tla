----------------------------- MODULE Connection -----------------------------
(***************************************************************************)
(* One connection between a client process and the daemon: the handshake,  *)
(* the client's callers, its reader thread and its Drop (client ipc.rs),   *)
(* and the daemon's read loop, request handlers and writer task            *)
(* (server.rs, with the registry's per-client queue).                      *)
(*                                                                         *)
(* Callers share the client and may have requests outstanding at once; the *)
(* daemon answers them in any order.  Each access to the atomic flag, each *)
(* critical section of the pending table and each socket operation is a    *)
(* step of its own.                                                        *)
(***************************************************************************)
EXTENDS Naturals, FiniteSets, Sequences

CONSTANTS Callers,      \* threads that share one Client
          Versions,     \* protocol versions a client may speak
          Version,      \* PROTOCOL_VERSION of the daemon
          EventCap,     \* bound of the client's event channel
          QueueCap,     \* CLIENT_QUEUE_CAPACITY
          WireCap,      \* frames the socket takes before a write blocks
          MaxInFlight,  \* MAX_IN_FLIGHT
          MaxRequests,  \* bound: requests made on the connection
          MaxEvents     \* bound: events the daemon broadcasts

ASSUME ConnectionAssumption ==
  /\ Version \in Versions
  /\ EventCap \in Nat \ {0} /\ QueueCap \in Nat \ {0} /\ WireCap \in Nat \ {0}
  /\ MaxInFlight \in Nat \ {0} /\ MaxRequests \in Nat /\ MaxEvents \in Nat

VARIABLES
  \* client: Shared
  hello,      \* the version in the client's Hello
  conn,       \* how far connect_as is, or how it ended
  connected,  \* the atomic flag
  pending,    \* ids of the requests that have a waiter
  nextId,
  \* client: threads
  call,       \* each caller's place in request_inner, its request id, its timeout
  answered,   \* ids whose one-shot channel holds the response
  reader,     \* the reader thread's place
  hand,       \* the id whose waiter the reader has taken but not yet answered, or 0
  dropper,    \* where Drop is
  events,     \* the event channel
  \* the socket
  toDaemon, toClient,
  shut,       \* the client shut both directions down
  down,       \* the daemon closed its write half
  \* daemon
  server,     \* the connection task's place
  registered, \* the client has a handle in the registry
  queue,      \* its outbound queue
  inflight,   \* ids of the requests whose handler has not finished
  stopping,   \* the daemon's shutdown flag
  \* history
  broadcasts, \* number of events broadcast
  written,    \* events written to the socket
  taken       \* events the client's consumer has taken

shared  == <<hello, conn, connected, pending, nextId>>
threads == <<call, answered, reader, hand, dropper, events>>
socket  == <<toDaemon, toClient, shut, down>>
daemon  == <<server, registered, queue, inflight, stopping>>
history == <<broadcasts, written, taken>>
vars    == <<shared, threads, socket, daemon, history>>

Msg(kind, n) == [kind |-> kind, n |-> n]
Call(pc, id, timed) == [pc |-> pc, id |-> id, timed |-> timed]
Idle == Call("idle", 0, FALSE)

\* The socket is accepted and the client has written its Hello.
Init ==
  /\ hello \in Versions /\ conn = "wait" /\ connected = FALSE
  /\ pending = {} /\ nextId = 1
  /\ call = [c \in Callers |-> Idle] /\ answered = {}
  /\ reader = "none" /\ hand = 0 /\ dropper = "none" /\ events = <<>>
  /\ toDaemon = <<>> /\ toClient = <<>> /\ shut = FALSE /\ down = FALSE
  /\ server = "hello" /\ registered = FALSE /\ queue = <<>> /\ inflight = {}
  /\ stopping = FALSE
  /\ broadcasts = 0 /\ written = <<>> /\ taken = <<>>

-----------------------------------------------------------------------------
(***************************************************************************)
(* The daemon: handle_connection.                                          *)
(***************************************************************************)

\* The client's Hello names the daemon's version, or it is rejected.
ReadHello ==
  /\ server = "hello"
  /\ IF hello = Version
     THEN server' = "register" /\ UNCHANGED <<toClient, down>>
     ELSE /\ server' = "gone" /\ down' = TRUE
          /\ toClient' = Append(toClient, Msg("reject", 0))
  /\ UNCHANGED <<shared, threads, toDaemon, shut, registered, queue, inflight,
                 stopping, history>>

\* register_kind: from here on the client is sent every broadcast.
Register ==
  /\ server = "register"
  /\ registered' = TRUE /\ server' = "ack"
  /\ UNCHANGED <<shared, threads, socket, queue, inflight, stopping, history>>

\* send_to: refused when the client is gone or its queue is full.
CanSend == registered /\ ~ down /\ Len(queue) < QueueCap

\* The HelloAck goes through the queue like everything else.
SendAck ==
  /\ server = "ack"
  /\ IF CanSend
     THEN /\ queue' = Append(queue, Msg("ack", 0))
          /\ server' = "serve" /\ UNCHANGED <<registered, down>>
     ELSE /\ registered' = FALSE /\ down' = TRUE
          /\ server' = "gone" /\ UNCHANGED queue
  /\ UNCHANGED <<shared, threads, toDaemon, toClient, shut, inflight, stopping,
                 history>>

Serving == server \in {"serve", "drain"}

\* broadcast_domain: an event that does not fit is dropped.
Broadcast ==
  /\ broadcasts < MaxEvents
  /\ broadcasts' = broadcasts + 1
  /\ queue' = IF CanSend THEN Append(queue, Msg("event", broadcasts + 1)) ELSE queue
  /\ UNCHANGED <<shared, threads, socket, server, registered, inflight, stopping,
                 written, taken>>

\* stop_daemon, requested on another connection.
StopDaemon ==
  /\ ~ stopping /\ stopping' = TRUE
  /\ UNCHANGED <<shared, threads, socket, server, registered, queue, inflight, history>>

\* The writer task writes the next frame; a closed socket ends it.
WriteFrame ==
  /\ Serving /\ ~ down /\ queue # <<>>
  /\ queue' = IF shut THEN <<>> ELSE Tail(queue)
  /\ down' = shut
  /\ toClient' = IF shut THEN toClient ELSE Append(toClient, Head(queue))
  /\ written' = IF ~ shut /\ Head(queue).kind = "event"
                THEN Append(written, Head(queue).n) ELSE written
  /\ UNCHANGED <<shared, threads, toDaemon, shut, server, registered, inflight,
                 stopping, broadcasts, taken>>

\* Once the client is unregistered and its queue drained the writer ends.
WriterEnds ==
  /\ Serving /\ ~ down /\ ~ registered /\ queue = <<>>
  /\ down' = TRUE
  /\ UNCHANGED <<shared, threads, toDaemon, toClient, shut, daemon, history>>

\* read_loop: take a request, unless too many are unfinished.  After a request
\* a stopping daemon reads no more.  (The code decodes one frame before it waits
\* for a free place; here the frame waits in the socket.)
ReadRequest ==
  /\ server = "serve" /\ toDaemon # <<>> /\ Cardinality(inflight) < MaxInFlight
  /\ toDaemon' = Tail(toDaemon)
  /\ inflight' = inflight \cup {Head(toDaemon)}
  /\ server' = IF stopping THEN "drain" ELSE "serve"
  /\ UNCHANGED <<shared, threads, toClient, shut, down, registered, queue, stopping,
                 history>>

ReadEof ==
  /\ server = "serve" /\ toDaemon = <<>> /\ shut
  /\ server' = "drain"
  /\ UNCHANGED <<shared, threads, socket, registered, queue, inflight, stopping, history>>

\* A handler finishes.  A response that cannot be queued drops the client.
Finish(id) ==
  /\ id \in inflight
  /\ inflight' = inflight \ {id}
  /\ IF CanSend
     THEN queue' = Append(queue, Msg("resp", id)) /\ UNCHANGED registered
     ELSE registered' = FALSE /\ UNCHANGED queue
  /\ UNCHANGED <<shared, threads, socket, server, stopping, history>>

\* The read loop is over and the handlers are done: unregister, abort the writer.
CloseConnection ==
  /\ server = "drain" /\ inflight = {}
  /\ server' = "gone" /\ registered' = FALSE /\ queue' = <<>> /\ down' = TRUE
  /\ UNCHANGED <<shared, threads, toDaemon, toClient, shut, inflight, stopping, history>>

\* The daemon process ends, by request or not.  A read error ends the connection
\* the same way: read_loop returns at once and its unfinished handlers are aborted.
DaemonExit ==
  /\ server # "gone"
  /\ server' = "gone" /\ registered' = FALSE /\ queue' = <<>> /\ inflight' = {}
  /\ down' = TRUE
  /\ UNCHANGED <<shared, threads, toDaemon, toClient, shut, stopping, history>>

-----------------------------------------------------------------------------
(***************************************************************************)
(* The client: connect_as.                                                 *)
(***************************************************************************)

\* The first message decides.
FirstMessage ==
  /\ conn = "wait" /\ toClient # <<>>
  /\ toClient' = Tail(toClient)
  /\ \/ /\ Head(toClient).kind = "ack"
        /\ conn' = "open" /\ connected' = TRUE /\ reader' = "read" /\ UNCHANGED shut
     \/ /\ Head(toClient).kind = "reject"
        /\ conn' = "mismatch" /\ shut' = TRUE /\ UNCHANGED <<connected, reader>>
     \/ /\ Head(toClient).kind \in {"event", "resp"}
        /\ conn' = "rejected" /\ shut' = TRUE /\ UNCHANGED <<connected, reader>>
  /\ UNCHANGED <<hello, pending, nextId, call, answered, hand, dropper, events,
                 toDaemon, down, daemon, history>>

HandshakeLost ==
  /\ conn = "wait" /\ toClient = <<>> /\ down
  /\ conn' = "lost" /\ shut' = TRUE
  /\ UNCHANGED <<hello, connected, pending, nextId, threads, toDaemon, toClient, down,
                 daemon, history>>

-----------------------------------------------------------------------------
(***************************************************************************)
(* The client: request_inner.                                              *)
(***************************************************************************)
InCall(c, pc) == call[c].pc = pc

\* The caller returns, with or without a response.
Return(c) == call' = [call EXCEPT ![c] = Idle] /\ answered' = answered \ {call[c].id}

\* is_connected, first time.  A dead connection is reported at once.
StartRequest(c, timed) ==
  /\ InCall(c, "idle") /\ conn = "open" /\ dropper = "none"
  /\ connected /\ nextId <= MaxRequests
  /\ call' = [call EXCEPT ![c] = Call("checked", 0, timed)]
  /\ UNCHANGED <<shared, answered, reader, hand, dropper, events, socket, daemon, history>>

\* Take an id and insert the waiter.
InsertWaiter(c) ==
  /\ InCall(c, "checked")
  /\ call' = [call EXCEPT ![c] = Call("inserted", nextId, call[c].timed)]
  /\ pending' = pending \cup {nextId}
  /\ nextId' = nextId + 1
  /\ UNCHANGED <<hello, conn, connected, answered, reader, hand, dropper, events,
                 socket, daemon, history>>

\* is_connected, second time: the reader may have cleaned up in between.
Recheck(c) ==
  /\ InCall(c, "inserted")
  /\ IF connected
     THEN /\ call' = [call EXCEPT ![c] = Call("send", call[c].id, call[c].timed)]
          /\ UNCHANGED <<pending, answered>>
     ELSE pending' = pending \ {call[c].id} /\ Return(c)
  /\ UNCHANGED <<hello, conn, connected, nextId, reader, hand, dropper, events,
                 socket, daemon, history>>

\* send_message blocks while the socket is full and fails when it is closed.
SendMessage(c) ==
  /\ InCall(c, "send")
  /\ IF shut \/ server = "gone"
     THEN pending' = pending \ {call[c].id} /\ Return(c) /\ UNCHANGED toDaemon
     ELSE /\ Len(toDaemon) < WireCap
          /\ toDaemon' = Append(toDaemon, call[c].id)
          /\ call' = [call EXCEPT ![c] = Call("wait", call[c].id, call[c].timed)]
          /\ UNCHANGED <<pending, answered>>
  /\ UNCHANGED <<hello, conn, connected, nextId, reader, hand, dropper, events,
                 toClient, shut, down, daemon, history>>

\* The sender was dropped without an answer.
Dropped(id) == id \notin pending /\ id \notin answered /\ hand # id

\* recv returns: a response, or the end of the connection.
Receive(c) ==
  /\ InCall(c, "wait")
  /\ call[c].id \in answered \/ Dropped(call[c].id)
  /\ Return(c)
  /\ UNCHANGED <<shared, reader, hand, dropper, events, socket, daemon, history>>

\* Mutant: the waiter of a request that timed out stays in the table.
TimeoutLeaks(c) ==
  /\ InCall(c, "wait") /\ call[c].timed
  /\ call[c].id \notin answered
  /\ Return(c)
  /\ UNCHANGED <<shared, reader, hand, dropper, events, socket, daemon, history>>

\* recv_timeout gives up; the answer may still arrive.
Timeout(c) ==
  /\ InCall(c, "wait") /\ call[c].timed
  /\ call[c].id \notin answered
  /\ pending' = pending \ {call[c].id}
  /\ Return(c)
  /\ UNCHANGED <<hello, conn, connected, nextId, reader, hand, dropper, events,
                 socket, daemon, history>>

-----------------------------------------------------------------------------
(***************************************************************************)
(* The client: reader_loop, route_message and Drop.                        *)
(***************************************************************************)

\* Mutant: the waiter stays in the table after its response.
RouteResponseKeeps ==
  /\ reader = "read" /\ toClient # <<>> /\ Head(toClient).kind = "resp"
  /\ toClient' = Tail(toClient)
  /\ LET id == Head(toClient).n
     IN  IF id \in pending
         THEN reader' = "hand" /\ hand' = id
         ELSE UNCHANGED <<reader, hand>>
  /\ UNCHANGED <<shared, call, answered, dropper, events, toDaemon, shut, down,
                 daemon, history>>

\* A response goes to its waiter, if it still has one.
RouteResponse ==
  /\ reader = "read" /\ toClient # <<>> /\ Head(toClient).kind = "resp"
  /\ toClient' = Tail(toClient)
  /\ LET id == Head(toClient).n
     IN  IF id \in pending
         THEN pending' = pending \ {id} /\ reader' = "hand" /\ hand' = id
         ELSE UNCHANGED <<pending, reader, hand>>
  /\ UNCHANGED <<hello, conn, connected, nextId, call, answered, dropper, events,
                 toDaemon, shut, down, daemon, history>>

\* waiter.send: the caller may have given up by now.
HandOver ==
  /\ reader = "hand"
  /\ answered' = IF \E c \in Callers : call[c].id = hand
                 THEN answered \cup {hand} ELSE answered
  /\ reader' = "read" /\ hand' = 0
  /\ UNCHANGED <<shared, call, dropper, events, socket, daemon, history>>

\* Mutant: an event that does not fit is dropped.
RouteEventDrops ==
  /\ reader = "read" /\ toClient # <<>> /\ Head(toClient).kind = "event"
  /\ toClient' = Tail(toClient)
  /\ events' = IF Len(events) < EventCap THEN Append(events, Head(toClient).n) ELSE events
  /\ UNCHANGED <<shared, call, answered, reader, hand, dropper, toDaemon, shut, down,
                 daemon, history>>

\* An event goes to the event channel; one that does not fit ends the connection.
RouteEvent ==
  /\ reader = "read" /\ toClient # <<>> /\ Head(toClient).kind = "event"
  /\ toClient' = Tail(toClient)
  /\ IF Len(events) < EventCap
     THEN events' = Append(events, Head(toClient).n) /\ UNCHANGED reader
     ELSE reader' = "store" /\ UNCHANGED events
  /\ UNCHANGED <<shared, call, answered, hand, dropper, toDaemon, shut, down,
                 daemon, history>>

\* The end of the stream, or a read error: after a local shutdown, or when the
\* daemon closed the socket with requests unread, what is buffered may be lost.
ReaderEof ==
  /\ reader = "read"
  /\ \/ shut
     \/ down /\ toClient = <<>>
     \/ server = "gone" /\ toDaemon # <<>>
  /\ reader' = "store"
  /\ UNCHANGED <<shared, call, answered, hand, dropper, events, socket, daemon, history>>

(***************************************************************************)
(* Shared::disconnect, run by the reader and by Drop: mark the connection  *)
(* dead, shut the socket down, drop every waiter.  At and to are a place   *)
(* in it and the next.                                                     *)
(***************************************************************************)

\* Mutant: the waiters are dropped before the connection is marked dead.
DisconnectStepEarly(at, to) ==
  \/ /\ at = "store" /\ to = "shutdown"
     /\ pending' = {} /\ UNCHANGED <<connected, shut>>
  \/ /\ at = "shutdown" /\ to = "clear"
     /\ shut' = TRUE /\ UNCHANGED <<connected, pending>>
  \/ /\ at = "clear" /\ to = "end"
     /\ connected' = FALSE /\ UNCHANGED <<pending, shut>>

\* Mutant: the waiters are forgotten.
DisconnectStepForgets(at, to) ==
  \/ /\ at = "store" /\ to = "shutdown"
     /\ connected' = FALSE /\ UNCHANGED <<pending, shut>>
  \/ /\ at = "shutdown" /\ to = "end"
     /\ shut' = TRUE /\ UNCHANGED <<connected, pending>>

\* Mutant: the socket is left open.
DisconnectStepOpen(at, to) ==
  \/ /\ at = "store" /\ to = "clear"
     /\ connected' = FALSE /\ UNCHANGED <<pending, shut>>
  \/ /\ at = "clear" /\ to = "end"
     /\ pending' = {} /\ UNCHANGED <<connected, shut>>

DisconnectStep(at, to) ==
  \/ /\ at = "store" /\ to = "shutdown"
     /\ connected' = FALSE /\ UNCHANGED <<pending, shut>>
  \/ /\ at = "shutdown" /\ to = "clear"
     /\ shut' = TRUE /\ UNCHANGED <<connected, pending>>
  \/ /\ at = "clear" /\ to = "end"
     /\ pending' = {} /\ UNCHANGED <<connected, shut>>

Places == {"store", "shutdown", "clear", "end"}

ReaderDisconnects ==
  /\ \E to \in Places : DisconnectStep(reader, to) /\ reader' = to
  /\ UNCHANGED <<hello, conn, nextId, call, answered, hand, dropper, events,
                 toDaemon, toClient, down, daemon, history>>

\* Drop has the only handle: no call is under way.
DropClient ==
  /\ conn = "open" /\ dropper = "none" /\ \A c \in Callers : call[c] = Idle
  /\ dropper' = "store"
  /\ UNCHANGED <<shared, call, answered, reader, hand, events, socket, daemon, history>>

DropDisconnects ==
  /\ \E to \in Places : DisconnectStep(dropper, to) /\ dropper' = to
  /\ UNCHANGED <<hello, conn, nextId, call, answered, reader, hand, events,
                 toDaemon, toClient, down, daemon, history>>

\* ... and join the reader.
DropJoins ==
  /\ dropper = "end" /\ reader = "end"
  /\ dropper' = "joined"
  /\ UNCHANGED <<shared, call, answered, reader, hand, events, socket, daemon, history>>

\* The consumer of Client::events.
TakeEvent ==
  /\ events # <<>>
  /\ taken' = Append(taken, Head(events)) /\ events' = Tail(events)
  /\ UNCHANGED <<shared, call, answered, reader, hand, dropper, socket, daemon,
                 broadcasts, written>>

-----------------------------------------------------------------------------
DaemonStep ==
  \/ ReadHello \/ Register \/ SendAck \/ Broadcast \/ StopDaemon
  \/ WriteFrame \/ WriterEnds \/ ReadRequest \/ ReadEof
  \/ \E id \in inflight : Finish(id)
  \/ CloseConnection \/ DaemonExit

CallerStep(c) ==
  \/ \E timed \in BOOLEAN : StartRequest(c, timed)
  \/ InsertWaiter(c) \/ Recheck(c) \/ SendMessage(c) \/ Receive(c) \/ Timeout(c)

ReaderStep == RouteResponse \/ HandOver \/ RouteEvent \/ ReaderEof \/ ReaderDisconnects

Next ==
  \/ DaemonStep
  \/ FirstMessage \/ HandshakeLost
  \/ \E c \in Callers : CallerStep(c)
  \/ ReaderStep
  \/ DropClient \/ DropDisconnects \/ DropJoins \/ TakeEvent

Spec == Init /\ [][Next]_vars

-----------------------------------------------------------------------------
Kinds    == {"ack", "reject", "event", "resp"}
Messages == [kind : Kinds, n : Nat]
Calls    == [pc : {"idle", "checked", "inserted", "send", "wait"}, id : Nat,
             timed : BOOLEAN]

SharedType ==
  /\ hello \in Versions /\ conn \in {"wait", "open", "mismatch", "rejected", "lost"}
  /\ connected \in BOOLEAN /\ pending \subseteq Nat /\ nextId \in Nat \ {0}

ThreadsType ==
  /\ call \in [Callers -> Calls]
  /\ answered \subseteq Nat /\ hand \in Nat
  /\ reader \in {"none", "read", "hand"} \cup Places
  /\ dropper \in {"none", "joined"} \cup Places
  /\ events \in Seq(Nat)

SocketType ==
  /\ toDaemon \in Seq(Nat) /\ toClient \in Seq(Messages)
  /\ shut \in BOOLEAN /\ down \in BOOLEAN

DaemonType ==
  /\ server \in {"hello", "register", "ack", "serve", "drain", "gone"}
  /\ registered \in BOOLEAN /\ queue \in Seq(Messages)
  /\ inflight \subseteq Nat /\ stopping \in BOOLEAN

HistoryType == broadcasts \in Nat /\ written \in Seq(Nat) /\ taken \in Seq(Nat)

\* Every variable has its type.
TypeOK == SharedType /\ ThreadsType /\ SocketType /\ DaemonType /\ HistoryType

-----------------------------------------------------------------------------
(***************************************************************************)
(* Safety.                                                                 *)
(***************************************************************************)
Calling(c) == call[c].pc \in {"inserted", "send", "wait"}

(***************************************************************************)
(* The table holds a waiter only while its call is under way: timeouts,    *)
(* failed writes and the race with the reader's cleanup leave none behind  *)
(* (ipc.rs request_inner, "ours would linger").                            *)
(***************************************************************************)
NoOrphanWaiter == \A id \in pending : \E c \in Callers : Calling(c) /\ call[c].id = id

(***************************************************************************)
(* Once the reader has cleaned up nobody waits on a waiter nobody will     *)
(* wake, wherever the cleanup met the call: a blocked caller's waiter is   *)
(* gone from the table (ipc.rs Shared::disconnect and request_inner).      *)
(***************************************************************************)
NobodyStranded ==
  reader = "end" => \A c \in Callers : call[c].pc = "wait" => call[c].id \notin pending

(***************************************************************************)
(* No two calls under way share a request id, and a response is handed to  *)
(* its waiter at most once: an id that is being answered or was answered   *)
(* has left the table, also when the answer comes late (ipc.rs             *)
(* request_inner and route_message).                                       *)
(***************************************************************************)
IdsOK ==
  /\ \A c \in Callers : IF Calling(c) THEN call[c].id \in 1..(nextId - 1)
                                       ELSE call[c].id = 0
  /\ \A c, d \in Callers : Calling(c) /\ Calling(d) /\ call[c].id = call[d].id => c = d
  /\ \A id \in pending \cup answered \cup {hand} : id < nextId
  /\ pending \cap (answered \cup {hand, 0}) = {}

\* A reader past the first step of its cleanup has marked the connection dead.
CleanupOK ==
  /\ conn = "wait" => reader = "none" /\ dropper = "none"
  /\ reader \in {"shutdown", "clear", "end"} => ~ connected
  /\ reader = "end" =>
       \A c \in Callers : call[c].pc \in {"send", "wait"} => call[c].id \notin pending

\* The inductive invariant behind the three.
IInv == TypeOK /\ IdsOK /\ CleanupOK /\ NoOrphanWaiter

(***************************************************************************)
(* The consumer sees the events the daemon wrote, in order and without a   *)
(* hole: an event that does not fit ends the connection instead (ipc.rs    *)
(* route_message, "reconnect for an authoritative snapshot").              *)
(***************************************************************************)
NoEventSkipped ==
  LET seen == taken \o events
  IN  Len(seen) <= Len(written) /\ SubSeq(written, 1, Len(seen)) = seen

-----------------------------------------------------------------------------
(***************************************************************************)
(* Liveness.  The client's threads and the daemon's tasks keep running and *)
(* handlers finish; nothing is assumed of new calls, of broadcasts, of     *)
(* timeouts or of the daemon's end.                                        *)
(***************************************************************************)
CallerFairness(c) ==
  WF_vars(InsertWaiter(c) \/ Recheck(c) \/ SendMessage(c) \/ Receive(c))

FairSpec ==
  /\ Spec
  /\ WF_vars(ReadHello \/ Register \/ SendAck)
  /\ WF_vars(WriteFrame \/ WriterEnds) /\ WF_vars(ReadRequest \/ ReadEof)
  /\ WF_vars(\E id \in inflight : Finish(id)) /\ WF_vars(CloseConnection)
  /\ WF_vars(FirstMessage \/ HandshakeLost) /\ WF_vars(ReaderStep)
  /\ WF_vars(DropDisconnects \/ DropJoins)
  /\ \A c \in Callers : CallerFairness(c)

(***************************************************************************)
(* Every call returns, although the client has no timeout of its own: with *)
(* its answer, or because the connection ended (docs/protocol.md, "On EOF  *)
(* every pending request wakes").                                          *)
(***************************************************************************)
CallsReturn == \A c \in Callers : call[c].pc # "idle" ~> call[c].pc = "idle"

\* Dropping the client ends its reader thread and does not hang on the join.
DropReturns == dropper # "none" ~> dropper = "joined"
=============================================================================
