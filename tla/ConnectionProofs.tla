-------------------------- MODULE ConnectionProofs --------------------------
(***************************************************************************)
(* The pending table of a connection, for any number of callers, any       *)
(* bounds and any interleaving of callers, reader, Drop and daemon: it     *)
(* holds no orphan, and after the reader's cleanup nobody is stranded.     *)
(***************************************************************************)
EXTENDS Connection, SequenceTheorems, TLAPS

\* The messages and the call records the model builds have their types.
LEMMA Constructors ==
  /\ Msg("ack", 0) \in Messages /\ Msg("reject", 0) \in Messages
  /\ \A n \in Nat : Msg("event", n) \in Messages /\ Msg("resp", n) \in Messages
  /\ \A m \in Messages : m.n \in Nat
  /\ Idle \in Calls
  /\ \A r \in Calls : r.id \in Nat /\ r.timed \in BOOLEAN
  /\ \A pc \in {"checked", "inserted", "send", "wait"}, id \in Nat, timed \in BOOLEAN :
        Call(pc, id, timed) \in Calls
BY DEF Messages, Kinds, Msg, Calls, Call, Idle

\* Every step keeps every variable in its type.
LEMMA TypeStep == TypeOK /\ [Next]_vars => TypeOK'
<1> SUFFICES ASSUME TypeOK, [Next]_vars PROVE TypeOK'
  OBVIOUS
<1>a. SharedType /\ ThreadsType /\ SocketType /\ DaemonType /\ HistoryType
  BY DEF TypeOK
<1>b. /\ UNCHANGED shared => SharedType'
      /\ UNCHANGED threads => ThreadsType'
      /\ UNCHANGED socket => SocketType'
      /\ UNCHANGED daemon => DaemonType'
      /\ UNCHANGED history => HistoryType'
  <2>1. UNCHANGED shared => SharedType'  BY <1>a DEF SharedType, shared
  <2>2. UNCHANGED threads => ThreadsType'  BY <1>a DEF ThreadsType, threads
  <2>3. UNCHANGED socket => SocketType'  BY <1>a DEF SocketType, socket
  <2>4. UNCHANGED daemon => DaemonType'  BY <1>a DEF DaemonType, daemon
  <2>5. UNCHANGED history => HistoryType'  BY <1>a DEF HistoryType, history
  <2> QED  BY <2>1, <2>2, <2>3, <2>4, <2>5
<1>1. CASE ReadHello
  <2>1. SocketType'
    <3>1. Append(toClient, Msg("reject", 0)) \in Seq(Messages)
      BY <1>a, Constructors DEF SocketType
    <3> QED  BY <1>a, <1>1, <3>1 DEF SocketType, ReadHello
  <2>2. DaemonType'  BY <1>a, <1>1 DEF DaemonType, ReadHello
  <2> QED  BY <1>b, <1>1, <2>1, <2>2 DEF TypeOK, ReadHello
<1>2. CASE Register
  <2>1. DaemonType'  BY <1>a, <1>2 DEF DaemonType, Register
  <2> QED  BY <1>b, <1>2, <2>1 DEF TypeOK, Register
<1>3. CASE SendAck
  <2>1. SocketType'  BY <1>a, <1>3 DEF SocketType, SendAck, CanSend
  <2>2. DaemonType'
    <3>1. Append(queue, Msg("ack", 0)) \in Seq(Messages)
      BY <1>a, Constructors DEF DaemonType
    <3> QED  BY <1>a, <1>3, <3>1 DEF DaemonType, SendAck, CanSend
  <2> QED  BY <1>b, <1>3, <2>1, <2>2 DEF TypeOK, SendAck
<1>4. CASE Broadcast
  <2>1. DaemonType'
    <3>1. Append(queue, Msg("event", broadcasts + 1)) \in Seq(Messages)
      BY <1>a, Constructors DEF DaemonType, HistoryType
    <3> QED  BY <1>a, <1>4, <3>1 DEF DaemonType, Broadcast, CanSend
  <2>2. HistoryType'  BY <1>a, <1>4 DEF HistoryType, Broadcast, CanSend
  <2> QED  BY <1>b, <1>4, <2>1, <2>2 DEF TypeOK, Broadcast
<1>5. CASE StopDaemon
  <2>1. DaemonType'  BY <1>a, <1>5 DEF DaemonType, StopDaemon
  <2> QED  BY <1>b, <1>5, <2>1 DEF TypeOK, StopDaemon
<1>6. CASE WriteFrame
  <2>1. SocketType'
    <3>1. Append(toClient, Head(queue)) \in Seq(Messages)
      BY <1>a, <1>6 DEF SocketType, DaemonType, WriteFrame
    <3> QED  BY <1>a, <1>6, <3>1 DEF SocketType, WriteFrame, Serving
  <2>2. DaemonType'  BY <1>a, <1>6 DEF DaemonType, WriteFrame, Serving
  <2>3. HistoryType'
    <3>1. Head(queue) \in Messages  BY <1>a, <1>6 DEF DaemonType, WriteFrame
    <3>2. Head(queue).n \in Nat  BY <3>1, Constructors
    <3>3. Append(written, Head(queue).n) \in Seq(Nat)  BY <1>a, <3>2 DEF HistoryType
    <3> QED  BY <1>a, <1>6, <3>3 DEF HistoryType, WriteFrame, Serving
  <2> QED  BY <1>b, <1>6, <2>1, <2>2, <2>3 DEF TypeOK, WriteFrame
<1>7. CASE WriterEnds
  <2>1. SocketType'  BY <1>a, <1>7 DEF SocketType, WriterEnds
  <2> QED  BY <1>b, <1>7, <2>1 DEF TypeOK, WriterEnds
<1>8. CASE ReadRequest
  <2>1. SocketType'  BY <1>a, <1>8 DEF SocketType, ReadRequest
  <2>2. DaemonType'
    <3>1. Head(toDaemon) \in Nat  BY <1>a, <1>8 DEF SocketType, ReadRequest
    <3> QED  BY <1>a, <1>8, <3>1 DEF DaemonType, ReadRequest
  <2> QED  BY <1>b, <1>8, <2>1, <2>2 DEF TypeOK, ReadRequest
<1>9. CASE ReadEof
  <2>1. DaemonType'  BY <1>a, <1>9 DEF DaemonType, ReadEof
  <2> QED  BY <1>b, <1>9, <2>1 DEF TypeOK, ReadEof
<1>10. ASSUME NEW id \in inflight, Finish(id) PROVE TypeOK'
  <2>1. DaemonType'
    <3>1. Append(queue, Msg("resp", id)) \in Seq(Messages)
      BY <1>a, <1>10, Constructors DEF DaemonType
    <3> QED  BY <1>a, <1>10, <3>1 DEF DaemonType, Finish, CanSend
  <2> QED  BY <1>b, <1>10, <2>1 DEF TypeOK, Finish
<1>11. CASE CloseConnection
  <2>1. SocketType'  BY <1>a, <1>11 DEF SocketType, CloseConnection
  <2>2. DaemonType'
    <3>1. <<>> \in Seq(Messages)  OBVIOUS
    <3> QED  BY <1>a, <1>11, <3>1 DEF DaemonType, CloseConnection
  <2> QED  BY <1>b, <1>11, <2>1, <2>2 DEF TypeOK, CloseConnection
<1>12. CASE DaemonExit
  <2>1. SocketType'  BY <1>a, <1>12 DEF SocketType, DaemonExit
  <2>2. DaemonType'
    <3>1. <<>> \in Seq(Messages)  OBVIOUS
    <3> QED  BY <1>a, <1>12, <3>1 DEF DaemonType, DaemonExit
  <2> QED  BY <1>b, <1>12, <2>1, <2>2 DEF TypeOK, DaemonExit
<1>13. CASE FirstMessage
  <2>1. SharedType'  BY <1>a, <1>13 DEF SharedType, FirstMessage
  <2>2. ThreadsType'  BY <1>a, <1>13, Constructors DEF ThreadsType, Places, FirstMessage
  <2>3. SocketType'
    <3>1. Tail(toClient) \in Seq(Messages)  BY <1>a, <1>13 DEF SocketType, FirstMessage
    <3> QED  BY <1>a, <1>13, <3>1 DEF SocketType, FirstMessage
  <2> QED  BY <1>b, <1>13, <2>1, <2>2, <2>3 DEF TypeOK, FirstMessage
<1>14. CASE HandshakeLost
  <2>1. SharedType'  BY <1>a, <1>14 DEF SharedType, HandshakeLost
  <2>2. SocketType'  BY <1>a, <1>14 DEF SocketType, HandshakeLost
  <2> QED  BY <1>b, <1>14, <2>1, <2>2 DEF TypeOK, HandshakeLost
<1>15. ASSUME NEW c \in Callers, NEW timed \in BOOLEAN, StartRequest(c, timed) PROVE TypeOK'
  <2>1. ThreadsType'  BY <1>a, <1>15, Constructors DEF ThreadsType, Places, StartRequest
  <2> QED  BY <1>b, <1>15, <2>1 DEF TypeOK, StartRequest
<1>16. ASSUME NEW c \in Callers, InsertWaiter(c) PROVE TypeOK'
  <2>1. SharedType'  BY <1>a, <1>16 DEF SharedType, InsertWaiter
  <2>2. ThreadsType'
    <3>1. Call("inserted", nextId, call[c].timed) \in Calls
      BY <1>a, Constructors DEF SharedType, ThreadsType
    <3> QED  BY <1>a, <1>16, <3>1 DEF ThreadsType, Places, InsertWaiter
  <2> QED  BY <1>b, <1>16, <2>1, <2>2 DEF TypeOK, InsertWaiter
<1>17. ASSUME NEW c \in Callers, Recheck(c) PROVE TypeOK'
  <2>1. SharedType'  BY <1>a, <1>17 DEF SharedType, Recheck, Return
  <2>2. ThreadsType'
    <3>1. Call("send", call[c].id, call[c].timed) \in Calls
      BY <1>a, <1>17, Constructors DEF ThreadsType
    <3>2. Idle \in Calls  BY Constructors
    <3> QED  BY <1>a, <1>17, <3>1, <3>2 DEF ThreadsType, Places, Recheck, Return
  <2> QED  BY <1>b, <1>17, <2>1, <2>2 DEF TypeOK, Recheck
<1>18. ASSUME NEW c \in Callers, SendMessage(c) PROVE TypeOK'
  <2>1. SharedType'  BY <1>a, <1>18 DEF SharedType, SendMessage, Return
  <2>2. ThreadsType'
    <3>1. Call("wait", call[c].id, call[c].timed) \in Calls
      BY <1>a, <1>18, Constructors DEF ThreadsType
    <3>2. Idle \in Calls  BY Constructors
    <3> QED  BY <1>a, <1>18, <3>1, <3>2 DEF ThreadsType, Places, SendMessage, Return
  <2>3. SocketType'
    <3>1. Append(toDaemon, call[c].id) \in Seq(Nat)
      BY <1>a, <1>18, Constructors DEF ThreadsType, SocketType
    <3> QED  BY <1>a, <1>18, <3>1 DEF SocketType, SendMessage, Return
  <2> QED  BY <1>b, <1>18, <2>1, <2>2, <2>3 DEF TypeOK, SendMessage
<1>19. ASSUME NEW c \in Callers, Receive(c) PROVE TypeOK'
  <2>1. ThreadsType'
    BY <1>a, <1>19, Constructors DEF ThreadsType, Places, Receive, Return
  <2> QED  BY <1>b, <1>19, <2>1 DEF TypeOK, Receive
<1>20. ASSUME NEW c \in Callers, Timeout(c) PROVE TypeOK'
  <2>1. SharedType'  BY <1>a, <1>20 DEF SharedType, Timeout, Return
  <2>2. ThreadsType'
    BY <1>a, <1>20, Constructors DEF ThreadsType, Places, Timeout, Return
  <2> QED  BY <1>b, <1>20, <2>1, <2>2 DEF TypeOK, Timeout
<1>21. CASE RouteResponse
  <2>1. SharedType'  BY <1>a, <1>21 DEF SharedType, RouteResponse
  <2>2. ThreadsType'
    <3>1. Head(toClient) \in Messages  BY <1>a, <1>21 DEF SocketType, RouteResponse
    <3>2. Head(toClient).n \in Nat  BY <1>a, <3>1, Constructors
    <3> QED  BY <1>a, <1>21, <3>2 DEF ThreadsType, Places, RouteResponse
  <2>3. SocketType'  BY <1>a, <1>21 DEF SocketType, RouteResponse
  <2> QED  BY <1>b, <1>21, <2>1, <2>2, <2>3 DEF TypeOK, RouteResponse
<1>22. CASE HandOver
  <2>1. ThreadsType'  BY <1>a, <1>22 DEF ThreadsType, Places, HandOver
  <2> QED  BY <1>b, <1>22, <2>1 DEF TypeOK, HandOver
<1>23. CASE RouteEvent
  <2>1. ThreadsType'
    <3>1. Head(toClient) \in Messages  BY <1>a, <1>23 DEF SocketType, RouteEvent
    <3>2. Head(toClient).n \in Nat  BY <3>1, Constructors
    <3>3. Append(events, Head(toClient).n) \in Seq(Nat)  BY <1>a, <3>2 DEF ThreadsType
    <3> QED  BY <1>a, <1>23, <3>3 DEF ThreadsType, Places, RouteEvent
  <2>2. SocketType'  BY <1>a, <1>23 DEF SocketType, RouteEvent
  <2> QED  BY <1>b, <1>23, <2>1, <2>2 DEF TypeOK, RouteEvent
<1>24. CASE ReaderEof
  <2>1. ThreadsType'  BY <1>a, <1>24 DEF ThreadsType, Places, ReaderEof
  <2> QED  BY <1>b, <1>24, <2>1 DEF TypeOK, ReaderEof
<1>25. CASE ReaderDisconnects
  <2>1. SharedType'  BY <1>a, <1>25 DEF SharedType, ReaderDisconnects, DisconnectStep
  <2>2. ThreadsType'
    BY <1>a, <1>25 DEF ThreadsType, Places, ReaderDisconnects, DisconnectStep
  <2>3. SocketType'  BY <1>a, <1>25 DEF SocketType, ReaderDisconnects, DisconnectStep
  <2> QED  BY <1>b, <1>25, <2>1, <2>2, <2>3 DEF TypeOK, ReaderDisconnects
<1>26. CASE DropClient
  <2>1. ThreadsType'  BY <1>a, <1>26 DEF ThreadsType, Places, DropClient
  <2> QED  BY <1>b, <1>26, <2>1 DEF TypeOK, DropClient
<1>27. CASE DropDisconnects
  <2>1. SharedType'  BY <1>a, <1>27 DEF SharedType, DropDisconnects, DisconnectStep
  <2>2. ThreadsType'
    BY <1>a, <1>27 DEF ThreadsType, Places, DropDisconnects, DisconnectStep
  <2>3. SocketType'  BY <1>a, <1>27 DEF SocketType, DropDisconnects, DisconnectStep
  <2> QED  BY <1>b, <1>27, <2>1, <2>2, <2>3 DEF TypeOK, DropDisconnects
<1>28. CASE DropJoins
  <2>1. ThreadsType'  BY <1>a, <1>28 DEF ThreadsType, Places, DropJoins
  <2> QED  BY <1>b, <1>28, <2>1 DEF TypeOK, DropJoins
<1>29. CASE TakeEvent
  <2>1. ThreadsType'  BY <1>a, <1>29 DEF ThreadsType, Places, TakeEvent
  <2>2. HistoryType'
    <3>1. Append(taken, Head(events)) \in Seq(Nat)
      BY <1>a, <1>29 DEF HistoryType, ThreadsType, TakeEvent
    <3> QED  BY <1>a, <1>29, <3>1 DEF HistoryType, TakeEvent
  <2> QED  BY <1>b, <1>29, <2>1, <2>2 DEF TypeOK, TakeEvent
<1>30. CASE UNCHANGED vars
  BY <1>b, <1>30 DEF TypeOK, vars
<1> QED
  BY <1>1, <1>2, <1>3, <1>4, <1>5, <1>6, <1>7, <1>8, <1>9, <1>10, <1>11, <1>12,
     <1>13, <1>14, <1>15, <1>16, <1>17, <1>18, <1>19, <1>20, <1>21, <1>22, <1>23,
     <1>24, <1>25, <1>26, <1>27, <1>28, <1>29, <1>30
     DEF Next, DaemonStep, CallerStep, ReaderStep

\* The pending table starts empty and nobody calls.
LEMMA InitIInv == Init => IInv
<1> SUFFICES ASSUME Init PROVE IInv
  OBVIOUS
<1> <<>> \in Seq(Nat) /\ <<>> \in Seq(Messages) /\ {} \subseteq Nat
  OBVIOUS
<1>1. SharedType
  <2>1. hello \in Versions /\ conn = "wait" /\ connected = FALSE /\ pending = {} /\ nextId = 1
    BY DEF Init
  <2>2. pending \subseteq Nat  BY <2>1
  <2>3. nextId \in Nat \ {0}  BY <2>1
  <2>4. connected \in BOOLEAN  BY <2>1, Zenon
  <2> QED  BY <2>1, <2>2, <2>3, <2>4 DEF SharedType
<1>2. ThreadsType  BY Constructors DEF Init, ThreadsType
<1>3. SocketType  BY DEF Init, SocketType
<1>4. DaemonType  BY DEF Init, DaemonType
<1>5. HistoryType  BY DEF Init, HistoryType
<1>6. IdsOK /\ CleanupOK /\ NoOrphanWaiter
  BY DEF Init, IdsOK, CleanupOK, NoOrphanWaiter, Calling, Idle, Call
<1> QED  BY <1>1, <1>2, <1>3, <1>4, <1>5, <1>6 DEF IInv, TypeOK

-----------------------------------------------------------------------------
(***************************************************************************)
(* The rest of the invariant.  Most steps leave alone what it speaks of.   *)
(***************************************************************************)
Table == IdsOK /\ CleanupOK /\ NoOrphanWaiter

\* The variables the invariant of the table is about.
focus == <<conn, connected, pending, nextId, call, answered, reader, hand, dropper>>

\* A step that touches none of them keeps it.
LEMMA TableUntouched == Table /\ UNCHANGED focus => Table'
BY DEF Table, focus, IdsOK, CleanupOK, NoOrphanWaiter, Calling

\* The daemon, the consumer of events and the loss of the handshake touch none.
LEMMA OutsideSteps ==
  DaemonStep \/ TakeEvent \/ UNCHANGED vars => UNCHANGED focus
<1>1. DaemonStep => UNCHANGED focus
  BY DEF DaemonStep, ReadHello, Register, SendAck, Broadcast, StopDaemon, WriteFrame,
         WriterEnds, ReadRequest, ReadEof, Finish, CloseConnection, DaemonExit, focus,
         shared, threads
<1>2. TakeEvent => UNCHANGED focus
  BY DEF TakeEvent, focus, shared, threads
<1> QED  BY <1>1, <1>2 DEF vars, shared, threads, focus

\* The rest of a caller's view: a caller's step keeps the table in order.
LEMMA CallerSteps ==
  ASSUME TypeOK, Table, NEW c \in Callers, CallerStep(c)
  PROVE  Table'
<1> USE DEF Table, SharedType, ThreadsType, Calls, Calling, InCall
<1>a. SharedType /\ ThreadsType  BY DEF TypeOK
<1>1. ASSUME NEW timed \in BOOLEAN, StartRequest(c, timed) PROVE Table'
  <2>1. IdsOK'  BY <1>a, <1>1 DEF StartRequest, Call, shared, IdsOK
  <2>2. CleanupOK'  BY <1>a, <1>1 DEF StartRequest, Call, shared, CleanupOK
  <2>3. NoOrphanWaiter'  BY <1>a, <1>1 DEF StartRequest, Call, shared, NoOrphanWaiter
  <2> QED  BY <2>1, <2>2, <2>3
<1>2. CASE InsertWaiter(c)
  <2>1. IdsOK'  BY <1>a, <1>2 DEF InsertWaiter, Call, IdsOK
  <2>2. CleanupOK'  BY <1>a, <1>2 DEF InsertWaiter, Call, CleanupOK, IdsOK
  <2>3. NoOrphanWaiter'  BY <1>a, <1>2 DEF InsertWaiter, Call, NoOrphanWaiter
  <2> QED  BY <2>1, <2>2, <2>3
<1>3. CASE Recheck(c)
  <2>1. CASE connected
    <3>1. /\ call' = [call EXCEPT ![c] = Call("send", call[c].id, call[c].timed)]
          /\ UNCHANGED <<pending, answered, nextId, hand, reader, dropper, conn, connected>>
      BY <1>3, <2>1 DEF Recheck
    <3>2. IdsOK'  BY <1>a, <1>3, <3>1 DEF Recheck, Call, IdsOK
    <3>3. CleanupOK'  BY <1>a, <1>3, <2>1, <3>1 DEF Recheck, Call, CleanupOK
    <3>4. NoOrphanWaiter'  BY <1>a, <1>3, <3>1 DEF Recheck, Call, NoOrphanWaiter
    <3> QED  BY <3>2, <3>3, <3>4
  <2>2. CASE ~ (connected)
    <3>1. /\ call' = [call EXCEPT ![c] = Idle] /\ answered' = answered \ {call[c].id}
          /\ pending' = pending \ {call[c].id}
          /\ UNCHANGED <<nextId, hand, reader, dropper, conn, connected>>
      BY <1>3, <2>2 DEF Recheck, Return
    <3>2. IdsOK'  BY <1>a, <3>1 DEF Idle, Call, IdsOK
    <3>3. CleanupOK'  BY <1>a, <3>1 DEF Idle, Call, CleanupOK
    <3>4. NoOrphanWaiter'  BY <1>a, <3>1 DEF Idle, Call, NoOrphanWaiter, IdsOK
    <3> QED  BY <3>2, <3>3, <3>4
  <2> QED  BY <2>1, <2>2
<1>4. CASE SendMessage(c)
  <2>1. CASE ~ (shut \/ server = "gone")
    <3>1. /\ call' = [call EXCEPT ![c] = Call("wait", call[c].id, call[c].timed)]
          /\ UNCHANGED <<pending, answered, nextId, hand, reader, dropper, conn, connected>>
      BY <1>4, <2>1 DEF SendMessage
    <3>2. IdsOK'  BY <1>a, <1>4, <3>1 DEF SendMessage, Call, IdsOK
    <3>3. CleanupOK'  BY <1>a, <1>4, <2>1, <3>1 DEF SendMessage, Call, CleanupOK
    <3>4. NoOrphanWaiter'  BY <1>a, <1>4, <3>1 DEF SendMessage, Call, NoOrphanWaiter
    <3> QED  BY <3>2, <3>3, <3>4
  <2>2. CASE ~ (~ (shut \/ server = "gone"))
    <3>1. /\ call' = [call EXCEPT ![c] = Idle] /\ answered' = answered \ {call[c].id}
          /\ pending' = pending \ {call[c].id}
          /\ UNCHANGED <<nextId, hand, reader, dropper, conn, connected>>
      BY <1>4, <2>2 DEF SendMessage, Return
    <3>2. IdsOK'  BY <1>a, <3>1 DEF Idle, Call, IdsOK
    <3>3. CleanupOK'  BY <1>a, <3>1 DEF Idle, Call, CleanupOK
    <3>4. NoOrphanWaiter'  BY <1>a, <3>1 DEF Idle, Call, NoOrphanWaiter, IdsOK
    <3> QED  BY <3>2, <3>3, <3>4
  <2> QED  BY <2>1, <2>2
<1>5. CASE Receive(c)
  <2>1. IdsOK'  BY <1>a, <1>5 DEF Receive, Return, Idle, Call, IdsOK, shared
  <2>2. CleanupOK'  BY <1>a, <1>5 DEF Receive, Return, Idle, Call, CleanupOK, shared
  <2>3. call[c].id \notin pending  BY <1>5 DEF Receive, Dropped, IdsOK
  <2>4. NoOrphanWaiter'
    BY <1>a, <1>5, <2>3 DEF Receive, Return, Idle, Call, NoOrphanWaiter, shared
  <2> QED  BY <2>1, <2>2, <2>4
<1>6. CASE Timeout(c)
  <2>1. IdsOK'  BY <1>a, <1>6 DEF Timeout, Return, Idle, Call, IdsOK
  <2>2. CleanupOK'  BY <1>a, <1>6 DEF Timeout, Return, Idle, Call, CleanupOK
  <2>3. NoOrphanWaiter'
    BY <1>a, <1>6 DEF Timeout, Return, Idle, Call, NoOrphanWaiter, IdsOK
  <2> QED  BY <2>1, <2>2, <2>3
<1> QED  BY <1>1, <1>2, <1>3, <1>4, <1>5, <1>6 DEF CallerStep

\* The handshake, the reader thread and Drop keep the table in order.
LEMMA ReaderSteps ==
  ASSUME TypeOK, Table,
         \/ FirstMessage \/ HandshakeLost \/ ReaderStep
         \/ DropClient \/ DropDisconnects \/ DropJoins
  PROVE  Table'
<1> USE DEF Table
<1>a. SharedType /\ ThreadsType  BY DEF TypeOK
<1>b. UNCHANGED <<pending, nextId, call, answered, hand>> => IdsOK' /\ NoOrphanWaiter'
  BY DEF IdsOK, NoOrphanWaiter, Calling
<1>1. CASE FirstMessage
  BY <1>1, <1>b DEF FirstMessage, CleanupOK
<1>2. CASE HandshakeLost
  BY <1>2, <1>b DEF HandshakeLost, CleanupOK, threads
<1>3. CASE RouteResponse
  <2>1. IdsOK'
    BY <1>a, <1>3 DEF RouteResponse, IdsOK, Calling, SharedType
  <2>2. CleanupOK'  BY <1>3 DEF RouteResponse, CleanupOK
  <2>3. NoOrphanWaiter'  BY <1>3 DEF RouteResponse, NoOrphanWaiter, Calling
  <2> QED  BY <2>1, <2>2, <2>3
<1>4. CASE HandOver
  <2>1. IdsOK'
    BY <1>a, <1>4 DEF HandOver, IdsOK, Calling, SharedType, ThreadsType, shared
  <2>2. CleanupOK'  BY <1>4 DEF HandOver, CleanupOK, shared
  <2>3. NoOrphanWaiter'  BY <1>4 DEF HandOver, NoOrphanWaiter, Calling, shared
  <2> QED  BY <2>1, <2>2, <2>3
<1>5. CASE RouteEvent
  BY <1>5, <1>b DEF RouteEvent, CleanupOK, shared
<1>6. CASE ReaderEof
  BY <1>6, <1>b DEF ReaderEof, CleanupOK, shared
<1>7. CASE ReaderDisconnects
  <2>1. IdsOK'
    BY <1>7 DEF ReaderDisconnects, DisconnectStep, Places, IdsOK, Calling
  <2>2. CleanupOK'
    BY <1>7 DEF ReaderDisconnects, DisconnectStep, Places, CleanupOK
  <2>3. NoOrphanWaiter'
    BY <1>7 DEF ReaderDisconnects, DisconnectStep, Places, NoOrphanWaiter, Calling
  <2> QED  BY <2>1, <2>2, <2>3
<1>8. CASE DropClient
  BY <1>8, <1>b DEF DropClient, CleanupOK, shared
<1>9. CASE DropDisconnects
  <2>1. IdsOK'
    BY <1>9 DEF DropDisconnects, DisconnectStep, Places, IdsOK, Calling
  <2>2. CleanupOK'
    BY <1>9 DEF DropDisconnects, DisconnectStep, Places, CleanupOK
  <2>3. NoOrphanWaiter'
    BY <1>9 DEF DropDisconnects, DisconnectStep, Places, NoOrphanWaiter, Calling
  <2> QED  BY <2>1, <2>2, <2>3
<1>10. CASE DropJoins
  BY <1>10, <1>b DEF DropJoins, CleanupOK, shared
<1> QED
  BY <1>1, <1>2, <1>3, <1>4, <1>5, <1>6, <1>7, <1>8, <1>9, <1>10 DEF ReaderStep

-----------------------------------------------------------------------------
(***************************************************************************)
(* The invariant of a connection: types, fresh ids, an answered request is *)
(* out of the table, the connection is marked dead before its waiters are  *)
(* dropped, and no waiter outlives its call (ipc.rs Shared, request_inner, *)
(* reader_loop, Drop).                                                     *)
(***************************************************************************)
THEOREM ConnectionInvariant == Spec => []IInv
<1>1. IInv /\ [Next]_vars => IInv'
  <2> SUFFICES ASSUME IInv, [Next]_vars PROVE IInv'
    OBVIOUS
  <2>1. TypeOK /\ Table  BY DEF IInv, Table
  <2>2. TypeOK'  BY <2>1, TypeStep
  <2>3. Table'
    BY <2>1, TableUntouched, OutsideSteps, CallerSteps, ReaderSteps DEF Next
  <2> QED  BY <2>2, <2>3 DEF IInv, Table
<1> QED  BY InitIInv, <1>1, PTL DEF Spec

(***************************************************************************)
(* For any number of callers, no waiter is left behind in the pending      *)
(* table by a timeout, a failed write or a lost race with the reader's     *)
(* cleanup (ipc.rs request_inner).                                         *)
(***************************************************************************)
THEOREM NoOrphans == Spec => []NoOrphanWaiter
<1>1. IInv => NoOrphanWaiter  BY DEF IInv
<1> QED  BY ConnectionInvariant, <1>1, PTL

(***************************************************************************)
(* For any number of callers and requests, calls under way have different  *)
(* ids and a response is handed over at most once, although timeouts let   *)
(* answers arrive late (ipc.rs request_inner, route_message).              *)
(***************************************************************************)
THEOREM AnsweredOnce == Spec => []IdsOK
<1>1. IInv => IdsOK  BY DEF IInv
<1> QED  BY ConnectionInvariant, <1>1, PTL

(***************************************************************************)
(* For any number of callers, once the reader thread has cleaned up no     *)
(* caller blocks on a waiter that is still in the table: there is nobody   *)
(* left to wake it (ipc.rs Shared::disconnect, request_inner).             *)
(***************************************************************************)
THEOREM CleanupReachesEveryone == Spec => []NobodyStranded
<1>1. IInv => NobodyStranded  BY DEF IInv, CleanupOK, NobodyStranded
<1> QED  BY ConnectionInvariant, <1>1, PTL

-----------------------------------------------------------------------------
(***************************************************************************)
(* The events: while the client reads, what it has seen and what is on the *)
(* wire are the events the daemon wrote.                                   *)
(***************************************************************************)
Seen == taken \o events

\* The events of the first i frames on the wire end at the at[i]-th event written.
Chain(at, seen, wire, log) ==
  /\ at[0] = Len(seen) /\ at[Len(wire)] = Len(log)
  /\ \A i \in 1 .. Len(wire) :
       IF wire[i].kind = "event"
       THEN at[i] = at[i - 1] + 1 /\ log[at[i]] = wire[i].n
       ELSE at[i] = at[i - 1]

Flowing ==
  \E at \in [0 .. Len(toClient) -> 0 .. Len(written)] : Chain(at, Seen, toClient, written)

Prefix == Len(Seen) <= Len(written) /\ \A i \in 1 .. Len(Seen) : written[i] = Seen[i]

EventsOK == Prefix /\ (conn = "wait" \/ reader \in {"read", "hand"} => Flowing)

\* The sequences that events are in.
LEMMA Sequences ==
  ASSUME TypeOK
  PROVE  /\ taken \in Seq(Nat) /\ events \in Seq(Nat) /\ written \in Seq(Nat)
         /\ Seen \in Seq(Nat) /\ toClient \in Seq(Messages)
         /\ Len(Seen) \in Nat /\ Len(written) \in Nat /\ Len(toClient) \in Nat
<1>1. taken \in Seq(Nat) /\ events \in Seq(Nat) /\ written \in Seq(Nat) /\ toClient \in Seq(Messages)
  BY DEF TypeOK, ThreadsType, SocketType, HistoryType
<1>2. Seen \in Seq(Nat)
  BY <1>1, ConcatProperties DEF Seen
<1> QED
  BY <1>1, <1>2, LenProperties

\* Appending to the second of two sequences, and moving its head to the first.
LEMMA AppendOfConcat ==
  ASSUME NEW s \in Seq(Nat), NEW t \in Seq(Nat), NEW n \in Nat
  PROVE  s \o Append(t, n) = Append(s \o t, n)
<1>1. /\ <<n>> \in Seq(Nat) /\ Append(t, n) = t \o <<n>> /\ s \o t \in Seq(Nat)
      /\ Append(s \o t, n) = (s \o t) \o <<n>>
  BY AppendIsConcat, ConcatProperties
<1> QED
  BY <1>1, ConcatAssociative

LEMMA HeadMoves ==
  ASSUME NEW s \in Seq(Nat), NEW t \in Seq(Nat), t # <<>>
  PROVE  Append(s, Head(t)) \o Tail(t) = s \o t
<1>1. /\ Head(t) \in Nat /\ Tail(t) \in Seq(Nat) /\ <<Head(t)>> \in Seq(Nat)
      /\ Append(s, Head(t)) = s \o <<Head(t)>>
  BY HeadTailProperties, AppendIsConcat
<1>2. <<Head(t)>> \o Tail(t) = t
  BY <1>1, HeadTailProperties, HeadTailAppend
<1>3. (s \o <<Head(t)>>) \o Tail(t) = s \o (<<Head(t)>> \o Tail(t))
  BY <1>1, ConcatAssociative
<1> QED
  BY <1>1, <1>2, <1>3, Zenon

\* A frame is written: an event is the next of the chain.
LEMMA Appended ==
  ASSUME TypeOK, NEW m \in Messages, toClient' = Append(toClient, m), UNCHANGED <<taken, events>>,
         written' = IF m.kind = "event" THEN Append(written, m.n) ELSE written
  PROVE  (Prefix => Prefix') /\ (Flowing => Flowing')
<1> DEFINE L == Len(toClient)
           W == Len(written)
<1>1. /\ written \in Seq(Nat) /\ toClient \in Seq(Messages) /\ L \in Nat /\ W \in Nat
      /\ Len(Seen) \in Nat /\ m.n \in Nat /\ Seen' = Seen
  BY Sequences DEF Messages, Seen
<1>2. /\ Len(toClient') = L + 1 /\ toClient'[L + 1] = m
      /\ \A i \in 1 .. L : toClient'[i] = toClient[i]
  BY <1>1, AppendProperties
<1>3. /\ \A i \in 1 .. W : written'[i] = written[i]
      /\ m.kind = "event" => Len(written') = W + 1 /\ written'[W + 1] = m.n
      /\ m.kind # "event" => Len(written') = W
  BY <1>1, AppendProperties
<1>4. Prefix => Prefix'
  BY <1>1, <1>3 DEF Prefix
<1>5. ASSUME Flowing PROVE Flowing'
  <2>1. PICK at \in [0 .. L -> 0 .. W] : Chain(at, Seen, toClient, written)
    BY <1>5 DEF Flowing
  <2> DEFINE next == [i \in 0 .. L + 1 |-> IF i = L + 1 THEN Len(written') ELSE at[i]]
  <2>2. next \in [0 .. Len(toClient') -> 0 .. Len(written')]
    BY <1>1, <1>2, <1>3, <2>1
  <2>3. next[0] = Len(Seen') /\ next[Len(toClient')] = Len(written')
    BY <1>1, <1>2, <2>1 DEF Chain
  <2>4. ASSUME NEW i \in 1 .. L + 1
        PROVE  IF toClient'[i].kind = "event"
               THEN next[i] = next[i - 1] + 1 /\ written'[next[i]] = toClient'[i].n
               ELSE next[i] = next[i - 1]
    <3>1. CASE i = L + 1
      <4>1. next[i] = Len(written') /\ next[i - 1] = W
        BY <1>1, <2>1, <3>1 DEF Chain
      <4> QED
        BY <1>1, <1>2, <1>3, <3>1, <4>1
    <3>2. CASE i # L + 1
      <4>0. i \in 1 .. L /\ i \in 0 .. L + 1 /\ i - 1 \in 0 .. L + 1 /\ i - 1 # L + 1 /\ i - 1 \in 0 .. L
        BY <1>1, <3>2
      <4>1. i \in 1 .. L /\ next[i] = at[i] /\ next[i - 1] = at[i - 1] /\ toClient'[i] = toClient[i]
        BY <1>2, <3>2, <4>0
      <4>4. i \in 0 .. L /\ i - 1 \in 0 .. L
        BY <1>1, <4>0
      <4>2. at[i] \in 0 .. W /\ at[i - 1] \in 0 .. W
        BY <2>1, <4>4
      <4>3. toClient[i].kind = "event" => at[i] \in 1 .. W
        BY <1>1, <2>1, <4>1, <4>2 DEF Chain
      <4> QED
        BY <1>3, <2>1, <4>1, <4>3 DEF Chain
    <3> QED
      BY <3>1, <3>2
  <2> HIDE DEF next
  <2>5. Chain(next, Seen', toClient', written')
    BY <1>2, <2>3, <2>4 DEF Chain
  <2> QED
    BY <2>2, <2>5 DEF Flowing
<1> QED
  BY <1>4, <1>5

\* The client takes a frame from the wire; an event must go to the channel.
LEMMA Taken ==
  ASSUME TypeOK, Prefix, Flowing, toClient # <<>>, toClient' = Tail(toClient), UNCHANGED written,
         IF Head(toClient).kind = "event" THEN Seen' = Append(Seen, Head(toClient).n)
                                          ELSE Seen' = Seen
  PROVE  Prefix' /\ Flowing'
<1> DEFINE L == Len(toClient)
           W == Len(written)
           S == Len(Seen)
<1>1. /\ written \in Seq(Nat) /\ toClient \in Seq(Messages) /\ Seen \in Seq(Nat)
      /\ L \in Nat \ {0} /\ W \in Nat /\ S \in Nat
  BY Sequences, EmptySeq
<1>2. /\ Head(toClient) = toClient[1] /\ Len(toClient') = L - 1
      /\ \A i \in 1 .. L - 1 : toClient'[i] = toClient[i + 1]
  BY <1>1, HeadTailProperties
<1>3. toClient[1] \in Messages /\ toClient[1].n \in Nat
  <2>1. 1 \in 1 .. Len(toClient)
    BY <1>1
  <2>2. toClient[1] \in Messages
    BY <1>1, <2>1, ElementOfSeq
  <2> QED
    BY <2>2 DEF Messages
<1>4. PICK at \in [0 .. L -> 0 .. W] : Chain(at, Seen, toClient, written)
  BY DEF Flowing
<1>5. at[0] \in 0 .. W /\ at[1] \in 0 .. W
  <2>1. 0 \in 0 .. L /\ 1 \in 0 .. L
    BY <1>1
  <2> QED
    BY <1>4, <2>1
<1>6. IF toClient[1].kind = "event" THEN at[1] = S + 1 /\ written[S + 1] = toClient[1].n
                                    ELSE at[1] = S
  BY <1>1, <1>4 DEF Chain
<1>7. /\ Len(Seen') = at[1] /\ \A i \in 1 .. S : Seen'[i] = Seen[i]
      /\ toClient[1].kind = "event" => Seen'[S + 1] = toClient[1].n
  <2>1. CASE toClient[1].kind = "event"
    <3>1. Seen' = Append(Seen, toClient[1].n)
      BY <1>2, <2>1
    <3>2. /\ Len(Append(Seen, toClient[1].n)) = S + 1
          /\ \A i \in 1 .. S : Append(Seen, toClient[1].n)[i] = Seen[i]
          /\ Append(Seen, toClient[1].n)[S + 1] = toClient[1].n
      BY <1>1, <1>3, AppendProperties
    <3> QED
      BY <1>6, <2>1, <3>1, <3>2
  <2>2. CASE toClient[1].kind # "event"
    BY <1>2, <1>6, <2>2
  <2> QED
    BY <2>1, <2>2
<1>8. Prefix'
  BY <1>1, <1>5, <1>6, <1>7 DEF Prefix
<1> DEFINE next == [i \in 0 .. L - 1 |-> at[i + 1]]
<1>9. next \in [0 .. Len(toClient') -> 0 .. Len(written')]
  BY <1>1, <1>2, <1>4
<1>10. next[0] = Len(Seen') /\ next[L - 1] = W
  BY <1>1, <1>4, <1>7 DEF Chain
<1>11. \A i \in 1 .. L - 1 :
         IF toClient[i + 1].kind = "event"
         THEN next[i] = next[i - 1] + 1 /\ written[next[i]] = toClient[i + 1].n
         ELSE next[i] = next[i - 1]
  <2> TAKE i \in 1 .. L - 1
  <2>1. i + 1 \in 1 .. L /\ next[i] = at[i + 1] /\ next[i - 1] = at[i] /\ (i + 1) - 1 = i
    BY <1>1
  <2> QED
    BY <1>4, <2>1 DEF Chain
<1> HIDE DEF next
<1>12. Chain(next, Seen', toClient', written')
  BY <1>2, <1>10, <1>11 DEF Chain
<1> QED
  BY <1>8, <1>9, <1>12 DEF Flowing

\* Every step keeps the chain, or is the client's last look at the wire.
LEMMA EventsStep ==
  ASSUME IInv, EventsOK, [Next]_vars
  PROVE  EventsOK'
<1> USE DEF shared, threads, socket, daemon, history
<1>0. TypeOK /\ (conn = "wait" => reader = "none")
  BY DEF IInv, CleanupOK
<1>1. CASE /\ UNCHANGED <<taken, events, written, toClient>>
           /\ conn' = "wait" \/ reader' \in {"read", "hand"} => conn = "wait" \/ reader \in {"read", "hand"}
  BY <1>1 DEF EventsOK, Prefix, Flowing, Chain, Seen
<1>2. ASSUME NEW m \in Messages, toClient' = Append(toClient, m), UNCHANGED <<taken, events, conn, reader>>,
             written' = IF m.kind = "event" THEN Append(written, m.n) ELSE written
      PROVE  EventsOK'
  BY <1>0, <1>2, Appended DEF EventsOK
<1>3. CASE ReadHello
  <2>1. Msg("reject", 0) \in Messages /\ Msg("reject", 0).kind # "event"
    BY DEF Msg, Messages, Kinds
  <2>2. CASE hello = Version
    BY <1>1, <1>3, <2>2 DEF ReadHello
  <2>3. CASE hello # Version
    BY <1>2, <1>3, <2>1, <2>3 DEF ReadHello
  <2> QED
    BY <2>2, <2>3
<1>4. CASE WriteFrame
  <2>1. queue \in Seq(Messages) /\ queue # <<>>
    BY <1>0, <1>4 DEF WriteFrame, TypeOK, DaemonType
  <2>2. Head(queue) \in Messages
    BY <2>1, HeadTailProperties
  <2>3. CASE shut
    BY <1>1, <1>4, <2>3 DEF WriteFrame
  <2>4. CASE ~shut
    BY <1>2, <1>4, <2>2, <2>4 DEF WriteFrame
  <2> QED
    BY <2>3, <2>4
<1>5. CASE FirstMessage
  <2>1. /\ conn = "wait" /\ toClient # <<>> /\ toClient' = Tail(toClient)
        /\ UNCHANGED <<taken, events, written>> /\ Flowing /\ Prefix /\ Seen' = Seen
    BY <1>5 DEF FirstMessage, EventsOK, Seen
  <2>2. CASE Head(toClient).kind = "ack"
    BY <1>0, <2>1, <2>2, Taken DEF EventsOK
  <2>3. CASE Head(toClient).kind # "ack"
    <3>1. conn' # "wait" /\ reader' = "none"
      BY <1>0, <1>5, <2>1, <2>3 DEF FirstMessage
    <3> QED
      BY <2>1, <3>1 DEF EventsOK, Prefix
  <2> QED
    BY <2>2, <2>3
<1>6. CASE RouteResponse
  <2>1. /\ toClient # <<>> /\ toClient' = Tail(toClient) /\ Head(toClient).kind = "resp"
        /\ UNCHANGED <<taken, events, written>> /\ Flowing /\ Prefix /\ Seen' = Seen
    BY <1>6 DEF RouteResponse, EventsOK, Seen
  <2> QED
    BY <1>0, <2>1, Taken DEF EventsOK
<1>7. CASE RouteEvent
  <2>1. /\ toClient # <<>> /\ toClient' = Tail(toClient) /\ Head(toClient).kind = "event"
        /\ UNCHANGED <<taken, written, conn>> /\ Flowing /\ Prefix /\ conn # "wait"
    BY <1>0, <1>7 DEF RouteEvent, EventsOK
  <2>2. CASE events' = Append(events, Head(toClient).n)
    <3>0. toClient \in Seq(Messages) /\ taken \in Seq(Nat) /\ events \in Seq(Nat)
      BY <1>0, Sequences
    <3>3. Head(toClient) \in Messages
      BY <2>1, <3>0, HeadTailProperties
    <3>1. Head(toClient).n \in Nat
      BY <3>3 DEF Messages
    <3>2. Seen' = Append(Seen, Head(toClient).n)
      BY <2>1, <2>2, <3>0, <3>1, AppendOfConcat DEF Seen
    <3> QED
      BY <1>0, <2>1, <3>2, Taken DEF EventsOK
  <2>3. CASE UNCHANGED events /\ reader' = "store"
    BY <2>1, <2>3 DEF EventsOK, Prefix, Seen
  <2> QED
    BY <1>7, <2>2, <2>3 DEF RouteEvent
<1>8. CASE TakeEvent
  <2>1. /\ events # <<>> /\ taken' = Append(taken, Head(events)) /\ events' = Tail(events)
        /\ UNCHANGED <<written, toClient, conn, reader>>
    BY <1>8 DEF TakeEvent
  <2>2. Seen' = Seen
    <3>1. taken \in Seq(Nat) /\ events \in Seq(Nat)
      BY <1>0, Sequences
    <3> QED
      BY <2>1, <3>1, HeadMoves DEF Seen
  <2> QED
    BY <2>1, <2>2 DEF EventsOK, Prefix, Flowing, Chain
<1>9. CASE HandshakeLost \/ RouteResponse \/ HandOver \/ ReaderEof \/ ReaderDisconnects \/ UNCHANGED vars
           \/ DropClient \/ DropDisconnects \/ DropJoins
  BY <1>1, <1>6, <1>9
     DEF HandshakeLost, HandOver, ReaderEof, ReaderDisconnects, DisconnectStep, Places, vars,
         DropClient, DropDisconnects, DropJoins
<1>10. ASSUME NEW c \in Callers, CallerStep(c) PROVE EventsOK'
  BY <1>1, <1>10
     DEF CallerStep, StartRequest, InsertWaiter, Recheck, SendMessage, Receive, Timeout, Return
<1>11. CASE DaemonStep
  BY <1>1, <1>3, <1>4, <1>11
     DEF DaemonStep, Register, SendAck, Broadcast, StopDaemon, WriterEnds, ReadRequest, ReadEof,
         Finish, CloseConnection, DaemonExit
<1> QED
  BY <1>5, <1>7, <1>8, <1>9, <1>10, <1>11 DEF Next, ReaderStep

(***************************************************************************)
(* For any bounds of the event channel, the queue and the socket, the      *)
(* consumer sees the events the daemon wrote in order and without a hole:  *)
(* a reader that cannot pass one on reads no more (ipc.rs route_message).  *)
(***************************************************************************)
THEOREM EventsArriveInOrder == Spec => []NoEventSkipped
<1>1. Init => EventsOK
  <2> SUFFICES ASSUME Init PROVE EventsOK
    OBVIOUS
  <2>1. taken = <<>> /\ events = <<>> /\ written = <<>> /\ toClient = <<>> /\ Seen = <<>>
    BY ConcatEmptySeq, EmptySeq DEF Init, Seen
  <2>2. Len(<<>>) = 0
    BY EmptySeq
  <2>3. Chain([i \in 0 .. 0 |-> 0], Seen, toClient, written)
    BY <2>1, <2>2 DEF Chain
  <2>4. [i \in 0 .. 0 |-> 0] \in [0 .. Len(toClient) -> 0 .. Len(written)]
    BY <2>1, <2>2
  <2> QED
    BY <2>1, <2>2, <2>3, <2>4 DEF EventsOK, Prefix, Flowing
<1>2. IInv /\ EventsOK => NoEventSkipped
  <2> SUFFICES ASSUME TypeOK, Prefix PROVE NoEventSkipped
    BY DEF IInv, EventsOK
  <2>0. /\ written \in Seq(Nat) /\ Len(Seen) \in Nat /\ Len(Seen) <= Len(written)
        /\ \A i \in 1 .. Len(Seen) : written[i] = Seen[i]
    BY Sequences DEF Prefix
  <2>1. /\ SubSeq(written, 1, Len(Seen)) \in Seq(Nat) /\ Len(SubSeq(written, 1, Len(Seen))) = Len(Seen)
        /\ \A i \in 1 .. Len(Seen) : SubSeq(written, 1, Len(Seen))[i] = Seen[i]
    <3> DEFINE n == Len(Seen)
    <3>1. n \in Nat /\ n <= Len(written) /\ \A i \in 1 .. n : written[i] = Seen[i]
      BY <2>0
    <3> HIDE DEF n
    <3>2. /\ SubSeq(written, 1, n) \in Seq(Nat) /\ Len(SubSeq(written, 1, n)) = n
          /\ \A i \in 1 .. n : SubSeq(written, 1, n)[i] = written[i]
      BY <2>0, <3>1
    <3> QED
      BY <3>1, <3>2 DEF n
  <2>2. SubSeq(written, 1, Len(Seen)) = Seen
    BY <2>1, SeqEqual, Sequences
  <2> QED
    BY <2>2 DEF NoEventSkipped, Prefix, Seen
<1> QED
  BY <1>1, <1>2, EventsStep, ConnectionInvariant, PTL DEF Spec
=============================================================================
