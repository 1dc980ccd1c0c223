------------------------ MODULE TerminalStreamProofs ------------------------
(***************************************************************************)
(* Proofs about TerminalStream for every set of clients, every set of      *)
(* sizes and every capacity: its types, the room it keeps for responses,   *)
(* the replicas of its clients, which agree with the engine and never go   *)
(* back, and the chain of deltas on its way to each of them.               *)
(***************************************************************************)
EXTENDS TerminalStream, TLAPS

\* A screen size is a positive number and its rows are rows.
LEMMA SizeRows ==
  ASSUME NEW n \in Sizes
  PROVE  n \in Nat /\ n > 0 /\ 1..n \subseteq Row /\ Row \subseteq Nat \ {0}
  BY SizesAssumption DEF Row

\* Every item the model builds is an item.
LEMMA ItemTypes ==
  /\ \A k \in Kinds, n \in Nat, rows \in Patches : Item(k, n, rows) \in Items
  /\ Nil \in Items /\ Note \in Items /\ Ok \in Items /\ Err \in Items
  /\ NoReq \in Requests
<1>1. NoRows \in Patches  BY DEF NoRows, Patches, Absent
<1>2. \A k \in Kinds, n \in Nat, rows \in Patches : Item(k, n, rows) \in Items
  BY DEF Item, Items
<1>3. Nil \in Items /\ Note \in Items /\ Ok \in Items /\ Err \in Items
  BY <1>1, <1>2 DEF Nil, Note, Ok, Err, Kinds
<1>. QED  BY <1>2, <1>3 DEF NoReq, Request, Requests, Ops

\* What a delta and a painted or written screen carry are rows.
LEMMA PatchTypes ==
  /\ \A n \in Nat, s \in Patches : \A D : Delta(n, s, D) \in Items
  /\ \A n \in Nat, s \in Patches : Snapshot("resync", n, s) \in Items
  /\ \A n \in Nat, s \in Patches : Snapshot("ack", n, s) \in Items
  /\ \A n, v \in Nat : Painted(n, v) \in Patches
<1>1. \A s \in Patches : \A D : [r \in Row |-> IF r \in D THEN s[r] ELSE Absent] \in Patches
  BY DEF Patches, Absent
<1>2. \A n, v \in Nat : Painted(n, v) \in Patches
  BY DEF Painted, Patches, Absent
<1>. QED  BY <1>1, <1>2, ItemTypes DEF Delta, Snapshot, Kinds

\* What a replica becomes is an item.
LEMMA ReplicaTypes ==
  ASSUME NEW g \in Items, NEW e \in Items
  PROVE  Patched(g, e) \in Items /\ FromSnapshot(e) \in Items /\ apply_event(g, e) \in Items
<1>1. g.rows \in Patches /\ e.rows \in Patches /\ e.seq \in Nat  BY DEF Items
<1>2. [r \in Row |-> IF r \in Present(e.rows) THEN e.rows[r] ELSE g.rows[r]] \in Patches
  BY <1>1 DEF Patches
<1>3. Patched(g, e) \in Items /\ FromSnapshot(e) \in Items
  BY <1>1, <1>2, ItemTypes DEF Patched, FromSnapshot, Kinds
<1>. QED  BY <1>3 DEF apply_event

-----------------------------------------------------------------------------
(***************************************************************************)
(* Type correctness.                                                       *)
(***************************************************************************)

\* The engine's rows stay rows when it is resized.
LEMMA ResizeTypes ==
  ASSUME RuntimeType, NEW n \in Sizes, ResizeEngine(n),
         UNCHANGED <<live, syncing, pending, seq>>
  PROVE  RuntimeType'
<1>1. n \in Nat /\ clock + 1 \in Nat  BY SizeRows DEF RuntimeType
<1>2. Painted(n, clock + 1) \in Patches  BY <1>1, PatchTypes
<1>. QED  BY <1>1, <1>2 DEF RuntimeType, ResizeEngine

\* Answering and sending keep the requests well formed.
LEMMA RequestTypes ==
  ASSUME ServerType, NEW c \in Clients
  PROVE  /\ \A op \in Ops, b \in BOOLEAN, m \in Items :
              /\ Request(op, "sent", b, m) \in Requests
              /\ Request(op, "counted", b, m) \in Requests
              /\ Request(op, "respond", b, m) \in Requests
         /\ NoReq \in Requests
         /\ req[c] \in Requests /\ req[c].resp \in Items
  BY ItemTypes DEF Request, Requests, ServerType

\* Recovering a client keeps the registry well formed.
LEMMA RecoverTypes ==
  ASSUME TypeOK, NEW c \in Clients, recover(c), UNCHANGED <<registered, subs, attaching>>
  PROVE  RegistryType'
<1>1. RecoveryEvent(c) \in Items
  BY PatchTypes, ItemTypes DEF RecoveryEvent, TypeOK, RuntimeType, RegistryType
<1>2. Nil \in Items  BY ItemTypes
<1>3. CASE c \in registered /\ c \in behind /\ Drained(c)
  <2>0. Append(out[c], RecoveryEvent(c)) \in Seq(Items)
    BY <1>1 DEF TypeOK, RegistryType
  <2>1. out' \in [Clients -> Seq(Items)]
    BY <1>1, <1>3, <2>0 DEF recover, TypeOK, RegistryType
  <2>2. behind' \subseteq Clients /\ finished' \in [Clients -> Items]
    BY <1>1, <1>2, <1>3 DEF recover, TypeOK, RegistryType
  <2>. QED  BY <2>1, <2>2 DEF TypeOK, RegistryType
<1>4. CASE ~ (c \in registered /\ c \in behind /\ Drained(c))
  BY <1>4 DEF recover, TypeOK, RegistryType
<1>. QED  BY <1>3, <1>4

\* Ending a connection on the client's side keeps its types.
LEMMA DisconnectTypes ==
  ASSUME TypeOK, NEW c \in Clients, Disconnect(c), UNCHANGED window,
         UNCHANGED <<registered, subs, behind, attaching, finished>>
  PROVE  RegistryType' /\ ClientType'
<1>1. Nil \in Items /\ <<>> \in Seq(Items)  BY ItemTypes
<1>2. RegistryType'  BY <1>1 DEF Disconnect, TypeOK, RegistryType
<1>3. ClientType'  BY <1>1 DEF Disconnect, TypeOK, ClientType, Ops
<1>. QED  BY <1>2, <1>3

\* A step that leaves a group of variables alone leaves its type alone.
LEMMA UnchangedTypes ==
  /\ RuntimeType /\ UNCHANGED runtime => RuntimeType'
  /\ ThreadType /\ UNCHANGED thread => ThreadType'
  /\ RegistryType /\ UNCHANGED registry => RegistryType'
  /\ ServerType /\ UNCHANGED server => ServerType'
  /\ ClientType /\ UNCHANGED client => ClientType'
  /\ HistoryType /\ UNCHANGED history => HistoryType'
<1>1. RuntimeType /\ UNCHANGED runtime => RuntimeType'  BY DEF RuntimeType, runtime
<1>2. ThreadType /\ UNCHANGED thread => ThreadType'  BY DEF ThreadType, thread
<1>3. RegistryType /\ UNCHANGED registry => RegistryType'  BY DEF RegistryType, registry
<1>4. ServerType /\ UNCHANGED server => ServerType'  BY DEF ServerType, server
<1>5. ClientType /\ UNCHANGED client => ClientType'  BY DEF ClientType, client
<1>6. HistoryType /\ UNCHANGED history => HistoryType'  BY DEF HistoryType, history
<1>. QED  BY <1>1, <1>2, <1>3, <1>4, <1>5, <1>6

\* The initial state is well typed.
LEMMA InitTypes == Init => TypeOK
<1>. SUFFICES ASSUME Init PROVE TypeOK  OBVIOUS
<1>. USE DEF Init
<1>1. RuntimeType
  <2>1. size \in Nat /\ size \in Sizes  BY SizeRows
  <2>. QED  BY <2>1, PatchTypes DEF RuntimeType
<1>2. ThreadType  BY DEF ThreadType
<1>3. RegistryType  BY ItemTypes DEF RegistryType
<1>4. ServerType  BY ItemTypes DEF ServerType
<1>5. ClientType  BY ItemTypes DEF ClientType, Ops
<1>6. HistoryType  BY DEF HistoryType
<1>. QED  BY <1>1, <1>2, <1>3, <1>4, <1>5, <1>6 DEF TypeOK

\* The PTY thread's steps are well typed.
LEMMA PtyTypes == TypeOK /\ PtyStep => TypeOK'
<1>. SUFFICES ASSUME TypeOK, PtyStep PROVE TypeOK'  OBVIOUS
<1>. USE DEF TypeOK
<1>1. ASSUME NEW why \in {"data", "wake", "eof"}, PtyRead(why) PROVE TypeOK'
  <2>1. ThreadType'  BY <1>1 DEF PtyRead, ThreadType
  <2>. QED  BY <1>1, <2>1, UnchangedTypes DEF PtyRead
<1>2. CASE PumpSubscribed
  <2>1. ThreadType'  BY <1>2 DEF PumpSubscribed, ThreadType
  <2>. QED  BY <1>2, <2>1, UnchangedTypes DEF PumpSubscribed
<1>3. ASSUME NEW V \in SUBSET Row, NEW open \in BOOLEAN, NEW due \in BOOLEAN,
             PumpFeed(V, open, due)
      PROVE  TypeOK'
  <2>1. V \subseteq 1..size  BY <1>3 DEF PumpFeed, FeedOutcome
  <2>2. Written(V) \in Patches /\ clock + 1 \in Nat /\ seq + 1 \in Nat
    BY DEF Written, RuntimeType, Patches
  <2>3. RuntimeType'
    BY <1>3, <2>1, <2>2 DEF PumpFeed, RuntimeType
  <2>4. ThreadType'  BY <1>3 DEF PumpFeed, ThreadType
  <2>5. RegistryType' /\ HistoryType'
    <3>1. CASE EmitNow(pending \/ V # {}, due)
      <4>. DEFINE d == Delta(seq + 1, Written(V), damage \cup V)
                  r == Snapshot("resync", seq + 1, Written(V))
      <4>1. d \in Items /\ r \in Items  BY <2>2, PatchTypes
      <4>2. route_terminal_delta(d, r)  BY <1>3, <3>1 DEF PumpFeed
      <4>. HIDE DEF d, r
      <4>3. out' \in [Clients -> Seq(Items)]
        BY <4>1, <4>2 DEF route_terminal_delta, RegistryType
      <4>4. behind' \subseteq Clients
        BY <4>2 DEF route_terminal_delta, RegistryType
      <4>5. attaching' \in [Clients -> {"no", "clean", "missed"}]
        BY <4>2 DEF route_terminal_delta, RegistryType
      <4>6. RegistryType'  BY <1>3, <4>3, <4>4, <4>5 DEF PumpFeed, RegistryType
      <4>7. damage \cup V \in SUBSET Row
        BY SizeRows DEF RuntimeType
      <4>8. emitted' = Append(emitted, [rows |-> damage \cup V, screen |-> Written(V)])
        BY <1>3, <3>1 DEF PumpFeed
      <4>9. [rows |-> damage \cup V, screen |-> Written(V)]
               \in [rows : SUBSET Row, screen : Patches]
        BY <2>2, <4>7
      <4>10. notes' = notes /\ commands' = commands  BY <1>3 DEF PumpFeed
      <4>11. HistoryType'  BY <4>8, <4>9, <4>10 DEF HistoryType
      <4>. QED  BY <4>6, <4>11
    <3>2. CASE ~ EmitNow(pending \/ V # {}, due)
      BY <1>3, <3>2 DEF PumpFeed, RegistryType, HistoryType
    <3>. QED  BY <3>1, <3>2
  <2>6. ServerType' /\ ClientType'  BY <1>3, UnchangedTypes DEF PumpFeed
  <2>. QED  BY <2>3, <2>4, <2>5, <2>6
<1>4. CASE TerminalExited
  <2>1. RuntimeType'  BY <1>4 DEF TerminalExited, RuntimeType
  <2>2. ThreadType'  BY <1>4 DEF TerminalExited, ThreadType
  <2>3. Snapshot("resync", seq, screen) \in Items  BY PatchTypes DEF RuntimeType
  <2>4. RegistryType'
    BY <1>4, <2>3 DEF TerminalExited, finish_terminal, RegistryType
  <2>. QED  BY <1>4, <2>1, <2>2, <2>4, UnchangedTypes DEF TerminalExited
<1>. QED  BY <1>1, <1>2, <1>3, <1>4 DEF PtyStep

\* A handler that drops a subscription keeps the registry well formed.
LEMMA UnsubscribeTypes ==
  ASSUME RegistryType, NEW c \in Clients, unsubscribe(c)
  PROVE  registered' \subseteq Clients /\ out' \in [Clients -> Seq(Items)] => RegistryType'
  BY ItemTypes DEF RegistryType, unsubscribe

\* The handlers' steps are well typed.
LEMMA HandlerTypes == \A c \in Clients : TypeOK /\ HandlerStep(c) => TypeOK'
<1>. SUFFICES ASSUME NEW c \in Clients, TypeOK, HandlerStep(c) PROVE TypeOK'  OBVIOUS
<1>. USE DEF TypeOK
<1>0. /\ Nil \in Items /\ Ok \in Items /\ Err \in Items
      /\ window[c] \in Sizes /\ "none" \in Ops /\ "attach" \in Ops
  BY ItemTypes DEF ClientType, Ops
<1>1. CASE AttachCount(c)
  <2>1. ServerType'  BY <1>0, <1>1, RequestTypes DEF AttachCount, ServerType
  <2>. QED  BY <1>1, <2>1, UnchangedTypes DEF AttachCount
<1>2. CASE AttachSnapshot(c)
  <2>1. RuntimeType'
    <3>1. CASE live /\ ~ req[c].shared
      BY <1>0, <1>2, <3>1, ResizeTypes DEF AttachSnapshot
    <3>2. CASE ~ live \/ req[c].shared
      BY <1>2, <3>2 DEF AttachSnapshot, RuntimeType
    <3>. QED  BY <3>1, <3>2
  <2>2. Snapshot("ack", seq, screen') \in Items
    BY <2>1, PatchTypes DEF RuntimeType
  <2>3. ServerType'
    BY <1>0, <1>2, <2>2, RequestTypes DEF AttachSnapshot, Answer, ServerType
  <2>4. RegistryType'
    BY <1>2 DEF AttachSnapshot, begin_attach, RegistryType
  <2>. QED  BY <1>2, <2>1, <2>3, <2>4, UnchangedTypes DEF AttachSnapshot
<1>3. CASE ResizeTerminal(c)
  <2>1. RuntimeType'
    <3>1. CASE ResizeEngine(window[c])
      BY <1>0, <1>3, <3>1, ResizeTypes DEF ResizeTerminal
    <3>2. CASE UNCHANGED <<size, screen, damage, clock>>
      BY <1>3, <3>2 DEF ResizeTerminal, RuntimeType
    <3>. QED  BY <1>3, <3>1, <3>2 DEF ResizeTerminal
  <2>2. ServerType'
    BY <1>0, <1>3, RequestTypes DEF ResizeTerminal, Answer, ServerType
  <2>. QED  BY <1>3, <2>1, <2>2, UnchangedTypes DEF ResizeTerminal
<1>4. CASE DetachTerminal(c)
  <2>1. ServerType'
    BY <1>0, <1>4, RequestTypes DEF DetachTerminal, Answer, ServerType
  <2>2. RegistryType'
    BY <1>4, UnsubscribeTypes DEF DetachTerminal, RegistryType
  <2>. QED  BY <1>4, <2>1, <2>2, UnchangedTypes DEF DetachTerminal
<1>5. CASE Respond(c)
  <2>1. req[c].resp \in Items /\ NoReq \in Requests  BY RequestTypes
  <2>2. CASE c \in registered /\ ~ Full(c)
    <3>1. Append(out[c], req[c].resp) \in Seq(Items)  BY <2>1 DEF RegistryType
    <3>2. RegistryType'  BY <1>5, <2>2, <3>1 DEF Respond, RegistryType
    <3>4. finishing[c] + 1 \in Nat /\ finishing[c] \in Nat  BY DEF ServerType
    <3>5. finishing' \in [Clients -> Nat]
      BY <1>5, <2>2, <3>4 DEF Respond, ServerType
    <3>3. ServerType'  BY <1>5, <2>1, <3>5 DEF Respond, ServerType
    <3>. QED  BY <1>5, <3>2, <3>3, UnchangedTypes DEF Respond
  <2>3. CASE ~ (c \in registered /\ ~ Full(c))
    <3>1. registered' \subseteq Clients /\ out' \in [Clients -> Seq(Items)]
      BY <1>5, <2>3 DEF Respond, unregister, RegistryType
    <3>2. RegistryType'
      BY <1>5, <2>3, <3>1, UnsubscribeTypes DEF Respond, unregister
    <3>3. ServerType'  BY <1>5, <2>1, <2>3 DEF Respond, ServerType
    <3>. QED  BY <1>5, <3>2, <3>3, UnchangedTypes DEF Respond
  <2>. QED  BY <2>2, <2>3
<1>6. CASE FinishAttach(c)
  <2>1. RegistryType'  BY <1>6 DEF FinishAttach, RegistryType
  <2>2. ServerType'  BY <1>6 DEF FinishAttach, ServerType
  <2>. QED  BY <1>6, <2>1, <2>2, UnchangedTypes DEF FinishAttach
<1>7. CASE RecoverOwed(c)
  <2>1. RegistryType'  BY <1>7, RecoverTypes DEF RecoverOwed
  <2>2. ServerType'  BY <1>7 DEF RecoverOwed, ServerType
  <2>. QED  BY <1>7, <2>1, <2>2, UnchangedTypes DEF RecoverOwed
<1>. QED  BY <1>1, <1>2, <1>3, <1>4, <1>5, <1>6, <1>7 DEF HandlerStep

\* The connection's steps are well typed.
LEMMA ConnectionTypes == \A c \in Clients : TypeOK /\ ConnectionStep(c) => TypeOK'
<1>. SUFFICES ASSUME NEW c \in Clients, TypeOK, ConnectionStep(c) PROVE TypeOK'  OBVIOUS
<1>. USE DEF TypeOK
<1>1. CASE Deliver(c)
  <2>1. Head(out[c]) \in Items /\ Tail(out[c]) \in Seq(Items)
    BY <1>1 DEF Deliver, RegistryType
  <2>2. ServerType'  BY <1>1 DEF Deliver, ServerType
  <2>3. RegistryType' /\ ClientType'
    <3>1. CASE Head(out[c]).kind \in Responses
      <4>1. RegistryType'  BY <1>1, <2>1, <3>1 DEF Deliver, RegistryType
      <4>2. ClientType'  BY <1>1, <2>1, <3>1 DEF Deliver, ClientType
      <4>. QED  BY <4>1, <4>2
    <3>2. CASE Head(out[c]).kind \notin Responses /\ Len(evq[c]) < EventCap
      <4>1. RegistryType'  BY <1>1, <2>1, <3>2 DEF Deliver, RegistryType
      <4>2. Append(evq[c], Head(out[c])) \in Seq(Items)  BY <2>1 DEF ClientType
      <4>3. ClientType'  BY <1>1, <4>2, <3>2 DEF Deliver, ClientType
      <4>. QED  BY <4>1, <4>3
    <3>3. CASE Head(out[c]).kind \notin Responses /\ ~ (Len(evq[c]) < EventCap)
      BY <1>1, <3>3, DisconnectTypes DEF Deliver
    <3>. QED  BY <3>1, <3>2, <3>3
  <2>. QED  BY <1>1, <2>2, <2>3, UnchangedTypes DEF Deliver
<1>2. CASE WriterRecover(c)
  <2>1. RegistryType'  BY <1>2, RecoverTypes DEF WriterRecover
  <2>2. ServerType'  BY <1>2 DEF WriterRecover, ServerType
  <2>. QED  BY <1>2, <2>1, <2>2, UnchangedTypes DEF WriterRecover
<1>3. CASE ClientEof(c)
  <2>1. RegistryType' /\ ClientType'  BY <1>3, DisconnectTypes DEF ClientEof
  <2>. QED  BY <1>3, <2>1, UnchangedTypes DEF ClientEof
<1>4. CASE ClientClose(c)
  <2>1. RegistryType' /\ ClientType'  BY <1>4, DisconnectTypes DEF ClientClose
  <2>2. HistoryType'  BY <1>4 DEF ClientClose, UserCommand, HistoryType
  <2>. QED  BY <1>4, <2>1, <2>2, UnchangedTypes DEF ClientClose
<1>5. CASE ServerClose(c)
  <2>1. registered' \subseteq Clients /\ out' \in [Clients -> Seq(Items)]
    BY <1>5 DEF ServerClose, unregister, RegistryType
  <2>2. RegistryType'
    BY <1>5, <2>1, UnsubscribeTypes DEF ServerClose, unregister
  <2>3. ServerType'  BY <1>5 DEF ServerClose, ServerType
  <2>. QED  BY <1>5, <2>2, <2>3, UnchangedTypes DEF ServerClose
<1>6. CASE Connect(c)
  <2>1. RegistryType'  BY <1>6 DEF Connect, RegistryType
  <2>2. ServerType'  BY <1>6 DEF Connect, ServerType
  <2>3. ClientType'  BY <1>6 DEF Connect, ClientType
  <2>4. HistoryType'  BY <1>6 DEF Connect, UserCommand, HistoryType
  <2>. QED  BY <1>6, <2>1, <2>2, <2>3, <2>4, UnchangedTypes DEF Connect
<1>. QED  BY <1>1, <1>2, <1>3, <1>4, <1>5, <1>6 DEF ConnectionStep

\* The client's steps are well typed.
LEMMA ClientTypes == \A c \in Clients : TypeOK /\ ClientStep(c) => TypeOK'
<1>. SUFFICES ASSUME NEW c \in Clients, TypeOK, ClientStep(c) PROVE TypeOK'  OBVIOUS
<1>. USE DEF TypeOK
<1>0. \A op \in Ops : Send(c, op) =>
        req' \in [Clients -> Requests] /\ task' \in [Clients -> Ops]
  <2>1. \A op \in Ops : Request(op, "sent", FALSE, Nil) \in Requests
    BY ItemTypes, RequestTypes
  <2>. QED  BY <2>1 DEF Send, ServerType, ClientType
<1>1. "attach" \in Ops /\ "detach" \in Ops /\ "resize" \in Ops /\ "none" \in Ops
  BY DEF Ops
<1>2. CASE StartAttach(c)
  <2>1. ServerType' /\ ClientType' /\ HistoryType'
    BY <1>0, <1>1, <1>2 DEF StartAttach, UserCommand, ServerType, ClientType, HistoryType
  <2>. QED  BY <1>2, <2>1, UnchangedTypes DEF StartAttach
<1>3. CASE StartDetach(c)
  <2>1. ServerType' /\ ClientType' /\ HistoryType'
    BY <1>0, <1>1, <1>3 DEF StartDetach, UserCommand, ServerType, ClientType, HistoryType
  <2>. QED  BY <1>3, <2>1, UnchangedTypes DEF StartDetach
<1>4. ASSUME NEW n \in Sizes, StartResize(c, n) PROVE TypeOK'
  <2>1. ServerType' /\ ClientType' /\ HistoryType'
    BY <1>0, <1>1, <1>4 DEF StartResize, UserCommand, ServerType, ClientType, HistoryType
  <2>. QED  BY <1>4, <2>1, UnchangedTypes DEF StartResize
<1>5. CASE TakeReply(c)
  <2>1. FromSnapshot(reply[c]) \in Items /\ Nil \in Items
    BY ReplicaTypes, ItemTypes DEF ClientType
  <2>2. grid' \in [Clients -> Items] /\ reply' \in [Clients -> Items]
    BY <1>5, <2>1 DEF TakeReply, ClientType
  <2>3. req' \in [Clients -> Requests] /\ task' \in [Clients -> Ops]
    BY <1>0, <1>1, <1>5 DEF TakeReply, ServerType, ClientType
  <2>4. ServerType' /\ ClientType'
    BY <1>5, <2>2, <2>3 DEF TakeReply, ServerType, ClientType
  <2>. QED  BY <1>5, <2>4, UnchangedTypes DEF TakeReply
<1>6. CASE ApplyEvent(c)
  <2>1. Head(evq[c]) \in Items /\ Tail(evq[c]) \in Seq(Items)
    BY <1>6 DEF ApplyEvent, ClientType
  <2>2. apply_event(grid[c], Head(evq[c])) \in Items
    BY <2>1, ReplicaTypes DEF ClientType
  <2>3. grid' \in [Clients -> Items] /\ evq' \in [Clients -> Seq(Items)]
    BY <1>6, <2>1, <2>2 DEF ApplyEvent, ClientType
  <2>4. req' \in [Clients -> Requests] /\ task' \in [Clients -> Ops]
    BY <1>0, <1>1, <1>6 DEF ApplyEvent, ServerType, ClientType
  <2>5. ServerType' /\ ClientType'
    BY <1>6, <2>3, <2>4 DEF ApplyEvent, ServerType, ClientType
  <2>. QED  BY <1>6, <2>5, UnchangedTypes DEF ApplyEvent
<1>. QED  BY <1>2, <1>3, <1>4, <1>5, <1>6 DEF ClientStep

\* Every step is well typed.
LEMMA TypeStep == TypeOK /\ [Next]_vars => TypeOK'
<1>1. TypeOK /\ UNCHANGED vars => TypeOK'
  BY UnchangedTypes DEF TypeOK, vars
<1>2. ASSUME TypeOK, NEW to \in {Clients, Clients \ subs}, BroadcastDomain(to)
      PROVE  TypeOK'
  <2>. USE DEF TypeOK
  <2>1. \A c \in Clients : TrySend(c, Note) \in Seq(Items)
    <3>1. \A c \in Clients : Append(out[c], Note) \in Seq(Items)
      BY <1>2, ItemTypes DEF RegistryType
    <3>. QED  BY <1>2, <3>1 DEF TrySend, RegistryType
  <2>2. RegistryType'  BY <1>2, <2>1 DEF BroadcastDomain, RegistryType
  <2>3. HistoryType'  BY <1>2 DEF BroadcastDomain, HistoryType
  <2>. QED  BY <1>2, <2>2, <2>3, UnchangedTypes DEF BroadcastDomain
<1>3. TypeOK /\ Next => TypeOK'
  BY <1>2, PtyTypes, HandlerTypes, ConnectionTypes, ClientTypes DEF Next
<1>. QED  BY <1>1, <1>3

(***************************************************************************)
(* Every variable keeps its type, whatever the clients, the handlers, the  *)
(* writers and the PTY thread do.                                          *)
(***************************************************************************)
THEOREM TypeCorrect == Spec => []TypeOK
<1>. QED  BY InitTypes, TypeStep, PTL DEF Spec

-----------------------------------------------------------------------------
(***************************************************************************)
(* The reserve above the high-water mark is never taken by terminal        *)
(* output, for every capacity and every pair of water marks the registry   *)
(* may be built with.  Two facts carry it: output is queued only below the *)
(* mark (a recovery only at the low one), and a response is never output.  *)
(***************************************************************************)

\* One queue keeps the reserve.
Reserved(q) == \A i \in 1..Len(q) : q[i].kind \in Output => i <= HighWater

\* No response is an event.
RespPlain == \A c \in Clients : req[c].resp.kind \notin Output

RoomInv == TypeOK /\ RespPlain /\ \A c \in Clients : Reserved(out[c])

\* Appending a response or a note, or output below the mark, and removing the
\* head all keep the reserve.
LEMMA ReservedQueues ==
  ASSUME NEW q \in Seq(Items), NEW m \in Items
  PROVE  /\ Reserved(<<>>)
         /\ Reserved(q) /\ (m.kind \notin Output \/ Len(q) < HighWater) => Reserved(Append(q, m))
         /\ Reserved(q) /\ q # <<>> => Reserved(Tail(q))
<1>1. Reserved(<<>>)  BY DEF Reserved
<1>2. ASSUME Reserved(q), m.kind \notin Output \/ Len(q) < HighWater
      PROVE  Reserved(Append(q, m))
  <2>1. /\ Len(q) \in Nat /\ Len(Append(q, m)) = Len(q) + 1 /\ Append(q, m)[Len(q) + 1] = m
        /\ \A i \in 1..Len(q) : Append(q, m)[i] = q[i]
    OBVIOUS
  <2>2. ASSUME NEW i \in 1..(Len(q) + 1), Append(q, m)[i].kind \in Output
        PROVE  i <= HighWater
    <3>1. CASE i \in 1..Len(q)  BY <1>2, <2>1, <2>2, <3>1 DEF Reserved
    <3>2. CASE i = Len(q) + 1  BY <1>2, <2>1, <2>2, <3>2, WaterMarks
    <3>. QED  BY <2>1, <3>1, <3>2
  <2>. QED  BY <2>1, <2>2 DEF Reserved
<1>3. ASSUME Reserved(q), q # <<>> PROVE Reserved(Tail(q))
  <2>1. /\ Len(q) \in Nat /\ Len(Tail(q)) = Len(q) - 1
        /\ \A i \in 1..Len(Tail(q)) : Tail(q)[i] = q[i + 1]
    BY <1>3
  <2>2. ASSUME NEW i \in 1..(Len(q) - 1), q[i + 1].kind \in Output PROVE i <= HighWater
    <3>1. i + 1 \in 1..Len(q)  BY <2>1
    <3>2. i + 1 <= HighWater  BY <1>3, <2>2, <3>1 DEF Reserved
    <3>. QED  BY <3>2, WaterMarks
  <2>. QED  BY <2>1, <2>2 DEF Reserved
<1>. QED  BY <1>1, <1>2, <1>3

\* A recovery takes a slot at or below the low-water mark.
LEMMA RecoverRoom ==
  ASSUME RoomInv, NEW c \in Clients, recover(c)
  PROVE  \A d \in Clients : Reserved(out'[d])
<1>1. RecoveryEvent(c) \in Items
  BY PatchTypes, ItemTypes DEF RecoveryEvent, RoomInv, TypeOK, RuntimeType, RegistryType
<1>2. out \in [Clients -> Seq(Items)]  BY DEF RoomInv, TypeOK, RegistryType
<1>3. Drained(c) => Reserved(Append(out[c], RecoveryEvent(c)))
  <2>1. Drained(c) => Len(out[c]) < HighWater  BY <1>2, WaterMarks DEF Drained
  <2>. QED  BY <1>1, <1>2, <2>1, ReservedQueues DEF RoomInv
<1>. QED  BY <1>2, <1>3 DEF recover, RoomInv

\* Closing a connection empties its queue.
LEMMA DisconnectRoom ==
  ASSUME RoomInv, NEW c \in Clients, Disconnect(c)
  PROVE  \A d \in Clients : Reserved(out'[d])
<1>1. out \in [Clients -> Seq(Items)] /\ Reserved(<<>>)
  BY DEF RoomInv, TypeOK, RegistryType, Reserved
<1>. QED  BY <1>1 DEF Disconnect, RoomInv

\* Every step keeps the reserve of every queue.
LEMMA RoomStep ==
  ASSUME RoomInv, Next
  PROVE  \A d \in Clients : Reserved(out'[d])
<1>0. /\ out \in [Clients -> Seq(Items)] /\ Reserved(<<>>)
      /\ \A c \in Clients : Reserved(out[c])
      /\ \A c \in Clients : req[c].resp \in Items
  BY DEF RoomInv, TypeOK, RegistryType, ServerType, Requests, Reserved
<1>1. CASE PtyStep
  <2>1. CASE \/ \E why \in {"data", "wake", "eof"} : PtyRead(why)
             \/ PumpSubscribed \/ TerminalExited
    BY <1>0, <2>1 DEF PtyRead, PumpSubscribed, TerminalExited, registry
  <2>2. ASSUME NEW V \in SUBSET Row, NEW open \in BOOLEAN, NEW due \in BOOLEAN,
               PumpFeed(V, open, due)
        PROVE  \A d \in Clients : Reserved(out'[d])
    <3>. DEFINE d == Delta(seq + 1, Written(V), damage \cup V)
                r == Snapshot("resync", seq + 1, Written(V))
    <3>1. d \in Items /\ r \in Items
      <4>1. Written(V) \in Patches /\ seq + 1 \in Nat
        BY DEF Written, RoomInv, TypeOK, RuntimeType, Patches
      <4>. QED  BY <4>1, PatchTypes
    <3>2. UNCHANGED out \/ route_terminal_delta(d, r)
      BY <2>2 DEF PumpFeed
    <3>. HIDE DEF d, r
    <3>3. \A c \in Clients : /\ TakesDelta(c) => Reserved(Append(out[c], d))
                             /\ Drained(c) => Reserved(Append(out[c], r))
      <4>1. \A c \in Clients : Drained(c) => Len(out[c]) < HighWater
        BY <1>0, WaterMarks DEF Drained
      <4>. QED  BY <1>0, <3>1, <4>1, ReservedQueues DEF TakesDelta
    <3>. QED  BY <1>0, <3>2, <3>3 DEF route_terminal_delta
  <2>. QED  BY <1>1, <2>1, <2>2 DEF PtyStep
<1>2. ASSUME NEW to, BroadcastDomain(to) PROVE \A d \in Clients : Reserved(out'[d])
  <2>1. Note \in Items /\ Note.kind \notin Output  BY ItemTypes DEF Note, Item, Output
  <2>2. \A c \in Clients : Reserved(Append(out[c], Note))
    BY <1>0, <2>1, ReservedQueues
  <2>. QED  BY <1>0, <1>2, <2>2 DEF BroadcastDomain, TrySend
<1>3. ASSUME NEW c \in Clients, HandlerStep(c) PROVE \A d \in Clients : Reserved(out'[d])
  <2>1. CASE Respond(c)
    <3>1. Reserved(Append(out[c], req[c].resp))
      BY <1>0, ReservedQueues DEF RoomInv, RespPlain
    <3>. QED  BY <1>0, <2>1, <3>1 DEF Respond
  <2>2. CASE RecoverOwed(c)  BY <2>2, RecoverRoom DEF RecoverOwed
  <2>3. CASE \/ AttachCount(c) \/ AttachSnapshot(c) \/ ResizeTerminal(c)
             \/ DetachTerminal(c) \/ FinishAttach(c)
    BY <1>0, <2>3 DEF AttachCount, AttachSnapshot, ResizeTerminal, DetachTerminal,
                      FinishAttach, registry
  <2>. QED  BY <1>3, <2>1, <2>2, <2>3 DEF HandlerStep
<1>4. ASSUME NEW c \in Clients, ConnectionStep(c) PROVE \A d \in Clients : Reserved(out'[d])
  <2>1. CASE Deliver(c)
    <3>1. Reserved(Tail(out[c]))
      <4>1. out[c] # <<>> /\ out[c] \in Seq(Items)  BY <1>0, <2>1 DEF Deliver
      <4>. QED  BY <1>0, <4>1, ReservedQueues, ItemTypes
    <3>2. out' = [out EXCEPT ![c] = Tail(@)] \/ Disconnect(c)
      BY <2>1 DEF Deliver
    <3>. QED  BY <1>0, <3>1, <3>2, DisconnectRoom
  <2>2. CASE WriterRecover(c)  BY <2>2, RecoverRoom DEF WriterRecover
  <2>3. CASE ClientEof(c) \/ ClientClose(c)
    BY <2>3, DisconnectRoom DEF ClientEof, ClientClose
  <2>4. CASE ServerClose(c) \/ Connect(c)
    BY <1>0, <2>4 DEF ServerClose, Connect
  <2>. QED  BY <1>4, <2>1, <2>2, <2>3, <2>4 DEF ConnectionStep
<1>5. ASSUME NEW c \in Clients, ClientStep(c) PROVE \A d \in Clients : Reserved(out'[d])
  BY <1>0, <1>5 DEF ClientStep, StartAttach, StartDetach, StartResize, TakeReply,
                    ApplyEvent, registry
<1>. QED  BY <1>1, <1>2, <1>3, <1>4, <1>5 DEF Next

\* Every step keeps responses apart from events.
LEMMA RespStep ==
  ASSUME RoomInv, Next
  PROVE  RespPlain'
<1>0. /\ req \in [Clients -> Requests]
      /\ \A c \in Clients : req[c].resp.kind \notin Output
  BY DEF RoomInv, RespPlain, TypeOK, ServerType
<1>. SUFFICES ASSUME NEW d \in Clients PROVE req'[d].resp.kind \notin Output
  BY DEF RespPlain
<1>1. /\ Nil.kind \notin Output /\ Ok.kind \notin Output /\ Err.kind \notin Output
      /\ Snapshot("ack", seq, screen').kind \notin Output
  BY DEF Nil, Ok, Err, Item, Snapshot, Output
<1>2. CASE PtyStep \/ \E to \in {Clients, Clients \ subs} : BroadcastDomain(to)
  <2>1. req' = req
    BY <1>2 DEF PtyStep, PtyRead, PumpSubscribed, PumpFeed, TerminalExited,
                BroadcastDomain, server
  <2>. QED  BY <1>0, <2>1
<1>3. ASSUME NEW c \in Clients, HandlerStep(c) PROVE req'[d].resp.kind \notin Output
  <2>1. \A m : Answer(c, m) /\ m.kind \notin Output => req'[d].resp.kind \notin Output
    BY <1>0 DEF Answer, Request
  <2>2. CASE AttachCount(c)  BY <1>0, <1>1, <2>2 DEF AttachCount, Request
  <2>3. CASE AttachSnapshot(c)  BY <1>1, <2>1, <2>3 DEF AttachSnapshot
  <2>4. CASE ResizeTerminal(c)  BY <1>1, <2>1, <2>4 DEF ResizeTerminal
  <2>5. CASE DetachTerminal(c)  BY <1>1, <2>1, <2>5 DEF DetachTerminal
  <2>6. CASE Respond(c)  BY <1>0, <1>1, <2>6 DEF Respond, NoReq, Request
  <2>7. CASE FinishAttach(c) \/ RecoverOwed(c)
    BY <1>0, <2>7 DEF FinishAttach, RecoverOwed
  <2>. QED  BY <1>3, <2>2, <2>3, <2>4, <2>5, <2>6, <2>7 DEF HandlerStep
<1>4. ASSUME NEW c \in Clients, ConnectionStep(c) PROVE req'[d].resp.kind \notin Output
  <2>1. req' = req
    BY <1>4 DEF ConnectionStep, Deliver, WriterRecover, ClientEof, ClientClose,
                ServerClose, Connect, server
  <2>. QED  BY <1>0, <2>1
<1>5. ASSUME NEW c \in Clients, ClientStep(c) PROVE req'[d].resp.kind \notin Output
  <2>1. req' = req \/ \E op : Send(c, op)
    BY <1>5 DEF ClientStep, StartAttach, StartDetach, StartResize, TakeReply, ApplyEvent
  <2>. QED  BY <1>0, <1>1, <2>1 DEF Send, Request
<1>. QED  BY <1>2, <1>3, <1>4, <1>5 DEF Next

\* The reserve holds at every state.
THEOREM RoomInvariant == Spec => []RoomInv
<1>1. Init => RoomInv
  <2>. SUFFICES ASSUME Init PROVE RoomInv  OBVIOUS
  <2>1. TypeOK  BY InitTypes
  <2>2. RespPlain  BY DEF Init, RespPlain, NoReq, Request, Nil, Item, Output
  <2>3. \A c \in Clients : Reserved(out[c])  BY DEF Init, Reserved
  <2>. QED  BY <2>1, <2>2, <2>3 DEF RoomInv
<1>2. RoomInv /\ [Next]_vars => RoomInv'
  <2>. SUFFICES ASSUME RoomInv, [Next]_vars PROVE RoomInv'  OBVIOUS
  <2>1. TypeOK'  BY TypeStep DEF RoomInv
  <2>2. CASE Next  BY <2>1, <2>2, RoomStep, RespStep DEF RoomInv
  <2>3. CASE UNCHANGED vars
    <3>1. UNCHANGED <<out, req>>  BY <2>3 DEF vars, registry, server
    <3>. QED  BY <2>1, <3>1 DEF RoomInv, RespPlain
  <2>. QED  BY <2>2, <2>3
<1>. QED  BY <1>1, <1>2, PTL DEF Spec

(***************************************************************************)
(* Terminal output never takes a slot above DELTA_HIGH_WATER, so a burst   *)
(* of output cannot make the daemon drop a client for want of room for a   *)
(* response.                                                               *)
(***************************************************************************)
THEOREM RoomForResponses == Spec => []OutputLeavesRoom
<1>1. RoomInv => OutputLeavesRoom
  BY DEF RoomInv, Reserved, Output, OutputLeavesRoom
<1>. QED  BY <1>1, RoomInvariant, PTL

-----------------------------------------------------------------------------
(***************************************************************************)
(* A client's replica never shows a row the engine has replaced, unless    *)
(* that row is still to be repainted.  The argument is about the log of    *)
(* TerminalStream: every step extends it, an extension keeps good items    *)
(* good, and applying a good delta to a good replica gives a good replica. *)
(***************************************************************************)

Entries == [rows : SUBSET Row, screen : Patches]
Logs    == {l \in Seq(Entries) : Len(l) > 0}

\* What a step may do to the log: keep all but its last entry, and change
\* that one only in the rows it will repaint.
Extends(new, old) ==
  /\ Len(new) >= Len(old)
  /\ \A n \in 1..(Len(old) - 1) : new[n] = old[n]
  /\ \A r \in Present(new[Len(old)].screen) \ new[Len(old)].rows :
       /\ r \in Present(old[Len(old)].screen) \ old[Len(old)].rows
       /\ new[Len(old)].screen[r] = old[Len(old)].screen[r]

-----------------------------------------------------------------------------
(***************************************************************************)
(* Logs and items.                                                         *)
(***************************************************************************)

\* A snapshot or replica that is up to date stays so when the log grows.
LEMMA UpToDateExtends ==
  ASSUME NEW old \in Logs, NEW new \in Logs, Extends(new, old), NEW m \in Items,
         UpToDate(old, m)
  PROVE  UpToDate(new, m)
<1>1. m.seq \in Nat /\ Len(old) \in Nat /\ Len(new) \in Nat  BY DEF Items, Logs
<1>2. m.seq < Len(new)  BY <1>1 DEF Extends, UpToDate
<1>3. CASE m.seq + 1 < Len(old)
  <2>1. new[m.seq + 1] = old[m.seq + 1]  BY <1>1, <1>3 DEF Extends
  <2>. QED  BY <1>2, <2>1 DEF UpToDate
<1>4. CASE m.seq + 1 = Len(old)
  BY <1>2, <1>4 DEF UpToDate, Extends
<1>. QED  BY <1>1, <1>3, <1>4 DEF UpToDate

\* ... and so does every good item.
LEMMA GoodExtends ==
  ASSUME NEW old \in Logs, NEW new \in Logs, Extends(new, old), NEW m \in Items,
         GoodItem(old, m)
  PROVE  GoodItem(new, m)
<1>1. m.kind \in {"resync", "ack", "grid"} => UpToDate(new, m) /\ Whole(m.rows)
  BY UpToDateExtends DEF GoodItem
<1>2. ASSUME m.kind = "delta"
      PROVE  m.seq \in 1..(Len(new) - 1) /\ m = Delta(m.seq, new[m.seq].screen, new[m.seq].rows)
  <2>1. m.seq \in 1..(Len(old) - 1) /\ Len(old) \in Nat /\ Len(new) \in Nat
    BY <1>2 DEF GoodItem, Logs
  <2>2. new[m.seq] = old[m.seq] /\ m.seq \in 1..(Len(new) - 1)
    BY <2>1 DEF Extends
  <2>. QED  BY <1>2, <2>2 DEF GoodItem
<1>. QED  BY <1>1, <1>2 DEF GoodItem

\* ... and every queue of good items.
LEMMA QueueExtends ==
  ASSUME NEW old \in Logs, NEW new \in Logs, Extends(new, old), NEW q \in Seq(Items),
         GoodQueue(old, q)
  PROVE  GoodQueue(new, q)
<1>1. \A i \in 1..Len(q) : q[i] \in Items  OBVIOUS
<1>. QED  BY <1>1, GoodExtends DEF GoodQueue

\* Queue operations keep good queues good.
LEMMA QueueGood ==
  ASSUME NEW log, NEW q \in Seq(Items), NEW m \in Items
  PROVE  /\ GoodQueue(log, <<>>)
         /\ GoodQueue(log, q) /\ GoodItem(log, m) => GoodQueue(log, Append(q, m))
         /\ GoodQueue(log, q) /\ q # <<>> =>
              GoodItem(log, Head(q)) /\ GoodQueue(log, Tail(q))
<1>1. GoodQueue(log, <<>>)  BY DEF GoodQueue
<1>2. ASSUME GoodQueue(log, q), GoodItem(log, m) PROVE GoodQueue(log, Append(q, m))
  <2>1. /\ Len(Append(q, m)) = Len(q) + 1 /\ Append(q, m)[Len(q) + 1] = m
        /\ \A i \in 1..Len(q) : Append(q, m)[i] = q[i]
    OBVIOUS
  <2>. QED  BY <1>2, <2>1 DEF GoodQueue
<1>3. ASSUME GoodQueue(log, q), q # <<>>
      PROVE  GoodItem(log, Head(q)) /\ GoodQueue(log, Tail(q))
  <2>1. /\ Len(q) >= 1 /\ Head(q) = q[1] /\ Len(Tail(q)) = Len(q) - 1
        /\ \A i \in 1..Len(Tail(q)) : Tail(q)[i] = q[i + 1]
    BY <1>3
  <2>. QED  BY <1>3, <2>1 DEF GoodQueue
<1>. QED  BY <1>1, <1>2, <1>3

\* Items that carry no screen are good.
LEMMA PlainGood ==
  ASSUME NEW log
  PROVE  GoodItem(log, Nil) /\ GoodItem(log, Note) /\ GoodItem(log, Ok) /\ GoodItem(log, Err)
  BY DEF GoodItem, Nil, Note, Ok, Err, Item

\* A delta overwrites rows that a whole screen has.
LEMMA PatchedWhole ==
  ASSUME NEW g \in Items, NEW e \in Items, Whole(g.rows)
  PROVE  Whole(Patched(g, e).rows)
<1>. SUFFICES ASSUME OneSize, Present(g.rows) = Row, NEW r \in Row
              PROVE  Patched(g, e).rows[r] # Absent
  BY DEF Whole, Present
<1>1. Patched(g, e).rows[r] = IF r \in Present(e.rows) THEN e.rows[r] ELSE g.rows[r]
  BY DEF Patched, Item
<1>. QED  BY <1>1 DEF Present

(***************************************************************************)
(* Applying a good event to a good replica gives a good replica: the next  *)
(* delta repaints exactly what separates its screen from the replica.      *)
(***************************************************************************)
LEMMA ApplyGood ==
  ASSUME NEW log \in Logs, LogOK(log), NEW g \in Items, NEW e \in Items,
         GoodItem(log, g), GoodItem(log, e), g = Nil \/ g.kind = "grid"
  PROVE  LET n == apply_event(g, e)
         IN  GoodItem(log, n) /\ (n = Nil \/ n.kind = "grid")
<1>1. CASE g # Nil /\ e.kind = "delta" /\ DeltaOutcome(g, e) = "Applied"
  <2>. DEFINE n == e.seq
              S == log[n].screen
              D == log[n].rows
  <2>1. g.seq \in Nat /\ e.seq \in Nat /\ Len(log) \in Nat  BY DEF Items, Logs
  <2>2. n = g.seq + 1  BY <1>1, <2>1 DEF DeltaOutcome
  <2>3. n \in 1..(Len(log) - 1) /\ e = Delta(n, S, D)  BY <1>1 DEF GoodItem
  <2>4. e.rows = [r \in Row |-> IF r \in D THEN S[r] ELSE Absent]
    BY <2>3 DEF Delta, Item
  <2>5. D \subseteq Present(S) /\ D \subseteq Row
    BY <2>3 DEF LogOK, Present
  <2>6. Present(e.rows) = D  BY <2>4, <2>5 DEF Present
  <2>7. \A r \in Present(S) \ D : g.rows[r] = S[r]
    <3>1. UpToDate(log, g)  BY <1>1 DEF GoodItem
    <3>. QED  BY <2>2, <3>1 DEF UpToDate
  <2>. DEFINE p == Patched(g, e)
  <2>8. p.seq = n /\ p.kind = "grid"
        /\ \A r \in Row : p.rows[r] = IF r \in D THEN S[r] ELSE g.rows[r]
    BY <2>4, <2>6 DEF Patched, Item
  <2>9. UpToDate(log, Item("grid", n, S))  BY <2>3 DEF LogOK
  <2>10. \A r \in Present(log[n + 1].screen) \ log[n + 1].rows :
            r \in Row /\ S[r] = log[n + 1].screen[r] /\ S[r] # Absent
    BY <2>9 DEF UpToDate, Item, Present
  <2>11. UpToDate(log, p)
    <3>1. \A r \in Present(log[n + 1].screen) \ log[n + 1].rows :
             p.rows[r] = log[n + 1].screen[r]
      BY <2>7, <2>8, <2>10 DEF Present
    <3>. HIDE DEF p
    <3>. QED  BY <2>1, <2>3, <2>8, <3>1 DEF UpToDate
  <2>12. apply_event(g, e) = p  BY <1>1 DEF apply_event
  <2>13. Whole(p.rows)  BY <1>1, PatchedWhole DEF GoodItem
  <2>. HIDE DEF p
  <2>. QED  BY <2>8, <2>11, <2>12, <2>13 DEF GoodItem
<1>2. CASE g # Nil /\ e.kind = "resync" /\ e.seq >= g.seq
  <2>1. apply_event(g, e) = FromSnapshot(e)  BY <1>2 DEF apply_event
  <2>2. UpToDate(log, e) /\ Whole(e.rows)  BY <1>2 DEF GoodItem
  <2>. QED  BY <2>1, <2>2 DEF FromSnapshot, Item, GoodItem, UpToDate
<1>3. CASE ~ (g # Nil /\ e.kind = "delta" /\ DeltaOutcome(g, e) = "Applied")
           /\ ~ (g # Nil /\ e.kind = "resync" /\ e.seq >= g.seq)
  BY <1>3 DEF apply_event
<1>. QED  BY <1>1, <1>2, <1>3

-----------------------------------------------------------------------------
(***************************************************************************)
(* How the steps change the log.                                           *)
(***************************************************************************)

\* The log is a log.
LEMMA LogType ==
  ASSUME TypeOK, Len(emitted) = seq
  PROVE  /\ Log \in Logs /\ Len(Log) = seq + 1
         /\ Log[seq + 1] = [rows |-> damage, screen |-> screen]
         /\ \A n \in 1..seq : Log[n] = emitted[n]
<1>1. [rows |-> damage, screen |-> screen] \in Entries
  BY SizeRows DEF TypeOK, RuntimeType, Entries
<1>2. emitted \in Seq(Entries) /\ seq \in Nat
  BY DEF TypeOK, HistoryType, RuntimeType, Entries
<1>. QED  BY <1>1, <1>2 DEF Log, Logs

\* The screen has content in exactly its rows.
LEMMA ShownRows ==
  ASSUME TypeOK, ScreenShape
  PROVE  Present(screen) = 1..size /\ Whole(screen)
<1>1. Present(screen) = 1..size
  BY SizeRows DEF TypeOK, RuntimeType, ScreenShape, Present, Patches
<1>2. OneSize => Row = 1..size
  BY DEF OneSize, Row, TypeOK, RuntimeType
<1>. QED  BY <1>1, <1>2 DEF Whole

\* A snapshot of the current screen is good.
LEMMA SnapshotGood ==
  ASSUME TypeOK, ScreenShape, Len(emitted) = seq
  PROVE  /\ GoodItem(Log, Snapshot("resync", seq, screen))
         /\ GoodItem(Log, Snapshot("ack", seq, screen))
<1>1. seq \in Nat /\ Len(Log) = seq + 1
      /\ Log[seq + 1] = [rows |-> damage, screen |-> screen]
  BY LogType DEF TypeOK, RuntimeType
<1>2. UpToDate(Log, Snapshot("resync", seq, screen)) /\ UpToDate(Log, Snapshot("ack", seq, screen))
  BY <1>1 DEF UpToDate, Snapshot, Item
<1>. QED  BY <1>2, ShownRows DEF GoodItem, Snapshot, Item

\* The same two facts after a step.
LEMMA NextLog ==
  (TypeOK /\ ScreenShape /\ Len(emitted) = seq
     => /\ Log \in Logs
        /\ GoodItem(Log, Snapshot("resync", seq, screen))
        /\ GoodItem(Log, Snapshot("ack", seq, screen)))'
<1>1. TypeOK /\ ScreenShape /\ Len(emitted) = seq
        => /\ Log \in Logs
           /\ GoodItem(Log, Snapshot("resync", seq, screen))
           /\ GoodItem(Log, Snapshot("ack", seq, screen))
  BY LogType, SnapshotGood
<1>. QED  BY <1>1, PTL

\* Every log extends itself.
LEMMA ExtendsRefl == \A log \in Logs : Extends(log, log)
  BY DEF Extends, Logs

(***************************************************************************)
(* Repainting: rows changed on the screen are damaged, as when output is   *)
(* not emitted yet or the terminal is resized.                             *)
(***************************************************************************)
LEMMA RepaintLog ==
  ASSUME TypeOK, TypeOK', Len(emitted) = seq, LogOK(Log), UNCHANGED <<seq, emitted>>,
         \A r \in Present(screen') \ damage' :
            r \in Present(screen) \ damage /\ screen'[r] = screen[r]
  PROVE  Len(emitted)' = seq' /\ Extends(Log', Log) /\ LogOK(Log')
<1>1. /\ Log \in Logs /\ Len(Log) = seq + 1 /\ seq \in Nat
      /\ Log[seq + 1] = [rows |-> damage, screen |-> screen]
      /\ \A n \in 1..seq : Log[n] = emitted[n]
  BY LogType DEF TypeOK, RuntimeType
<1>2. (Len(emitted) = seq)'  OBVIOUS
<1>3. /\ Log' \in Logs /\ Len(Log') = seq + 1
      /\ Log'[seq + 1] = [rows |-> damage', screen |-> screen']
      /\ \A n \in 1..seq : Log'[n] = emitted[n]
  <2>1. [rows |-> damage', screen |-> screen'] \in Entries
    BY SizeRows DEF TypeOK, RuntimeType, Entries
  <2>2. emitted \in Seq(Entries) /\ Len(emitted) = seq
    BY DEF TypeOK, HistoryType, RuntimeType, Entries
  <2>3. Log' = Append(emitted, [rows |-> damage', screen |-> screen'])
    BY DEF Log
  <2>. QED  BY <1>1, <2>1, <2>2, <2>3 DEF Logs
<1>4. Extends(Log', Log)
  BY <1>1, <1>3 DEF Extends
<1>5. LogOK(Log')
  <2>. SUFFICES ASSUME NEW n \in 1..seq
                PROVE  /\ Log'[n].rows \subseteq Present(Log'[n].screen)
                       /\ UpToDate(Log', Item("grid", n, Log'[n].screen))
    BY <1>3 DEF LogOK
  <2>1. Log'[n] = Log[n]  BY <1>1, <1>3
  <2>2. Log[n] \in Entries  BY <1>1 DEF Logs
  <2>3. Item("grid", n, Log[n].screen) \in Items
    BY <1>1, <2>2, ItemTypes DEF Entries, Kinds
  <2>4. /\ Log[n].rows \subseteq Present(Log[n].screen)
        /\ UpToDate(Log, Item("grid", n, Log[n].screen))
    BY <1>1 DEF LogOK
  <2>. QED  BY <1>1, <1>3, <1>4, <2>1, <2>3, <2>4, UpToDateExtends
<1>. QED  BY <1>2, <1>4, <1>5

\* Emitting: the last entry is closed and an undamaged one follows it.
LEMMA EmitLog ==
  ASSUME TypeOK, TypeOK', Len(emitted) = seq, LogOK(Log), NEW D \in SUBSET Row,
         seq' = seq + 1, damage' = {},
         emitted' = Append(emitted, [rows |-> D, screen |-> screen']),
         damage \subseteq D, D \subseteq Present(screen'),
         \A r \in Present(screen') \ D : r \in Present(screen) /\ screen'[r] = screen[r]
  PROVE  /\ Len(emitted)' = seq' /\ Extends(Log', Log) /\ LogOK(Log')
         /\ GoodItem(Log', Delta(seq + 1, screen', D))
<1>1. /\ Log \in Logs /\ Len(Log) = seq + 1 /\ seq \in Nat
      /\ Log[seq + 1] = [rows |-> damage, screen |-> screen]
      /\ \A n \in 1..seq : Log[n] = emitted[n]
  BY LogType DEF TypeOK, RuntimeType
<1>. DEFINE closed == [rows |-> D, screen |-> screen']
            open == [rows |-> {}, screen |-> screen']
<1>2. closed \in Entries /\ open \in Entries /\ emitted \in Seq(Entries)
  BY DEF TypeOK, RuntimeType, HistoryType, Entries
<1>3. Log' = Append(Append(emitted, closed), open)  BY DEF Log
<1>4. /\ Log' \in Logs /\ Len(Log') = seq + 2
      /\ Log'[seq + 1] = closed /\ Log'[seq + 2] = open
      /\ \A n \in 1..seq : Log'[n] = emitted[n]
      /\ Len(emitted') = seq + 1
  <2>. HIDE DEF closed, open
  <2>1. /\ Append(emitted, closed) \in Seq(Entries) /\ Len(Append(emitted, closed)) = seq + 1
        /\ Append(emitted, closed)[seq + 1] = closed
        /\ \A n \in 1..seq : Append(emitted, closed)[n] = emitted[n]
    BY <1>1, <1>2
  <2>. DEFINE A == Append(emitted, closed)
  <2>2. emitted' = A  BY DEF closed
  <2>. HIDE DEF A
  <2>3. /\ A \in Seq(Entries) /\ Len(A) = seq + 1 /\ A[seq + 1] = closed
        /\ \A n \in 1..seq : A[n] = emitted[n]
    BY <2>1 DEF A
  <2>4. Log' = Append(A, open)  BY <1>3 DEF A
  <2>5. /\ Append(A, open) \in Seq(Entries) /\ Len(Append(A, open)) = seq + 2
        /\ Append(A, open)[seq + 2] = open
        /\ \A n \in 1..(seq + 1) : Append(A, open)[n] = A[n]
    BY <1>1, <1>2, <2>3
  <2>6. Log' \in Logs /\ Len(Log') = seq + 2  BY <1>1, <2>4, <2>5 DEF Logs
  <2>7. Log'[seq + 1] = closed /\ Log'[seq + 2] = open
    BY <1>1, <2>3, <2>4, <2>5
  <2>8. \A n \in 1..seq : Log'[n] = emitted[n]
    BY <1>1, <2>3, <2>4, <2>5
  <2>. QED  BY <2>2, <2>3, <2>6, <2>7, <2>8
<1>5. Extends(Log', Log)
  BY <1>1, <1>4 DEF Extends
<1>6. LogOK(Log')
  <2>. SUFFICES ASSUME NEW n \in 1..(seq + 1)
                PROVE  /\ Log'[n].rows \subseteq Present(Log'[n].screen)
                       /\ UpToDate(Log', Item("grid", n, Log'[n].screen))
    BY <1>1, <1>4 DEF LogOK
  <2>1. CASE n \in 1..seq
    <3>1. Log'[n] = Log[n]  BY <1>1, <1>4, <2>1
    <3>2. Log[n] \in Entries  BY <1>1, <2>1 DEF Logs
    <3>3. Item("grid", n, Log[n].screen) \in Items
      BY <1>1, <3>2, ItemTypes DEF Entries, Kinds
    <3>4. /\ Log[n].rows \subseteq Present(Log[n].screen)
          /\ UpToDate(Log, Item("grid", n, Log[n].screen))
      BY <1>1, <2>1 DEF LogOK
    <3>. QED  BY <1>1, <1>4, <1>5, <3>1, <3>3, <3>4, UpToDateExtends
  <2>2. CASE n = seq + 1
    <3>1. Log'[n].rows = D /\ Log'[n].screen = screen' /\ Log'[n + 1] = open
      BY <1>1, <1>4, <2>2
    <3>2. UpToDate(Log', Item("grid", n, screen'))
      BY <1>1, <1>4, <2>2, <3>1 DEF UpToDate, Item
    <3>. QED  BY <3>1, <3>2
  <2>. QED  BY <1>1, <2>1, <2>2
<1>7. GoodItem(Log', Delta(seq + 1, screen', D))
  BY <1>1, <1>4 DEF GoodItem, Delta, Item
<1>. QED  BY <1>4, <1>5, <1>6, <1>7

-----------------------------------------------------------------------------
(***************************************************************************)
(* How the steps move items.  In each lemma log is the log after the step. *)
(***************************************************************************)
Held(log)     == AllGood(log, out, evq, reply, req, finished, grid)
HeldNext(log) == AllGood(log, out', evq', reply', req', finished', grid')

\* Snapshots of the screen after the step are good.
Fresh(log) == /\ GoodItem(log, Snapshot("resync", seq', screen'))
              /\ GoodItem(log, Snapshot("ack", seq', screen'))

\* What was good in the old log is good in the new one.
LEMMA HeldExtends ==
  ASSUME TypeOK, NEW old \in Logs, NEW new \in Logs, Extends(new, old), Held(old)
  PROVE  Held(new)
<1>. SUFFICES ASSUME NEW c \in Clients
              PROVE  /\ GoodQueue(new, out[c]) /\ GoodQueue(new, evq[c])
                     /\ GoodItem(new, reply[c]) /\ GoodItem(new, req[c].resp)
                     /\ GoodItem(new, finished[c]) /\ GoodItem(new, grid[c])
                     /\ (grid[c] = Nil \/ grid[c].kind = "grid")
  BY DEF Held, AllGood
<1>1. /\ out[c] \in Seq(Items) /\ evq[c] \in Seq(Items) /\ reply[c] \in Items
      /\ req[c].resp \in Items /\ finished[c] \in Items /\ grid[c] \in Items
  BY DEF TypeOK, RegistryType, ClientType, ServerType, Requests
<1>2. /\ GoodQueue(old, out[c]) /\ GoodQueue(old, evq[c])
      /\ GoodItem(old, reply[c]) /\ GoodItem(old, req[c].resp)
      /\ GoodItem(old, finished[c]) /\ GoodItem(old, grid[c])
      /\ (grid[c] = Nil \/ grid[c].kind = "grid")
  BY DEF Held, AllGood
<1>. QED  BY <1>1, <1>2, QueueExtends, GoodExtends

\* A step that touches no item.
LEMMA HeldUnchanged ==
  ASSUME NEW log, Held(log), UNCHANGED <<out, evq, reply, req, finished, grid>>
  PROVE  HeldNext(log)
  BY DEF Held, HeldNext

\* A recovery queues a good snapshot, or keeps it.
LEMMA RecoverGood ==
  ASSUME NEW log, TypeOK, Held(log), Fresh(log), NEW c \in Clients, recover(c),
         UNCHANGED <<seq, screen>>
  PROVE  \A d \in Clients : GoodQueue(log, out'[d]) /\ GoodItem(log, finished'[d])
<1>1. RecoveryEvent(c) \in Items /\ GoodItem(log, RecoveryEvent(c))
  <2>1. finished[c] \in Items /\ GoodItem(log, finished[c])
    BY DEF Held, AllGood, TypeOK, RegistryType
  <2>2. Snapshot("resync", seq, screen) \in Items
    BY PatchTypes DEF TypeOK, RuntimeType
  <2>. QED  BY <2>1, <2>2, PlainGood, ItemTypes DEF RecoveryEvent, Fresh
<1>2. out[c] \in Seq(Items) /\ out \in [Clients -> Seq(Items)] /\ finished \in [Clients -> Items]
  BY DEF TypeOK, RegistryType
<1>3. \A d \in Clients : GoodQueue(log, out[d]) /\ GoodItem(log, finished[d])
  BY DEF Held, AllGood
<1>4. GoodQueue(log, Append(out[c], RecoveryEvent(c)))
  BY <1>1, <1>2, <1>3, QueueGood
<1>5. GoodItem(log, Nil)  BY PlainGood
<1>6. CASE c \in registered /\ c \in behind /\ Drained(c)
  <2>1. \A d \in Clients : GoodQueue(log, out'[d])
    BY <1>2, <1>3, <1>4, <1>6 DEF recover
  <2>2. \A d \in Clients : GoodItem(log, finished'[d])
    BY <1>1, <1>2, <1>3, <1>5, <1>6 DEF recover
  <2>. QED  BY <2>1, <2>2
<1>7. CASE ~ (c \in registered /\ c \in behind /\ Drained(c))
  BY <1>3, <1>7 DEF recover
<1>. QED  BY <1>6, <1>7

\* The PTY thread.
LEMMA PtyGood ==
  ASSUME NEW log, TypeOK, Held(log), Fresh(log), PtyStep,
         \A D \in SUBSET Row : seq' = seq + 1
             /\ emitted' = Append(emitted, [rows |-> D, screen |-> screen'])
           => GoodItem(log, Delta(seq + 1, screen', D))
  PROVE  HeldNext(log)
<1>1. CASE \/ \E why \in {"data", "wake", "eof"} : PtyRead(why)
           \/ PumpSubscribed
  BY <1>1, HeldUnchanged DEF PtyRead, PumpSubscribed, registry, server, client
<1>2. ASSUME NEW V \in SUBSET Row, NEW open \in BOOLEAN, NEW due \in BOOLEAN,
             PumpFeed(V, open, due)
      PROVE  HeldNext(log)
  <2>1. CASE ~ EmitNow(pending \/ V # {}, due)
    BY <1>2, <2>1, HeldUnchanged DEF PumpFeed, server, client
  <2>2. CASE EmitNow(pending \/ V # {}, due)
    <3>. DEFINE D == damage \cup V
                d == Delta(seq + 1, screen', D)
                r == Snapshot("resync", seq', screen')
    <3>1. /\ seq' = seq + 1 /\ screen' = Written(V)
          /\ emitted' = Append(emitted, [rows |-> D, screen |-> screen'])
          /\ route_terminal_delta(d, r)
          /\ UNCHANGED <<evq, reply, req, finished, grid>>
      BY <1>2, <2>2 DEF PumpFeed, server, client
    <3>2. screen' \in Patches /\ seq' \in Nat
      BY <3>1 DEF Written, TypeOK, RuntimeType, Patches
    <3>3. D \in SUBSET Row  BY SizeRows DEF TypeOK, RuntimeType
    <3>4. d \in Items /\ r \in Items  BY <3>1, <3>2, PatchTypes
    <3>5. GoodItem(log, d) /\ GoodItem(log, r)  BY <3>1, <3>3 DEF Fresh
    <3>. HIDE DEF d, r
    <3>6. \A c \in Clients : /\ out[c] \in Seq(Items) /\ GoodQueue(log, out[c])
      BY DEF TypeOK, RegistryType, Held, AllGood
    <3>7. \A c \in Clients : /\ GoodQueue(log, Append(out[c], d))
                             /\ GoodQueue(log, Append(out[c], r))
      BY <3>4, <3>5, <3>6, QueueGood
    <3>8. \A c \in Clients : GoodQueue(log, out'[c])
      BY <3>1, <3>6, <3>7 DEF route_terminal_delta
    <3>. QED  BY <3>1, <3>8 DEF Held, HeldNext, AllGood
  <2>. QED  BY <2>1, <2>2
<1>3. CASE TerminalExited
  <2>1. UNCHANGED <<out, evq, reply, req, grid, seq, screen>>
    BY <1>3 DEF TerminalExited, server, client
  <2>2. \A c \in Clients : GoodItem(log, finished'[c])
    BY <1>3, <2>1 DEF TerminalExited, finish_terminal, Fresh, Held, AllGood
  <2>. QED  BY <2>1, <2>2 DEF Held, HeldNext, AllGood
<1>. QED  BY <1>1, <1>2, <1>3 DEF PtyStep

\* The handlers.
LEMMA HandlerGood ==
  ASSUME NEW log, TypeOK, Held(log), Fresh(log), NEW c \in Clients, HandlerStep(c)
  PROVE  HeldNext(log)
<1>0. /\ req \in [Clients -> Requests] /\ out \in [Clients -> Seq(Items)]
      /\ finished \in [Clients -> Items] /\ req[c].resp \in Items
  BY DEF TypeOK, ServerType, RegistryType, Requests
<1>1. GoodItem(log, Nil) /\ GoodItem(log, Ok) /\ GoodItem(log, Err)  BY PlainGood
<1>2. \A m : Answer(c, m) /\ GoodItem(log, m) =>
        \A d \in Clients : GoodItem(log, req'[d].resp)
  BY <1>0 DEF Answer, Request, Held, AllGood
<1>3. CASE AttachCount(c)
  <2>1. \A d \in Clients : GoodItem(log, req'[d].resp)
    BY <1>0, <1>1, <1>3 DEF AttachCount, Request, Held, AllGood
  <2>. QED  BY <1>3, <2>1 DEF AttachCount, registry, client, Held, HeldNext, AllGood
<1>4. CASE AttachSnapshot(c)
  <2>1. \A d \in Clients : GoodItem(log, req'[d].resp)
    BY <1>1, <1>2, <1>4 DEF AttachSnapshot, Fresh
  <2>. QED  BY <1>4, <2>1 DEF AttachSnapshot, client, Held, HeldNext, AllGood
<1>5. CASE ResizeTerminal(c)
  <2>1. \A d \in Clients : GoodItem(log, req'[d].resp)
    BY <1>1, <1>2, <1>5 DEF ResizeTerminal
  <2>. QED  BY <1>5, <2>1 DEF ResizeTerminal, registry, client, Held, HeldNext, AllGood
<1>6. CASE DetachTerminal(c)
  <2>1. \A d \in Clients : GoodItem(log, req'[d].resp)
    BY <1>1, <1>2, <1>6 DEF DetachTerminal
  <2>2. \A d \in Clients : GoodItem(log, finished'[d])
    BY <1>0, <1>1, <1>6 DEF DetachTerminal, unsubscribe, Held, AllGood
  <2>. QED  BY <1>6, <2>1, <2>2 DEF DetachTerminal, client, Held, HeldNext, AllGood
<1>7. CASE Respond(c)
  <2>1. \A d \in Clients : GoodItem(log, req'[d].resp)
    BY <1>0, <1>1, <1>7 DEF Respond, NoReq, Request, Held, AllGood
  <2>2. GoodQueue(log, Append(out[c], req[c].resp))
    BY <1>0, QueueGood DEF Held, AllGood
  <2>3. \A d \in Clients : GoodQueue(log, out'[d])
    BY <1>0, <1>7, <2>2 DEF Respond, Held, AllGood
  <2>4. \A d \in Clients : GoodItem(log, finished'[d])
    BY <1>0, <1>1, <1>7 DEF Respond, unregister, unsubscribe, Held, AllGood
  <2>. QED  BY <1>7, <2>1, <2>3, <2>4 DEF Respond, client, Held, HeldNext, AllGood
<1>8. CASE FinishAttach(c)
  BY <1>8, HeldUnchanged DEF FinishAttach, client
<1>9. CASE RecoverOwed(c)
  <2>1. \A d \in Clients : GoodQueue(log, out'[d]) /\ GoodItem(log, finished'[d])
    BY <1>9, RecoverGood DEF RecoverOwed, runtime
  <2>. QED  BY <1>9, <2>1 DEF RecoverOwed, client, Held, HeldNext, AllGood
<1>. QED  BY <1>3, <1>4, <1>5, <1>6, <1>7, <1>8, <1>9 DEF HandlerStep

\* A disconnected client holds nothing.
LEMMA DisconnectGood ==
  ASSUME NEW log, TypeOK, Held(log), NEW c \in Clients, Disconnect(c),
         UNCHANGED <<req, finished>>
  PROVE  HeldNext(log)
<1>1. /\ out \in [Clients -> Seq(Items)] /\ evq \in [Clients -> Seq(Items)]
      /\ reply \in [Clients -> Items] /\ grid \in [Clients -> Items]
  BY DEF TypeOK, RegistryType, ClientType
<1>2. GoodQueue(log, <<>>) /\ GoodItem(log, Nil)
  BY PlainGood DEF GoodQueue
<1>3. \A d \in Clients : GoodQueue(log, out'[d]) /\ GoodQueue(log, evq'[d])
  BY <1>1, <1>2 DEF Disconnect, Held, AllGood
<1>4. \A d \in Clients : /\ GoodItem(log, reply'[d]) /\ GoodItem(log, grid'[d])
                         /\ (grid'[d] = Nil \/ grid'[d].kind = "grid")
  BY <1>1, <1>2 DEF Disconnect, Held, AllGood
<1>. QED  BY <1>3, <1>4 DEF Held, HeldNext, AllGood

\* The connection.
LEMMA ConnectionGood ==
  ASSUME NEW log, TypeOK, Held(log), Fresh(log), NEW c \in Clients, ConnectionStep(c)
  PROVE  HeldNext(log)
<1>0. /\ out \in [Clients -> Seq(Items)] /\ evq \in [Clients -> Seq(Items)]
      /\ reply \in [Clients -> Items] /\ finished \in [Clients -> Items]
      /\ GoodQueue(log, out[c]) /\ GoodQueue(log, evq[c])
  BY DEF TypeOK, RegistryType, ClientType, Held, AllGood
<1>1. CASE Deliver(c)
  <2>0. out[c] # <<>> /\ UNCHANGED <<req, finished>>  BY <1>1 DEF Deliver
  <2>1. /\ Head(out[c]) \in Items /\ GoodItem(log, Head(out[c]))
        /\ GoodQueue(log, Tail(out[c]))
    BY <1>0, <2>0, QueueGood
  <2>2. CASE Head(out[c]).kind \in Responses
    <3>1. \A d \in Clients : GoodQueue(log, out'[d]) /\ GoodItem(log, reply'[d])
      BY <1>0, <1>1, <2>1, <2>2 DEF Deliver, Held, AllGood
    <3>. QED  BY <1>1, <2>0, <2>2, <3>1 DEF Deliver, Held, HeldNext, AllGood
  <2>3. CASE Head(out[c]).kind \notin Responses /\ Len(evq[c]) < EventCap
    <3>1. GoodQueue(log, Append(evq[c], Head(out[c])))
      BY <1>0, <2>1, QueueGood
    <3>2. \A d \in Clients : GoodQueue(log, out'[d]) /\ GoodQueue(log, evq'[d])
      BY <1>0, <1>1, <2>1, <2>3, <3>1 DEF Deliver, Held, AllGood
    <3>. QED  BY <1>1, <2>0, <2>3, <3>2 DEF Deliver, Held, HeldNext, AllGood
  <2>4. CASE Head(out[c]).kind \notin Responses /\ ~ (Len(evq[c]) < EventCap)
    BY <1>1, <2>0, <2>4, DisconnectGood DEF Deliver
  <2>. QED  BY <2>2, <2>3, <2>4
<1>2. CASE WriterRecover(c)
  <2>1. \A d \in Clients : GoodQueue(log, out'[d]) /\ GoodItem(log, finished'[d])
    BY <1>2, RecoverGood DEF WriterRecover, runtime
  <2>. QED  BY <1>2, <2>1 DEF WriterRecover, client, Held, HeldNext, AllGood
<1>3. CASE ClientEof(c)
  BY <1>3, DisconnectGood DEF ClientEof, server
<1>4. CASE ClientClose(c)
  BY <1>4, DisconnectGood DEF ClientClose, server
<1>5. CASE ServerClose(c)
  <2>1. GoodQueue(log, <<>>) /\ GoodItem(log, Nil)  BY PlainGood DEF GoodQueue
  <2>2. \A d \in Clients : GoodQueue(log, out'[d]) /\ GoodItem(log, finished'[d])
    BY <1>0, <1>5, <2>1 DEF ServerClose, unregister, unsubscribe, Held, AllGood
  <2>. QED  BY <1>5, <2>2 DEF ServerClose, client, Held, HeldNext, AllGood
<1>6. CASE Connect(c)
  <2>1. GoodQueue(log, <<>>)  BY DEF GoodQueue
  <2>2. \A d \in Clients : GoodQueue(log, out'[d])
    BY <1>0, <1>6, <2>1 DEF Connect, Held, AllGood
  <2>. QED  BY <1>6, <2>2 DEF Connect, Held, HeldNext, AllGood
<1>. QED  BY <1>1, <1>2, <1>3, <1>4, <1>5, <1>6 DEF ConnectionStep

\* The client.
LEMMA ClientGood ==
  ASSUME NEW log \in Logs, LogOK(log), TypeOK, Held(log), NEW c \in Clients, ClientStep(c)
  PROVE  HeldNext(log)
<1>0. /\ req \in [Clients -> Requests] /\ evq \in [Clients -> Seq(Items)]
      /\ reply \in [Clients -> Items] /\ grid \in [Clients -> Items]
      /\ GoodItem(log, Nil)
  BY PlainGood DEF TypeOK, ServerType, ClientType
<1>1. \A op : Send(c, op) => \A d \in Clients : GoodItem(log, req'[d].resp)
  BY <1>0 DEF Send, Request, Held, AllGood
<1>2. CASE StartAttach(c)
  BY <1>1, <1>2 DEF StartAttach, registry, Held, HeldNext, AllGood
<1>3. CASE StartDetach(c)
  BY <1>1, <1>3 DEF StartDetach, registry, Held, HeldNext, AllGood
<1>4. ASSUME NEW n \in Sizes, StartResize(c, n) PROVE HeldNext(log)
  BY <1>1, <1>4 DEF StartResize, registry, Held, HeldNext, AllGood
<1>5. CASE TakeReply(c)
  <2>1. \A d \in Clients : GoodItem(log, req'[d].resp)
    BY <1>1, <1>5 DEF TakeReply, Held, AllGood
  <2>2. \A d \in Clients : GoodItem(log, reply'[d])
    BY <1>0, <1>5 DEF TakeReply, Held, AllGood
  <2>3. IsAck(reply[c]) => /\ GoodItem(log, FromSnapshot(reply[c]))
                           /\ FromSnapshot(reply[c]).kind = "grid"
    <3>1. GoodItem(log, reply[c])  BY DEF Held, AllGood
    <3>. QED  BY <3>1 DEF IsAck, GoodItem, FromSnapshot, Item, UpToDate
  <2>4. \A d \in Clients : GoodItem(log, grid'[d]) /\ (grid'[d] = Nil \/ grid'[d].kind = "grid")
    BY <1>0, <1>5, <2>3 DEF TakeReply, Held, AllGood
  <2>. QED  BY <1>5, <2>1, <2>2, <2>4 DEF TakeReply, registry, Held, HeldNext, AllGood
<1>6. CASE ApplyEvent(c)
  <2>0. evq[c] # <<>> /\ UNCHANGED <<out, reply, finished>>
    BY <1>6 DEF ApplyEvent, registry
  <2>1. /\ Head(evq[c]) \in Items /\ GoodItem(log, Head(evq[c]))
        /\ GoodQueue(log, Tail(evq[c]))
    <3>1. evq[c] \in Seq(Items) /\ GoodQueue(log, evq[c])  BY <1>0 DEF Held, AllGood
    <3>. QED  BY <2>0, <3>1, QueueGood
  <2>2. \A d \in Clients : GoodItem(log, req'[d].resp)
    BY <1>1, <1>6 DEF ApplyEvent, Held, AllGood
  <2>3. \A d \in Clients : GoodQueue(log, evq'[d])
    BY <1>0, <1>6, <2>1 DEF ApplyEvent, Held, AllGood
  <2>. DEFINE g == apply_event(grid[c], Head(evq[c]))
  <2>4. GoodItem(log, g) /\ (g = Nil \/ g.kind = "grid")
    <3>1. /\ grid[c] \in Items /\ GoodItem(log, grid[c])
          /\ (grid[c] = Nil \/ grid[c].kind = "grid")
      BY <1>0 DEF Held, AllGood
    <3>. QED  BY <2>1, <3>1, ApplyGood
  <2>5. grid' = [grid EXCEPT ![c] = g]  BY <1>6 DEF ApplyEvent
  <2>. HIDE DEF g
  <2>6. \A d \in Clients : GoodItem(log, grid'[d]) /\ (grid'[d] = Nil \/ grid'[d].kind = "grid")
    BY <1>0, <2>4, <2>5 DEF Held, AllGood
  <2>. QED  BY <2>0, <2>2, <2>3, <2>6 DEF Held, HeldNext, AllGood
<1>. QED  BY <1>2, <1>3, <1>4, <1>5, <1>6 DEF ClientStep

\* Other events.
LEMMA BroadcastGood ==
  ASSUME NEW log, TypeOK, Held(log), NEW to, BroadcastDomain(to)
  PROVE  HeldNext(log)
<1>1. \A c \in Clients : out[c] \in Seq(Items) /\ GoodQueue(log, out[c])
  BY DEF TypeOK, RegistryType, Held, AllGood
<1>2. \A c \in Clients : GoodQueue(log, Append(out[c], Note))
  BY <1>1, PlainGood, ItemTypes, QueueGood
<1>3. \A c \in Clients : GoodQueue(log, out'[c])
  BY <1>1, <1>2 DEF BroadcastDomain, TrySend
<1>. QED  BY <1>3 DEF BroadcastDomain, server, client, Held, HeldNext, AllGood

-----------------------------------------------------------------------------
(***************************************************************************)
(* The inductive invariant.                                                *)
(***************************************************************************)

\* What a resize does to the screen.
LEMMA ResizeShape ==
  ASSUME TypeOK, ScreenShape, NEW n \in Sizes, ResizeEngine(n)
  PROVE  /\ ScreenShape'
         /\ \A r \in Present(screen') \ damage' :
              r \in Present(screen) \ damage /\ screen'[r] = screen[r]
<1>1. CASE n = size
  BY <1>1 DEF ResizeEngine, ScreenShape
<1>2. CASE n # size
  <2>1. size' = n /\ screen' = Painted(n, clock + 1) /\ damage' = 1..n /\ clock' = clock + 1
    BY <1>2 DEF ResizeEngine
  <2>2. clock \in Nat /\ n \in Nat /\ Row \subseteq Nat \ {0}
    BY SizeRows DEF TypeOK, RuntimeType
  <2>3. \A r \in Row : screen'[r] = IF r <= n THEN clock + 1 ELSE Absent
    BY <2>1 DEF Painted
  <2>4. ScreenShape'
    BY <2>1, <2>2, <2>3 DEF ScreenShape, Absent
  <2>5. Present(screen') \subseteq 1..n
    <3>1. ASSUME NEW r \in Row, screen'[r] # Absent PROVE r \in 1..n
      BY <2>2, <2>3, <3>1
    <3>. QED  BY <3>1 DEF Present
  <2>. QED  BY <2>1, <2>4, <2>5
<1>. QED  BY <1>1, <1>2

\* What output does to the screen.
LEMMA FeedShape ==
  ASSUME TypeOK, ScreenShape, NEW V \in SUBSET Row, V \subseteq 1..size,
         screen' = Written(V), clock' = (IF V = {} THEN clock ELSE clock + 1), size' = size
  PROVE  /\ ScreenShape'
         /\ Present(screen') = 1..size
         /\ \A r \in Row \ V : screen'[r] = screen[r]
<1>1. clock \in Nat /\ clock > 0 /\ size \in Nat /\ Row \subseteq Nat \ {0} /\ 1..size \subseteq Row
  BY SizeRows DEF TypeOK, RuntimeType, ScreenShape
<1>2. \A r \in Row : screen'[r] = IF r \in V THEN clock + 1 ELSE screen[r]
  BY DEF Written
<1>3. ScreenShape'
  BY <1>1, <1>2 DEF ScreenShape, Absent
<1>4. Present(screen') = 1..size
  <2>1. ASSUME NEW r \in Row PROVE screen'[r] # Absent <=> r \in 1..size
    BY <1>1, <1>2 DEF ScreenShape, Absent
  <2>. QED  BY <1>1, <2>1 DEF Present
<1>. QED  BY <1>2, <1>3, <1>4

\* Every step extends the log and keeps it consistent, and a delta it emits
\* is the one the log records.
LEMMA StepExtends ==
  ASSUME TypeOK, TypeOK', ScreenShape, Len(emitted) = seq, LogOK(Log), Next
  PROVE  /\ ScreenShape' /\ Len(emitted)' = seq' /\ Extends(Log', Log) /\ LogOK(Log')
         /\ PtyStep => \A D \in SUBSET Row :
              seq' = seq + 1 /\ emitted' = Append(emitted, [rows |-> D, screen |-> screen'])
                => GoodItem(Log', Delta(seq + 1, screen', D))
<1>0. seq \in Nat /\ seq + 1 # seq  BY DEF TypeOK, RuntimeType
<1>1. ASSUME UNCHANGED <<screen, damage, seq, emitted, clock, size>>
      PROVE  /\ ScreenShape' /\ Len(emitted)' = seq' /\ Extends(Log', Log) /\ LogOK(Log')
             /\ seq' # seq + 1
  <2>1. Log' = Log  BY <1>1 DEF Log
  <2>2. Log \in Logs  BY LogType
  <2>3. ScreenShape'  BY <1>1 DEF ScreenShape
  <2>. QED  BY <1>0, <1>1, <2>1, <2>2, <2>3, ExtendsRefl
<1>2. ASSUME NEW n \in Sizes, ResizeEngine(n), UNCHANGED <<seq, emitted>>
      PROVE  /\ ScreenShape' /\ Len(emitted)' = seq' /\ Extends(Log', Log) /\ LogOK(Log')
             /\ seq' # seq + 1
  BY <1>0, <1>2, ResizeShape, RepaintLog
<1>3. ASSUME NEW V \in SUBSET Row, NEW open \in BOOLEAN, NEW due \in BOOLEAN,
             PumpFeed(V, open, due)
      PROVE  /\ ScreenShape' /\ Len(emitted)' = seq' /\ Extends(Log', Log) /\ LogOK(Log')
             /\ \A D \in SUBSET Row :
                  seq' = seq + 1 /\ emitted' = Append(emitted, [rows |-> D, screen |-> screen'])
                    => GoodItem(Log', Delta(seq + 1, screen', D))
  <2>1. /\ V \subseteq 1..size /\ screen' = Written(V) /\ size' = size
        /\ clock' = IF V = {} THEN clock ELSE clock + 1
    BY <1>3 DEF PumpFeed, FeedOutcome
  <2>2. /\ ScreenShape' /\ Present(screen') = 1..size
        /\ \A r \in Row \ V : screen'[r] = screen[r]
    BY <2>1, FeedShape
  <2>3. Present(screen) = 1..size /\ damage \subseteq 1..size
        /\ 1..size \subseteq Row
    BY ShownRows, SizeRows DEF TypeOK, RuntimeType
  <2>4. CASE EmitNow(pending \/ V # {}, due)
    <3>. DEFINE D == damage \cup V
    <3>1. /\ seq' = seq + 1 /\ damage' = {}
          /\ emitted' = Append(emitted, [rows |-> D, screen |-> screen'])
      BY <1>3, <2>4 DEF PumpFeed
    <3>2. /\ D \in SUBSET Row /\ damage \subseteq D /\ D \subseteq Present(screen')
          /\ \A r \in Present(screen') \ D : r \in Present(screen) /\ screen'[r] = screen[r]
      BY <2>1, <2>2, <2>3
    <3>. HIDE DEF D
    <3>3. /\ Len(emitted)' = seq' /\ Extends(Log', Log) /\ LogOK(Log')
          /\ GoodItem(Log', Delta(seq + 1, screen', D))
      BY <3>1, <3>2, EmitLog
    <3>4. \A E \in SUBSET Row :
             emitted' = Append(emitted, [rows |-> E, screen |-> screen']) => E = D
      <4>1. emitted \in Seq(Entries)  BY DEF TypeOK, HistoryType, Entries
      <4>2. \A x : Append(emitted, x)[Len(emitted) + 1] = x  BY <4>1
      <4>. QED  BY <3>1, <4>2
    <3>. QED  BY <2>2, <3>3, <3>4
  <2>5. CASE ~ EmitNow(pending \/ V # {}, due)
    <3>1. UNCHANGED <<seq, emitted>> /\ damage' = damage \cup V
      BY <1>3, <2>5 DEF PumpFeed
    <3>2. \A r \in Present(screen') \ damage' :
             r \in Present(screen) \ damage /\ screen'[r] = screen[r]
      BY <2>2, <2>3, <3>1
    <3>. QED  BY <1>0, <2>2, <3>1, <3>2, RepaintLog
  <2>. QED  BY <2>4, <2>5
<1>4. CASE PtyStep
  <2>1. ASSUME \/ \E why \in {"data", "wake", "eof"} : PtyRead(why)
               \/ PumpSubscribed \/ TerminalExited
        PROVE  UNCHANGED <<screen, damage, seq, emitted, clock, size>>
    BY <2>1 DEF PtyRead, PumpSubscribed, TerminalExited, runtime, history
  <2>. QED  BY <1>1, <1>3, <1>4, <2>1 DEF PtyStep
<1>5. ASSUME NEW c \in Clients, HandlerStep(c) \/ ConnectionStep(c) \/ ClientStep(c)
      PROVE  /\ ScreenShape' /\ Len(emitted)' = seq' /\ Extends(Log', Log) /\ LogOK(Log')
             /\ seq' # seq + 1
  <2>0. window[c] \in Sizes  BY DEF TypeOK, ClientType
  <2>1. CASE AttachSnapshot(c)
    <3>1. UNCHANGED <<seq, emitted>>  BY <2>1 DEF AttachSnapshot, history
    <3>2. ResizeEngine(window[c]) \/ UNCHANGED <<size, screen, damage, clock>>
      BY <2>1 DEF AttachSnapshot
    <3>. QED  BY <1>1, <1>2, <2>0, <3>1, <3>2
  <2>2. CASE ResizeTerminal(c)
    <3>1. UNCHANGED <<seq, emitted>>  BY <2>2 DEF ResizeTerminal, history
    <3>2. ResizeEngine(window[c]) \/ UNCHANGED <<size, screen, damage, clock>>
      BY <2>2 DEF ResizeTerminal
    <3>. QED  BY <1>1, <1>2, <2>0, <3>1, <3>2
  <2>3. CASE HandlerStep(c) /\ ~ AttachSnapshot(c) /\ ~ ResizeTerminal(c)
    <3>1. UNCHANGED <<screen, damage, seq, emitted, clock, size>>
      BY <2>3 DEF HandlerStep, AttachCount, DetachTerminal, Respond, FinishAttach,
                  RecoverOwed, runtime, history
    <3>. QED  BY <1>1, <3>1
  <2>4. CASE ConnectionStep(c)
    <3>1. UNCHANGED <<screen, damage, seq, emitted, clock, size>>
      BY <2>4 DEF ConnectionStep, Deliver, WriterRecover, ClientEof, ClientClose,
                  ServerClose, Connect, runtime, history
    <3>. QED  BY <1>1, <3>1
  <2>5. CASE ClientStep(c)
    <3>1. UNCHANGED <<screen, damage, seq, emitted, clock, size>>
      BY <2>5 DEF ClientStep, StartAttach, StartDetach, StartResize, TakeReply,
                  ApplyEvent, runtime, history
    <3>. QED  BY <1>1, <3>1
  <2>. QED  BY <1>5, <2>1, <2>2, <2>3, <2>4, <2>5
<1>6. ASSUME NEW to, BroadcastDomain(to)
      PROVE  /\ ScreenShape' /\ Len(emitted)' = seq' /\ Extends(Log', Log) /\ LogOK(Log')
             /\ seq' # seq + 1
  <2>1. UNCHANGED <<screen, damage, seq, emitted, clock, size>>
    BY <1>6 DEF BroadcastDomain, runtime
  <2>. QED  BY <1>1, <2>1
<1>. QED  BY <1>4, <1>5, <1>6 DEF Next

\* The invariant holds at the start.
LEMMA InitInvariant == Init => IInv
<1>. SUFFICES ASSUME Init PROVE IInv  OBVIOUS
<1>1. TypeOK  BY InitTypes
<1>2. ScreenShape
  <2>1. size \in Nat  BY SizeRows DEF Init
  <2>2. \A r \in Row : screen[r] = IF r <= size THEN 1 ELSE Absent  BY DEF Init, Painted
  <2>. QED  BY <2>2 DEF Init, ScreenShape, Absent
<1>3. Len(emitted) = seq /\ seq = 0  BY DEF Init
<1>4. Len(Log) = 1  BY <1>1, <1>3, LogType
<1>5. LogOK(Log)  BY <1>4 DEF LogOK
<1>6. AllGood(Log, out, evq, reply, req, finished, grid)
  <2>1. GoodItem(Log, Nil) /\ GoodQueue(Log, <<>>)  BY PlainGood DEF GoodQueue
  <2>. QED  BY <2>1 DEF AllGood, Init, NoReq, Request
<1>. QED  BY <1>1, <1>2, <1>3, <1>5, <1>6 DEF IInv

\* Every step keeps the invariant.
LEMMA StreamStep ==
  ASSUME IInv, Next
  PROVE  IInv'
<1>1. /\ TypeOK /\ ScreenShape /\ Len(emitted) = seq /\ LogOK(Log) /\ Held(Log)
  BY DEF IInv, Held
<1>2. TypeOK'
  <2>1. TypeOK /\ [Next]_vars => TypeOK'  BY TypeStep
  <2>. QED  BY <1>1, <2>1
<1>3. /\ ScreenShape' /\ Len(emitted)' = seq' /\ Extends(Log', Log) /\ LogOK(Log')
      /\ PtyStep => \A D \in SUBSET Row :
           seq' = seq + 1 /\ emitted' = Append(emitted, [rows |-> D, screen |-> screen'])
             => GoodItem(Log', Delta(seq + 1, screen', D))
  BY <1>1, <1>2, StepExtends
<1>4. Log \in Logs /\ Log' \in Logs
  BY <1>1, <1>2, <1>3, LogType, NextLog
<1>5. Held(Log')  BY <1>1, <1>3, <1>4, HeldExtends
<1>6. Fresh(Log')  BY <1>2, <1>3, NextLog DEF Fresh
<1>7. HeldNext(Log')
  BY <1>1, <1>3, <1>4, <1>5, <1>6, PtyGood, HandlerGood, ConnectionGood, ClientGood,
     BroadcastGood DEF Next
<1>. QED  BY <1>2, <1>3, <1>7 DEF IInv, HeldNext

(***************************************************************************)
(* Every queue, pending response and replica of every client stays         *)
(* consistent with what the engine emitted, under all interleavings of the *)
(* PTY thread, the handlers, the writers and the clients.                  *)
(***************************************************************************)
THEOREM StreamInvariant == Spec => []IInv
<1>1. IInv /\ UNCHANGED vars => IInv'
  <2>. SUFFICES ASSUME IInv, UNCHANGED vars PROVE IInv'  OBVIOUS
  <2>1. TypeOK'
    BY UnchangedTypes DEF IInv, TypeOK, vars
  <2>2. UNCHANGED <<screen, size, clock, seq, emitted, damage>>
    BY DEF vars, runtime, history
  <2>3. UNCHANGED <<out, evq, reply, req, finished, grid>>
    BY DEF vars, registry, client, server
  <2>4. Log' = Log  BY <2>2 DEF Log
  <2>. QED  BY <2>1, <2>2, <2>3, <2>4 DEF IInv, ScreenShape, AllGood
<1>2. IInv /\ Next => IInv'  BY StreamStep
<1>. QED  BY <1>1, <1>2, InitInvariant, PTL DEF Spec

(***************************************************************************)
(* A client's replica at the last emitted sequence number shows the        *)
(* engine's row everywhere except where damage is still to be emitted.     *)
(***************************************************************************)
THEOREM ReplicasConsistent == Spec => []ReplicaConsistent
<1>1. IInv => ReplicaConsistent
  <2>. SUFFICES ASSUME IInv, NEW c \in Clients, grid[c] # Nil
                PROVE  /\ grid[c].seq <= seq
                       /\ grid[c].seq = seq =>
                            \A r \in (1..size) \ damage : grid[c].rows[r] = screen[r]
    BY DEF ReplicaConsistent
  <2>1. TypeOK /\ ScreenShape /\ Len(emitted) = seq  BY DEF IInv
  <2>2. UpToDate(Log, grid[c])  BY DEF IInv, AllGood, GoodItem
  <2>3. /\ Len(Log) = seq + 1 /\ seq \in Nat /\ grid[c].seq \in Nat
        /\ Log[seq + 1] = [rows |-> damage, screen |-> screen]
    BY <2>1, LogType DEF TypeOK, RuntimeType, ClientType, Items
  <2>4. Present(screen) = 1..size  BY <2>1, ShownRows
  <2>5. grid[c].seq <= seq  BY <2>2, <2>3 DEF UpToDate
  <2>6. ASSUME grid[c].seq = seq, NEW r \in (1..size) \ damage
        PROVE  grid[c].rows[r] = screen[r]
    <3>1. Log[grid[c].seq + 1].screen = screen /\ Log[grid[c].seq + 1].rows = damage
      BY <2>3, <2>6
    <3>2. r \in Present(screen) \ damage  BY <2>4, <2>6
    <3>. QED  BY <2>2, <3>1, <3>2 DEF UpToDate
  <2>. QED  BY <2>5, <2>6
<1>. QED  BY <1>1, StreamInvariant, PTL

-----------------------------------------------------------------------------
(***************************************************************************)
(* A replica never goes back.  A client has one request outstanding, and   *)
(* applies no event while it waits: so the snapshot in an answer, which    *)
(* overtakes the events queued before it, is never older than the replica  *)
(* it will replace.                                                        *)
(***************************************************************************)

IsResponse(m) == m.kind \in Responses

\* No response is in q; at most one is.
Quiet(q) == \A i \in 1..Len(q) : ~ IsResponse(q[i])
Single(q) == \A i, j \in 1..Len(q) : IsResponse(q[i]) /\ IsResponse(q[j]) => i = j

\* What client c waits for is in one place at most: its handler, the queue of
\* its connection or its own hands.
Outstanding(c) ==
  /\ ~ IsResponse(finished[c])
  /\ req[c].phase # "respond" => ~ IsAck(req[c].resp)
  /\ c \notin up => out[c] = <<>> /\ reply[c] = Nil /\ grid[c] = Nil
  /\ c \in up /\ task[c] = "none" => req[c] = NoReq
  /\ task[c] = "none" => reply[c] = Nil /\ Quiet(out[c])
  /\ req[c] # NoReq => reply[c] = Nil /\ Quiet(out[c])
  /\ reply[c] # Nil => Quiet(out[c])
  /\ Single(out[c])

\* No snapshot on its way to c is older than what c shows.
Newer(g, m) == IsAck(m) => m.seq >= g.seq
NewerSnapshots(c) ==
  grid[c] # Nil =>
     /\ Newer(grid[c], reply[c]) /\ Newer(grid[c], req[c].resp)
     /\ \A i \in 1..Len(out[c]) : Newer(grid[c], out[c][i])

OrderInv == \A c \in Clients : Outstanding(c) /\ NewerSnapshots(c)


\* What appending and removing do to a queue.
LEMMA QueueResponses ==
  ASSUME NEW q \in Seq(Items), NEW m \in Items
  PROVE  /\ Quiet(<<>>) /\ Single(<<>>)
         /\ Quiet(q) => Single(q)
         /\ ~ IsResponse(m) => /\ Quiet(q) => Quiet(Append(q, m))
                               /\ Single(q) => Single(Append(q, m))
         /\ Quiet(q) => Single(Append(q, m))
         /\ q # <<>> => /\ Quiet(q) => Quiet(Tail(q))
                        /\ Single(q) => Single(Tail(q))
                        /\ IsResponse(Head(q)) => ~ Quiet(q)
                        /\ IsResponse(Head(q)) /\ Single(q) => Quiet(Tail(q))
<1>1. /\ Quiet(<<>>) /\ Single(<<>>)
      /\ Quiet(q) => Single(q)
  BY DEF Quiet, Single
<1>2. /\ Len(q) \in Nat /\ Len(Append(q, m)) = Len(q) + 1 /\ Append(q, m)[Len(q) + 1] = m
      /\ \A i \in 1..Len(q) : Append(q, m)[i] = q[i]
  OBVIOUS
<1>3. \A i \in 1..(Len(q) + 1) : i \in 1..Len(q) \/ i = Len(q) + 1  BY <1>2
<1>4. ~ IsResponse(m) => /\ Quiet(q) => Quiet(Append(q, m))
                         /\ Single(q) => Single(Append(q, m))
  BY <1>2, <1>3 DEF Quiet, Single
<1>5. Quiet(q) => Single(Append(q, m))
  BY <1>2, <1>3 DEF Quiet, Single
<1>6. ASSUME q # <<>>
      PROVE  /\ Quiet(q) => Quiet(Tail(q))
             /\ Single(q) => Single(Tail(q))
             /\ IsResponse(Head(q)) => ~ Quiet(q)
             /\ IsResponse(Head(q)) /\ Single(q) => Quiet(Tail(q))
  <2>1. /\ Len(q) \in Nat /\ Len(q) > 0 /\ Len(Tail(q)) = Len(q) - 1 /\ Head(q) = q[1]
        /\ \A i \in 1..(Len(q) - 1) : Tail(q)[i] = q[i + 1]
    BY <1>6
  <2>2. /\ \A i \in 1..(Len(q) - 1) : i + 1 \in 1..Len(q) /\ i + 1 # 1
        /\ \A i, j \in 1..(Len(q) - 1) : i + 1 = j + 1 => i = j
        /\ 1 \in 1..Len(q)
    BY <2>1
  <2>3. Quiet(q) => Quiet(Tail(q))  BY <2>1, <2>2 DEF Quiet
  <2>4. Single(q) => Single(Tail(q))  BY <2>1, <2>2 DEF Single
  <2>5. IsResponse(Head(q)) => ~ Quiet(q)  BY <2>1, <2>2 DEF Quiet
  <2>6. IsResponse(Head(q)) /\ Single(q) => Quiet(Tail(q))
    BY <2>1, <2>2 DEF Quiet, Single
  <2>. QED  BY <2>3, <2>4, <2>5, <2>6
<1>. QED  BY <1>1, <1>4, <1>5, <1>6

\* The same for the snapshots in it.
AllNewer(g, q) == \A i \in 1..Len(q) : Newer(g, q[i])

LEMMA QueueNewer ==
  ASSUME NEW q \in Seq(Items), NEW m \in Items, NEW g
  PROVE  /\ AllNewer(g, <<>>)
         /\ Quiet(q) => AllNewer(g, q)
         /\ AllNewer(g, q) /\ Newer(g, m) => AllNewer(g, Append(q, m))
         /\ q # <<>> /\ AllNewer(g, q) => AllNewer(g, Tail(q)) /\ Newer(g, Head(q))
<1>1. AllNewer(g, <<>>)  BY DEF AllNewer
<1>2. Quiet(q) => AllNewer(g, q)
  BY DEF Quiet, AllNewer, Newer, IsAck, IsResponse, Responses
<1>3. ASSUME AllNewer(g, q), Newer(g, m) PROVE AllNewer(g, Append(q, m))
  <2>1. /\ Len(q) \in Nat /\ Len(Append(q, m)) = Len(q) + 1 /\ Append(q, m)[Len(q) + 1] = m
        /\ \A i \in 1..Len(q) : Append(q, m)[i] = q[i]
    OBVIOUS
  <2>2. \A i \in 1..(Len(q) + 1) : i \in 1..Len(q) \/ i = Len(q) + 1  BY <2>1
  <2>. QED  BY <1>3, <2>1, <2>2 DEF AllNewer
<1>4. ASSUME q # <<>>, AllNewer(g, q) PROVE AllNewer(g, Tail(q)) /\ Newer(g, Head(q))
  <2>1. /\ Len(q) \in Nat /\ Len(q) > 0 /\ Len(Tail(q)) = Len(q) - 1 /\ Head(q) = q[1]
        /\ \A i \in 1..(Len(q) - 1) : Tail(q)[i] = q[i + 1]
    BY <1>4
  <2>2. /\ \A i \in 1..(Len(q) - 1) : i + 1 \in 1..Len(q)
        /\ 1 \in 1..Len(q)
    BY <2>1
  <2>. QED  BY <1>4, <2>1, <2>2 DEF AllNewer
<1>. QED  BY <1>1, <1>2, <1>3, <1>4

\* Events queued for a client, and steps of others, leave it as it was.
LEMMA EventOrder ==
  ASSUME TypeOK, NEW d \in Clients, Outstanding(d), NewerSnapshots(d),
         req'[d] = req[d], reply'[d] = reply[d], task'[d] = task[d], grid'[d] = grid[d],
         d \in up' <=> d \in up,
         ~ IsResponse(finished'[d]),
         \/ out'[d] = out[d]
         \/ d \in up /\ \E m \in Items : ~ IsResponse(m) /\ out'[d] = Append(out[d], m)
  PROVE  Outstanding(d)' /\ NewerSnapshots(d)'
<1>1. out[d] \in Seq(Items)  BY DEF TypeOK, RegistryType
<1>2. CASE out'[d] = out[d]
  BY <1>2 DEF Outstanding, NewerSnapshots
<1>3. ASSUME d \in up, NEW m \in Items, ~ IsResponse(m), out'[d] = Append(out[d], m)
      PROVE  Outstanding(d)' /\ NewerSnapshots(d)'
  <2>1. /\ Quiet(out[d]) => Quiet(out'[d])
        /\ Single(out[d]) => Single(out'[d])
    BY <1>1, <1>3, QueueResponses
  <2>2. AllNewer(grid[d], out[d]) => AllNewer(grid[d], out'[d])
    BY <1>1, <1>3, QueueNewer DEF Newer, IsAck, IsResponse, Responses
  <2>3. Outstanding(d)'  BY <1>3, <2>1 DEF Outstanding
  <2>4. NewerSnapshots(d)'  BY <2>2 DEF NewerSnapshots, AllNewer
  <2>. QED  BY <2>3, <2>4
<1>. QED  BY <1>2, <1>3

\* What a recovery sends is an event, sent to a client that is there.
LEMMA RecoverOrder ==
  ASSUME TypeOK, OrderInv, NEW c \in Clients, NEW d \in Clients, recover(c)
  PROVE  /\ ~ IsResponse(finished'[d])
         /\ \/ out'[d] = out[d]
            \/ d \in up /\ \E m \in Items : ~ IsResponse(m) /\ out'[d] = Append(out[d], m)
<1>1. out \in [Clients -> Seq(Items)] /\ finished \in [Clients -> Items]
  BY DEF TypeOK, RegistryType
<1>2. RecoveryEvent(c) \in Items
  BY PatchTypes, ItemTypes DEF RecoveryEvent, TypeOK, RuntimeType, RegistryType
<1>3. ~ IsResponse(Nil) /\ \A n, s : ~ IsResponse(Snapshot("resync", n, s))
  BY DEF IsResponse, Responses, Nil, Snapshot, Item
<1>4. ~ IsResponse(finished[c]) /\ ~ IsResponse(finished[d])
  BY DEF OrderInv, Outstanding
<1>5. ~ IsResponse(RecoveryEvent(c))  BY <1>3, <1>4 DEF RecoveryEvent
<1>6. ~ IsResponse(finished'[d])
  BY <1>1, <1>3, <1>4, <1>5 DEF recover
<1>7. out' = out \/ (c \in up /\ out' = [out EXCEPT ![c] = Append(@, RecoveryEvent(c))])
  BY DEF recover, Full
<1>8. CASE out' = out  BY <1>6, <1>8
<1>9. CASE c \in up /\ out' = [out EXCEPT ![c] = Append(@, RecoveryEvent(c))]
  <2>1. c = d => out'[d] = Append(out[d], RecoveryEvent(c))  BY <1>1, <1>9
  <2>2. c # d => out'[d] = out[d]  BY <1>1, <1>9
  <2>. QED  BY <1>2, <1>5, <1>6, <1>9, <2>1, <2>2
<1>. QED  BY <1>7, <1>8, <1>9

\* A closed connection holds nothing.
LEMMA ClosedOrder ==
  ASSUME TypeOK, NEW c \in Clients, Outstanding(c), Disconnect(c),
         UNCHANGED <<req, finished>>
  PROVE  Outstanding(c)' /\ NewerSnapshots(c)'
<1>1. c \notin up' /\ out'[c] = <<>> /\ reply'[c] = Nil /\ grid'[c] = Nil
  BY DEF Disconnect, TypeOK, RegistryType, ClientType
<1>2. Quiet(<<>>) /\ Single(<<>>)  BY DEF Quiet, Single
<1>. QED  BY <1>1, <1>2 DEF Outstanding, NewerSnapshots


\* The PTY thread's output and its last words are events.
LEMMA PtyOrder ==
  ASSUME TypeOK, OrderInv, PtyStep, NEW d \in Clients
  PROVE  Outstanding(d)' /\ NewerSnapshots(d)'
<1>0. /\ Outstanding(d) /\ NewerSnapshots(d) /\ ~ IsResponse(finished[d])
      /\ out \in [Clients -> Seq(Items)]
  BY DEF OrderInv, Outstanding, TypeOK, RegistryType
<1>1. req' = req /\ reply' = reply /\ task' = task /\ grid' = grid /\ up' = up
  BY DEF PtyStep, PtyRead, PumpSubscribed, PumpFeed, TerminalExited, server, client
<1>2. ~ IsResponse(finished'[d])
  <2>1. finished' = finished \/ finish_terminal
    BY DEF PtyStep, PtyRead, PumpSubscribed, PumpFeed, TerminalExited, registry
  <2>2. ~ IsResponse(Snapshot("resync", seq, screen))
    BY DEF IsResponse, Responses, Snapshot, Item
  <2>. QED  BY <1>0, <2>1, <2>2 DEF finish_terminal
<1>3. \/ out'[d] = out[d]
      \/ d \in up /\ \E m \in Items : ~ IsResponse(m) /\ out'[d] = Append(out[d], m)
  <2>1. ASSUME NEW V \in SUBSET Row, NEW open \in BOOLEAN, NEW due \in BOOLEAN,
               PumpFeed(V, open, due)
        PROVE  \/ out'[d] = out[d]
               \/ d \in up /\ \E m \in Items : ~ IsResponse(m) /\ out'[d] = Append(out[d], m)
    <3>. DEFINE e == Delta(seq + 1, Written(V), damage \cup V)
                r == Snapshot("resync", seq + 1, Written(V))
    <3>1. e \in Items /\ r \in Items
      <4>1. Written(V) \in Patches /\ seq + 1 \in Nat
        BY DEF Written, TypeOK, RuntimeType, Patches
      <4>. QED  BY <4>1, PatchTypes
    <3>2. ~ IsResponse(e) /\ ~ IsResponse(r)
      BY DEF IsResponse, Responses, Delta, Snapshot, Item
    <3>3. UNCHANGED out \/ route_terminal_delta(e, r)
      BY <2>1 DEF PumpFeed
    <3>. HIDE DEF e, r
    <3>4. CASE UNCHANGED out  BY <3>4
    <3>5. CASE route_terminal_delta(e, r)
      <4>1. \/ out'[d] = out[d]
            \/ d \in up /\ out'[d] \in {Append(out[d], e), Append(out[d], r)}
        BY <3>5 DEF route_terminal_delta, Full, TakesDelta
      <4>. QED  BY <3>1, <3>2, <4>1
    <3>. QED  BY <3>3, <3>4, <3>5
  <2>2. CASE \/ \E why \in {"data", "wake", "eof"} : PtyRead(why)
             \/ PumpSubscribed \/ TerminalExited
    BY <2>2 DEF PtyRead, PumpSubscribed, TerminalExited, registry
  <2>. QED  BY <2>1, <2>2 DEF PtyStep
<1>. QED  BY <1>0, <1>1, <1>2, <1>3, EventOrder

\* So is any other event of the daemon.
LEMMA BroadcastOrder ==
  ASSUME TypeOK, OrderInv, NEW to, BroadcastDomain(to), NEW d \in Clients
  PROVE  Outstanding(d)' /\ NewerSnapshots(d)'
<1>0. /\ Outstanding(d) /\ NewerSnapshots(d) /\ ~ IsResponse(finished[d])
  BY DEF OrderInv, Outstanding
<1>1. /\ req' = req /\ reply' = reply /\ task' = task /\ grid' = grid /\ up' = up
      /\ finished' = finished
  BY DEF BroadcastDomain, server, client
<1>2. Note \in Items /\ ~ IsResponse(Note)
  BY ItemTypes DEF Note, Item, IsResponse, Responses
<1>3. out'[d] = out[d] \/ (d \in up /\ out'[d] = Append(out[d], Note))
  BY DEF BroadcastDomain, TrySend, Full
<1>. QED  BY <1>0, <1>1, <1>2, <1>3, EventOrder

\* A handler at work holds the one request of its client, and answers with a
\* snapshot that is as new as any.
LEMMA HandlerOrder ==
  ASSUME IInv, OrderInv, NEW c \in Clients, HandlerStep(c), NEW d \in Clients
  PROVE  Outstanding(d)' /\ NewerSnapshots(d)'
<1>0. /\ TypeOK /\ Outstanding(d) /\ NewerSnapshots(d) /\ Outstanding(c) /\ NewerSnapshots(c)
      /\ out \in [Clients -> Seq(Items)] /\ req \in [Clients -> Requests]
      /\ finished \in [Clients -> Items]
      /\ ~ IsResponse(finished[d]) /\ ~ IsResponse(finished[c])
  BY DEF IInv, OrderInv, Outstanding, TypeOK, RegistryType, ServerType
<1>1. /\ reply' = reply /\ task' = task /\ grid' = grid /\ up' = up
  BY DEF HandlerStep, AttachCount, AttachSnapshot, ResizeTerminal, DetachTerminal, Respond,
         FinishAttach, RecoverOwed, client
<1>2. ~ IsResponse(Nil)  BY DEF Nil, Item, IsResponse, Responses
<1>3. ASSUME finished' = finished \/ unsubscribe(c)
      PROVE  ~ IsResponse(finished'[d]) /\ ~ IsResponse(finished'[c])
  BY <1>0, <1>2, <1>3 DEF unsubscribe
<1>4. ASSUME NEW q \in Requests, req[c] # NoReq, q # NoReq, out' = out,
             req' = [req EXCEPT ![c] = q],
             IsAck(q.resp) => q.phase = "respond" /\ q.resp.seq = seq,
             finished' = finished \/ unsubscribe(c)
      PROVE  Outstanding(d)' /\ NewerSnapshots(d)'
  <2>1. CASE d # c
    <3>1. req'[d] = req[d]  BY <1>0, <1>4, <2>1
    <3>. QED  BY <1>0, <1>1, <1>3, <1>4, <3>1, EventOrder
  <2>2. CASE d = c
    <3>1. req'[c] = q  BY <1>0, <1>4
    <3>2. Outstanding(c)'
      BY <1>0, <1>1, <1>3, <1>4, <3>1 DEF Outstanding
    <3>3. grid[c] # Nil => grid[c].seq <= seq
      <4>1. UpToDate(Log, grid[c]) \/ grid[c] = Nil
        BY DEF IInv, AllGood, GoodItem
      <4>2. Len(Log) = seq + 1 /\ seq \in Nat /\ grid[c].seq \in Nat
        BY <1>0, LogType DEF IInv, TypeOK, RuntimeType, ClientType, Items
      <4>. QED  BY <4>1, <4>2 DEF UpToDate
    <3>4. NewerSnapshots(c)'
      <4>1. grid[c] # Nil => Newer(grid[c], q.resp)
        BY <1>4, <3>3 DEF Newer
      <4>. QED  BY <1>0, <1>1, <1>4, <3>1, <4>1 DEF NewerSnapshots
    <3>. QED  BY <2>2, <3>2, <3>4
  <2>. QED  BY <2>1, <2>2
<1>5. ASSUME NEW m \in Items, req[c] # NoReq, out' = out, Answer(c, m),
             IsAck(m) => m.seq = seq,
             finished' = finished \/ unsubscribe(c)
      PROVE  Outstanding(d)' /\ NewerSnapshots(d)'
  <2>1. Request("none", "respond", FALSE, m) \in Requests
    BY <1>0, <1>5, RequestTypes DEF TypeOK, Ops
  <2>2. /\ Request("none", "respond", FALSE, m) # NoReq
        /\ Request("none", "respond", FALSE, m).resp = m
        /\ Request("none", "respond", FALSE, m).phase = "respond"
    BY DEF Request, NoReq
  <2>. QED  BY <1>4, <1>5, <2>1, <2>2 DEF Answer
<1>6. \A op, ph : ph # "none" /\ Handling(c, op, ph) => req[c] # NoReq
  BY DEF Handling, NoReq, Request
<1>7. CASE AttachCount(c)
  <2>1. Request("attach", "counted", subs # {}, Nil) \in Requests
    BY <1>0, ItemTypes, RequestTypes DEF TypeOK, Ops
  <2>2. /\ Request("attach", "counted", subs # {}, Nil) # NoReq
        /\ ~ IsAck(Request("attach", "counted", subs # {}, Nil).resp)
    BY DEF Request, NoReq, IsAck, Nil, Item
  <2>. QED  BY <1>4, <1>6, <1>7, <2>1, <2>2 DEF AttachCount, registry
<1>8. CASE AttachSnapshot(c)
  <2>1. out' = out /\ finished' = finished /\ req[c] # NoReq
    BY <1>6, <1>8 DEF AttachSnapshot
  <2>2. CASE Answer(c, Err)
    BY <1>5, <2>1, <2>2, ItemTypes DEF Err, Item, IsAck
  <2>3. CASE Answer(c, Snapshot("ack", seq, screen'))
    <3>1. TypeOK'  BY <1>0, TypeStep DEF Next
    <3>2. Snapshot("ack", seq, screen') \in Items
      BY <1>0, <3>1, PatchTypes DEF TypeOK, RuntimeType
    <3>3. Snapshot("ack", seq, screen').seq = seq  BY DEF Snapshot, Item
    <3>. QED  BY <1>5, <2>1, <2>3, <3>2, <3>3
  <2>. QED  BY <1>8, <2>2, <2>3 DEF AttachSnapshot
<1>9. CASE ResizeTerminal(c)
  <2>1. out' = out /\ finished' = finished /\ req[c] # NoReq
    BY <1>6, <1>9 DEF ResizeTerminal, registry
  <2>2. Answer(c, Ok) \/ Answer(c, Err)  BY <1>9 DEF ResizeTerminal
  <2>. QED  BY <1>5, <2>1, <2>2, ItemTypes DEF Ok, Err, Item, IsAck
<1>10. CASE DetachTerminal(c)
  <2>1. out' = out /\ unsubscribe(c) /\ req[c] # NoReq /\ Answer(c, Ok)
    BY <1>6, <1>10 DEF DetachTerminal
  <2>. QED  BY <1>5, <2>1, ItemTypes DEF Ok, Item, IsAck
<1>11. CASE Respond(c)
  <2>1. /\ req[c].phase = "respond" /\ req[c] # NoReq /\ req' = [req EXCEPT ![c] = NoReq]
        /\ finished' = finished \/ unsubscribe(c)
        /\ \/ out' = out /\ (c \notin up \/ Len(out[c]) >= Capacity \/ c \notin registered)
           \/ c \in up /\ out' = [out EXCEPT ![c] = Append(@, req[c].resp)]
    BY <1>11 DEF Respond, unregister, NoReq, Request, Full
  <2>2. reply[c] = Nil /\ Quiet(out[c]) /\ req[c].resp \in Items
    BY <1>0, <2>1 DEF Outstanding, Requests
  <2>3. ~ IsResponse(finished'[c]) /\ ~ IsResponse(finished'[d])  BY <1>3, <2>1
  <2>4. CASE d # c
    <3>1. req'[d] = req[d] /\ out'[d] = out[d]  BY <1>0, <2>1, <2>4
    <3>. QED  BY <1>0, <1>1, <2>3, <3>1, EventOrder
  <2>5. CASE d = c
    <3>1. req'[c] = NoReq  BY <1>0, <2>1
    <3>2. task[c] # "none" \/ c \notin up  BY <1>0, <2>1 DEF Outstanding
    <3>3. ~ IsAck(NoReq.resp)  BY DEF NoReq, Request, Nil, Item, IsAck
    <3>4. CASE out' = out
      <4>1. Outstanding(c)'
        BY <1>0, <1>1, <2>2, <2>3, <3>1, <3>3, <3>4 DEF Outstanding
      <4>2. NewerSnapshots(c)'
        BY <1>0, <1>1, <3>1, <3>3, <3>4 DEF NewerSnapshots, Newer
      <4>. QED  BY <2>5, <4>1, <4>2
    <3>5. CASE c \in up /\ out' = [out EXCEPT ![c] = Append(@, req[c].resp)]
      <4>1. out'[c] = Append(out[c], req[c].resp) /\ out[c] \in Seq(Items)  BY <1>0, <3>5
      <4>2. Single(out'[c])  BY <2>2, <4>1, QueueResponses
      <4>3. Outstanding(c)'
        BY <1>0, <1>1, <2>2, <2>3, <3>1, <3>2, <3>3, <3>5, <4>2 DEF Outstanding
      <4>4. grid[c] # Nil => AllNewer(grid[c], out'[c])
        BY <1>0, <2>2, <4>1, QueueNewer DEF NewerSnapshots, AllNewer
      <4>5. NewerSnapshots(c)'
        BY <1>0, <1>1, <3>1, <3>3, <4>4 DEF NewerSnapshots, AllNewer, Newer
      <4>. QED  BY <2>5, <4>3, <4>5
    <3>. QED  BY <2>1, <3>4, <3>5
  <2>. QED  BY <2>4, <2>5
<1>12. CASE FinishAttach(c)
  <2>1. out' = out /\ finished' = finished /\ req' = req  BY <1>12 DEF FinishAttach
  <2>. QED  BY <1>0, <1>1, <2>1, EventOrder
<1>13. CASE RecoverOwed(c)
  <2>1. req' = req /\ recover(c)  BY <1>13 DEF RecoverOwed
  <2>2. /\ ~ IsResponse(finished'[d])
        /\ \/ out'[d] = out[d]
           \/ d \in up /\ \E m \in Items : ~ IsResponse(m) /\ out'[d] = Append(out[d], m)
    BY <1>0, <2>1, RecoverOrder
  <2>. QED  BY <1>0, <1>1, <2>1, <2>2, EventOrder
<1>. QED  BY <1>7, <1>8, <1>9, <1>10, <1>11, <1>12, <1>13 DEF HandlerStep


\* The writer hands over what the queue holds, in its order, and a closed
\* connection has nothing outstanding on the client's side.
LEMMA ConnectionOrder ==
  ASSUME TypeOK, OrderInv, NEW c \in Clients, ConnectionStep(c), NEW d \in Clients
  PROVE  Outstanding(d)' /\ NewerSnapshots(d)'
<1>0. /\ Outstanding(d) /\ NewerSnapshots(d) /\ Outstanding(c) /\ NewerSnapshots(c)
      /\ out \in [Clients -> Seq(Items)] /\ finished \in [Clients -> Items]
      /\ evq \in [Clients -> Seq(Items)] /\ reply \in [Clients -> Items]
      /\ task \in [Clients -> Ops] /\ grid \in [Clients -> Items]
      /\ ~ IsResponse(finished[d]) /\ ~ IsResponse(finished[c])
  BY DEF OrderInv, Outstanding, TypeOK, RegistryType, ClientType
<1>1. req' = req
  BY DEF ConnectionStep, Deliver, WriterRecover, ClientEof, ClientClose, ServerClose,
         Connect, server
<1>2. ASSUME d # c, out'[d] = out[d] \/ Disconnect(c), ~ IsResponse(finished'[d]),
             \/ UNCHANGED <<up, reply, task, grid>>
             \/ UNCHANGED <<up, task, grid>> /\ \E m : reply' = [reply EXCEPT ![c] = m]
             \/ up' = up \cup {c} /\ UNCHANGED <<reply, task, grid>>
             \/ Disconnect(c)
      PROVE  Outstanding(d)' /\ NewerSnapshots(d)'
  <2>1. out'[d] = out[d]  BY <1>0, <1>2 DEF Disconnect
  <2>2. /\ reply'[d] = reply[d] /\ task'[d] = task[d] /\ grid'[d] = grid[d]
        /\ d \in up' <=> d \in up
    BY <1>0, <1>2 DEF Disconnect
  <2>. QED  BY <1>0, <1>1, <1>2, <2>1, <2>2, EventOrder
<1>3. ASSUME Disconnect(c), UNCHANGED finished
      PROVE  Outstanding(d)' /\ NewerSnapshots(d)'
  <2>1. CASE d # c  BY <1>0, <1>2, <1>3, <2>1
  <2>2. CASE d = c  BY <1>0, <1>1, <1>3, <2>2, ClosedOrder
  <2>. QED  BY <2>1, <2>2
<1>4. CASE Deliver(c)
  <2>1. /\ c \in up /\ out[c] # <<>> /\ out[c] \in Seq(Items) /\ finished' = finished
        /\ Head(out[c]) \in Items
    BY <1>0, <1>4 DEF Deliver
  <2>2. CASE Disconnect(c)  BY <1>3, <2>1, <2>2
  <2>3. CASE /\ IsResponse(Head(out[c])) /\ reply' = [reply EXCEPT ![c] = Head(out[c])]
             /\ out' = [out EXCEPT ![c] = Tail(@)] /\ UNCHANGED <<up, evq, task, grid>>
    <3>1. CASE d # c
      <4>1. out'[d] = out[d]  BY <1>0, <2>3, <3>1
      <4>. QED  BY <1>0, <1>2, <2>1, <2>3, <3>1, <4>1
    <3>2. CASE d = c
      <4>1. out'[c] = Tail(out[c]) /\ reply'[c] = Head(out[c])  BY <1>0, <2>3
      <4>2. Single(out[c]) /\ ~ Quiet(out[c]) /\ Quiet(Tail(out[c])) /\ Single(Tail(out[c]))
        BY <1>0, <2>1, <2>3, QueueResponses DEF Outstanding
      <4>3. req[c] = NoReq /\ task[c] # "none"  BY <1>0, <4>2 DEF Outstanding
      <4>4. Outstanding(c)'
        BY <1>0, <1>1, <2>1, <2>3, <4>1, <4>2, <4>3 DEF Outstanding
      <4>5. grid[c] # Nil => AllNewer(grid[c], Tail(out[c])) /\ Newer(grid[c], Head(out[c]))
        BY <1>0, <2>1, QueueNewer DEF NewerSnapshots, AllNewer
      <4>6. NewerSnapshots(c)'
        BY <1>0, <1>1, <2>3, <4>1, <4>5 DEF NewerSnapshots, AllNewer
      <4>. QED  BY <3>2, <4>4, <4>6
    <3>. QED  BY <3>1, <3>2
  <2>4. CASE out' = [out EXCEPT ![c] = Tail(@)] /\ UNCHANGED <<up, reply, task, grid>>
    <3>1. CASE d # c
      <4>1. out'[d] = out[d]  BY <1>0, <2>4, <3>1
      <4>. QED  BY <1>0, <1>2, <2>1, <2>4, <3>1, <4>1
    <3>2. CASE d = c
      <4>1. out'[c] = Tail(out[c])  BY <1>0, <2>4
      <4>2. /\ Quiet(out[c]) => Quiet(Tail(out[c]))
            /\ Single(out[c]) => Single(Tail(out[c]))
        BY <2>1, QueueResponses
      <4>3. Outstanding(c)'
        BY <1>0, <1>1, <2>1, <2>4, <4>1, <4>2 DEF Outstanding
      <4>4. grid[c] # Nil => AllNewer(grid[c], Tail(out[c]))
        BY <1>0, <2>1, QueueNewer DEF NewerSnapshots, AllNewer
      <4>5. NewerSnapshots(c)'
        BY <1>0, <1>1, <2>4, <4>1, <4>4 DEF NewerSnapshots, AllNewer
      <4>. QED  BY <3>2, <4>3, <4>5
    <3>. QED  BY <3>1, <3>2
  <2>. QED  BY <1>4, <2>2, <2>3, <2>4 DEF Deliver, IsResponse
<1>5. CASE WriterRecover(c)
  <2>1. recover(c) /\ reply' = reply /\ task' = task /\ grid' = grid /\ up' = up
    BY <1>5 DEF WriterRecover, client
  <2>2. /\ ~ IsResponse(finished'[d])
        /\ \/ out'[d] = out[d]
           \/ d \in up /\ \E m \in Items : ~ IsResponse(m) /\ out'[d] = Append(out[d], m)
    BY <2>1, RecoverOrder
  <2>. QED  BY <1>0, <1>1, <2>1, <2>2, EventOrder
<1>6. CASE ClientEof(c) \/ ClientClose(c)
  BY <1>3, <1>6 DEF ClientEof, ClientClose
<1>7. CASE ServerClose(c)
  <2>1. /\ c \notin up /\ out' = [out EXCEPT ![c] = <<>>] /\ unsubscribe(c)
        /\ UNCHANGED <<up, reply, task, grid>>
    BY <1>7 DEF ServerClose, unregister, client
  <2>2. out[c] = <<>>  BY <1>0, <2>1 DEF Outstanding
  <2>3. out'[d] = out[d]  BY <1>0, <2>1, <2>2
  <2>4. ~ IsResponse(Nil)  BY DEF Nil, Item, IsResponse, Responses
  <2>5. ~ IsResponse(finished'[d])  BY <1>0, <2>1, <2>4 DEF unsubscribe
  <2>. QED  BY <1>0, <1>1, <2>1, <2>3, <2>5, EventOrder
<1>8. CASE Connect(c)
  <2>1. /\ c \notin up /\ out' = [out EXCEPT ![c] = <<>>] /\ finished' = finished
        /\ up' = up \cup {c} /\ UNCHANGED <<reply, task, grid>> /\ req[c] = NoReq
    BY <1>8 DEF Connect, Settled
  <2>2. out[c] = <<>> /\ reply[c] = Nil /\ grid[c] = Nil
    BY <1>0, <2>1 DEF Outstanding
  <2>3. out'[d] = out[d]  BY <1>0, <2>1, <2>2
  <2>4. CASE d # c
    BY <1>0, <1>2, <2>1, <2>3, <2>4
  <2>5. CASE d = c
    <3>1. Quiet(<<>>) /\ Single(<<>>)  BY DEF Quiet, Single
    <3>2. Outstanding(c)'
      BY <1>0, <1>1, <2>1, <2>2, <2>3, <2>5, <3>1 DEF Outstanding
    <3>3. NewerSnapshots(c)'  BY <2>1, <2>2 DEF NewerSnapshots
    <3>. QED  BY <2>5, <3>2, <3>3
  <2>. QED  BY <2>4, <2>5
<1>. QED  BY <1>4, <1>5, <1>6, <1>7, <1>8 DEF ConnectionStep

\* A client asks only when it waits for nothing; an answer it takes is the
\* only one there is; and an event it applies finds none on the way.
LEMMA ClientOrder ==
  ASSUME TypeOK, OrderInv, NEW c \in Clients, ClientStep(c), NEW d \in Clients
  PROVE  /\ Outstanding(d)' /\ NewerSnapshots(d)'
         /\ grid[d] # Nil /\ grid'[d] # Nil => grid'[d].seq >= grid[d].seq
<1>0. /\ Outstanding(d) /\ NewerSnapshots(d) /\ Outstanding(c) /\ NewerSnapshots(c)
      /\ out \in [Clients -> Seq(Items)] /\ req \in [Clients -> Requests]
      /\ evq \in [Clients -> Seq(Items)] /\ reply \in [Clients -> Items]
      /\ task \in [Clients -> Ops] /\ grid \in [Clients -> Items]
      /\ ~ IsResponse(finished[d]) /\ ~ IsResponse(finished[c])
      /\ grid[d].seq \in Nat /\ grid[c].seq \in Nat
  BY DEF OrderInv, Outstanding, TypeOK, RegistryType, ClientType, ServerType, Items
<1>1. out' = out /\ finished' = finished /\ up' = up
  BY DEF ClientStep, StartAttach, StartDetach, StartResize, TakeReply, ApplyEvent, registry
<1>2. CASE d # c
  <2>1. \A op : Send(c, op) => req'[d] = req[d] /\ task'[d] = task[d]
    BY <1>0, <1>2 DEF Send
  <2>2. req'[d] = req[d] /\ task'[d] = task[d] /\ reply'[d] = reply[d] /\ grid'[d] = grid[d]
    BY <1>0, <1>2, <2>1 DEF ClientStep, StartAttach, StartDetach, StartResize, TakeReply,
                            ApplyEvent
  <2>3. Outstanding(d)' /\ NewerSnapshots(d)'  BY <1>0, <1>1, <2>2, EventOrder
  <2>. QED  BY <1>0, <2>2, <2>3
<1>3. ASSUME NEW op \in {"attach", "detach", "resize"}, Send(c, op)
      PROVE  /\ req'[c] # NoReq /\ req'[c].phase = "sent" /\ req'[c].resp = Nil
             /\ task'[c] # "none"
  <2>1. req'[c] = Request(op, "sent", FALSE, Nil) /\ task'[c] = op
    BY <1>0, <1>3 DEF Send
  <2>. QED  BY <2>1 DEF Request, NoReq
<1>4. ~ IsAck(Nil)  BY DEF Nil, Item, IsAck
\* A request sent by a client that waits for nothing.
<1>5. ASSUME c \in up, reply'[c] = Nil, Quiet(out[c]),
             \/ \E op \in {"attach", "detach", "resize"} : Send(c, op)
             \/ task'[c] = "none" /\ req'[c] = NoReq
      PROVE  Outstanding(c)' /\ NewerSnapshots(c)'
  <2>1. ~ IsAck(req'[c].resp)
    BY <1>3, <1>4, <1>5 DEF NoReq, Request
  <2>2. Outstanding(c)'
    BY <1>0, <1>1, <1>3, <1>5, <2>1 DEF Outstanding
  <2>3. AllNewer(grid'[c], out[c])
    BY <1>0, <1>5, QueueNewer, ItemTypes
  <2>4. NewerSnapshots(c)'
    BY <1>1, <1>4, <1>5, <2>1, <2>3 DEF NewerSnapshots, AllNewer, Newer
  <2>. QED  BY <2>2, <2>4
<1>6. CASE d = c /\ (StartAttach(c) \/ StartDetach(c) \/ \E n \in Sizes : StartResize(c, n))
  <2>1. /\ c \in up /\ task[c] = "none" /\ reply' = reply /\ grid' = grid
        /\ \E op \in {"attach", "detach", "resize"} : Send(c, op)
    BY <1>6 DEF StartAttach, StartDetach, StartResize, Free
  <2>2. reply[c] = Nil /\ Quiet(out[c])  BY <1>0, <2>1 DEF Outstanding
  <2>3. Outstanding(c)' /\ NewerSnapshots(c)'  BY <1>5, <2>1, <2>2
  <2>. QED  BY <1>0, <1>6, <2>1, <2>3
<1>7. CASE d = c /\ TakeReply(c)
  <2>1. /\ reply[c] # Nil /\ c \in up /\ req[c] = NoReq /\ Quiet(out[c])
    BY <1>0, <1>7 DEF TakeReply, Outstanding
  <2>2. /\ reply'[c] = Nil
        /\ \/ \E op \in {"attach", "detach", "resize"} : Send(c, op)
           \/ task'[c] = "none" /\ req'[c] = NoReq
    BY <1>0, <1>7, <2>1 DEF TakeReply
  <2>3. Outstanding(c)' /\ NewerSnapshots(c)'  BY <1>5, <2>1, <2>2
  <2>4. grid'[c] = IF IsAck(reply[c]) THEN FromSnapshot(reply[c])
                   ELSE IF task[c] = "detach" THEN Nil ELSE grid[c]
    BY <1>0, <1>7 DEF TakeReply
  <2>5. FromSnapshot(reply[c]).seq = reply[c].seq  BY DEF FromSnapshot, Item
  <2>6. grid[c] # Nil /\ grid'[c] # Nil => grid'[c].seq >= grid[c].seq
    BY <1>0, <2>4, <2>5 DEF NewerSnapshots, Newer
  <2>. QED  BY <1>7, <2>3, <2>6
<1>8. CASE d = c /\ ApplyEvent(c)
  <2>1. /\ c \in up /\ task[c] = "none" /\ reply' = reply
        /\ \/ Send(c, "attach")
           \/ UNCHANGED <<task, req>>
        /\ evq[c] # <<>>
        /\ grid'[c] = apply_event(grid[c], Head(evq[c]))
    BY <1>0, <1>8 DEF ApplyEvent, Free
  <2>2. reply[c] = Nil /\ Quiet(out[c]) /\ req[c] = NoReq  BY <1>0, <2>1 DEF Outstanding
  <2>3. Outstanding(c)' /\ NewerSnapshots(c)'  BY <1>5, <2>1, <2>2
  <2>4. Head(evq[c]) \in Items /\ Head(evq[c]).seq \in Nat
    <3>1. evq[c] \in Seq(Items) /\ evq[c] # <<>>  BY <1>0, <2>1
    <3>2. Head(evq[c]) \in Items  BY <3>1
    <3>. QED  BY <3>2 DEF Items
  <2>5. \A g, e : Patched(g, e).seq = e.seq /\ FromSnapshot(e).seq = e.seq
    BY DEF Patched, FromSnapshot, Item
  <2>6. DeltaOutcome(grid[c], Head(evq[c])) = "Applied" => Head(evq[c]).seq >= grid[c].seq
    BY <1>0, <2>4 DEF DeltaOutcome
  <2>7. grid'[c].seq >= grid[c].seq
    BY <1>0, <2>1, <2>4, <2>5, <2>6 DEF apply_event
  <2>. QED  BY <1>8, <2>3, <2>7
<1>. QED  BY <1>2, <1>6, <1>7, <1>8 DEF ClientStep

\* Every step keeps the order.
LEMMA OrderStep ==
  ASSUME IInv, OrderInv, Next
  PROVE  /\ OrderInv'
         /\ \A d \in Clients :
              grid[d] # Nil /\ grid'[d] # Nil => grid'[d].seq >= grid[d].seq
<1>0. TypeOK  BY DEF IInv
<1>1. ASSUME NEW d \in Clients PROVE Outstanding(d)' /\ NewerSnapshots(d)'
  BY <1>0, PtyOrder, BroadcastOrder, HandlerOrder, ConnectionOrder, ClientOrder DEF Next
<1>2. OrderInv'  BY <1>1 DEF OrderInv
<1>3. ASSUME NEW d \in Clients, grid[d] # Nil, grid'[d] # Nil
      PROVE  grid'[d].seq >= grid[d].seq
  <2>1. grid[d].seq \in Nat  BY <1>0 DEF TypeOK, ClientType, Items
  <2>2. CASE grid'[d] = grid[d]  BY <2>1, <2>2
  <2>3. CASE \E c \in Clients : ClientStep(c)  BY <1>0, <1>3, <2>3, ClientOrder
  <2>4. CASE PtyStep \/ \E to \in {Clients, Clients \ subs} : BroadcastDomain(to)
    <3>1. grid' = grid
      BY <2>4 DEF PtyStep, PtyRead, PumpSubscribed, PumpFeed, TerminalExited,
                  BroadcastDomain, client
    <3>. QED  BY <2>2, <3>1
  <2>5. CASE \E c \in Clients : HandlerStep(c)
    <3>1. grid' = grid
      BY <2>5 DEF HandlerStep, AttachCount, AttachSnapshot, ResizeTerminal, DetachTerminal,
                  Respond, FinishAttach, RecoverOwed, client
    <3>. QED  BY <2>2, <3>1
  <2>6. ASSUME NEW c \in Clients, ConnectionStep(c) PROVE grid'[d].seq >= grid[d].seq
    <3>1. grid' = grid \/ grid' = [grid EXCEPT ![c] = Nil]
      BY <2>6 DEF ConnectionStep, Deliver, WriterRecover, ClientEof, ClientClose,
                  ServerClose, Connect, Disconnect, client
    <3>2. grid \in [Clients -> Items]  BY <1>0 DEF TypeOK, ClientType
    <3>3. grid'[d] = grid[d]  BY <1>3, <3>1, <3>2
    <3>. QED  BY <2>2, <3>3
  <2>. QED  BY <2>3, <2>4, <2>5, <2>6 DEF Next
<1>. QED  BY <1>2, <1>3

(***************************************************************************)
(* The order holds at every state, whatever requests, answers and events   *)
(* are on their way.                                                       *)
(***************************************************************************)
THEOREM OrderInvariant == Spec => [](IInv /\ OrderInv)
<1>1. Init => OrderInv
  <2>. SUFFICES ASSUME Init, NEW c \in Clients PROVE Outstanding(c) /\ NewerSnapshots(c)
    BY DEF OrderInv
  <2>1. /\ req[c] = NoReq /\ reply[c] = Nil /\ out[c] = <<>> /\ grid[c] = Nil
        /\ finished[c] = Nil
    BY DEF Init
  <2>2. Quiet(<<>>) /\ Single(<<>>)  BY DEF Quiet, Single
  <2>3. ~ IsResponse(Nil) /\ ~ IsAck(NoReq.resp)
    BY DEF Nil, Item, IsResponse, Responses, NoReq, Request, IsAck
  <2>. QED  BY <2>1, <2>2, <2>3 DEF Outstanding, NewerSnapshots
<1>2. IInv /\ OrderInv /\ [Next]_vars => OrderInv'
  <2>. SUFFICES ASSUME IInv, OrderInv, [Next]_vars PROVE OrderInv'  OBVIOUS
  <2>1. CASE Next  BY <2>1, OrderStep
  <2>2. CASE UNCHANGED vars
    <3>1. UNCHANGED <<finished, req, up, out, reply, grid, task>>
      BY <2>2 DEF vars, registry, server, client
    <3>. QED  BY <3>1 DEF OrderInv, Outstanding, NewerSnapshots
  <2>. QED  BY <2>1, <2>2
<1>. QED  BY <1>1, <1>2, StreamInvariant, PTL DEF Spec

(***************************************************************************)
(* A replica never goes back to an older sequence number while it stays    *)
(* attached, although responses overtake queued events.                    *)
(***************************************************************************)
THEOREM ReplicasAdvance == Spec => SeqNeverRegresses
<1>1. IInv /\ OrderInv /\ [Next]_vars =>
        [\A c \in Clients :
           grid[c] # Nil /\ grid'[c] # Nil => grid'[c].seq >= grid[c].seq]_vars
  BY OrderStep
<1>. QED  BY <1>1, OrderInvariant, PTL DEF Spec, SeqNeverRegresses

-----------------------------------------------------------------------------
(***************************************************************************)
(* No delta is lost.  What a subscriber shows and what waits for it form   *)
(* one chain; every step moves the chain along, or lets it end early and   *)
(* marks the client behind, and a mark goes only with a resync.  The marks *)
(* are safe because the registry, the final grid and the one request of a  *)
(* client agree about who is owed what.                                    *)
(***************************************************************************)

\* Who subscribes is registered, who lags or attaches subscribes, and one who
\* attaches does not lag yet.
Subscribed(c) ==
  /\ c \in subs => c \in registered
  /\ c \in behind => c \in subs /\ attaching[c] = "no"
  /\ attaching[c] # "no" => c \in subs
  /\ c \notin subs => finished[c] = Nil

\* What the daemon owes a client that missed a delta, once the engine is gone:
\* the final grid.
FinalKept(c) ==
  /\ ~ live => At("done")
  /\ c \in up /\ finished[c] # Nil =>
       ~ live /\ finished[c].kind = "resync" /\ finished[c].seq = seq
  /\ ~ live /\ (c \in behind \/ attaching[c] = "missed") => finished[c] # Nil

\* The request a handler works on is the one its client waits for; a
\* subscriber without a replica has a snapshot on its way.
Asked(c) ==
  /\ req[c].phase = "respond" => req[c].op = "none"
  /\ c \in up /\ req[c].op # "none" => task[c] = req[c].op
  /\ c \in up /\ task[c] = "detach" => req[c].op = "detach" \/ c \notin subs
  /\ c \in subs \cap up /\ grid[c] = Nil => OnTheWay(c) # {}

\* Number s is in q or before it.
Touches(s, n, q) ==
  n = s \/ \E i \in 1..Len(q) : q[i].kind \in Output /\ q[i].seq = s

\* The chain of every subscriber, and how far it gets.
Lags(c)    == c \in behind \/ attaching[c] = "missed"
Follows(c) == c \in subs \cap up /\ ~ Resized(c)
ChainOK(c) ==
  Follows(c) =>
    \A n \in Starts(c) :
      /\ Unbroken(n, Queue(c))
      /\ ~ Lags(c) => Touches(seq, n, Queue(c))

MarksOK(c) == Subscribed(c) /\ FinalKept(c) /\ Asked(c)
ChainInv == \A c \in Clients : MarksOK(c) /\ ChainOK(c)

-----------------------------------------------------------------------------
(***************************************************************************)
(* Chains.                                                                 *)
(***************************************************************************)

\* Something queued that follows on.
LEMMA ChainAppend ==
  ASSUME NEW q \in Seq(Items), NEW m \in Items, NEW n \in Nat, NEW s \in Nat
  PROVE  /\ m.kind # "delta" /\ Unbroken(n, q) => Unbroken(n, Append(q, m))
         /\ m.seq = s + 1 /\ Touches(s, n, q) /\ Unbroken(n, q) => Unbroken(n, Append(q, m))
         /\ Touches(s, n, q) => Touches(s, n, Append(q, m))
         /\ m.kind \in Output => Touches(m.seq, n, Append(q, m))
<1>1. /\ Len(q) \in Nat /\ Len(Append(q, m)) = Len(q) + 1 /\ Append(q, m)[Len(q) + 1] = m
      /\ \A i \in 1..Len(q) : Append(q, m)[i] = q[i]
  OBVIOUS
<1>. DEFINE k == Len(q)  a == Append(q, m)
<1>2. /\ k \in Nat /\ Len(a) = k + 1 /\ a[k + 1] = m
      /\ \A i \in 1..k : a[i] = q[i] /\ i \in 1..(k + 1) /\ i \in 1..((k + 1) - 1)
      /\ \A i \in 1..(k + 1) : i \in 1..k \/ i = k + 1
      /\ \A i \in 1..k : \A j \in 1..(i - 1) : j \in 1..k
      /\ k + 1 \in 1..(k + 1)
  BY <1>1
<1>3. ASSUME Unbroken(n, q),
             m.kind = "delta" =>
               \/ m.seq <= n + 1
               \/ \E j \in 1..k : q[j].kind \in Output /\ m.seq <= q[j].seq + 1
      PROVE  Unbroken(n, a)
  <2>. SUFFICES ASSUME NEW i \in 1..(k + 1), a[i].kind = "delta"
                PROVE  \/ a[i].seq <= n + 1
                       \/ \E j \in 1..(i - 1) : a[j].kind \in Output /\ a[i].seq <= a[j].seq + 1
    BY <1>2 DEF Unbroken
  <2>. HIDE DEF a, k
  <2>1. CASE i \in 1..k
    <3>1. a[i] = q[i] /\ \A j \in 1..(i - 1) : a[j] = q[j]  BY <1>2, <2>1
    <3>2. \/ q[i].seq <= n + 1
          \/ \E j \in 1..(i - 1) : q[j].kind \in Output /\ q[i].seq <= q[j].seq + 1
      BY <1>3, <2>1, <3>1 DEF Unbroken, k
    <3>. QED  BY <3>1, <3>2
  <2>2. CASE i = k + 1
    <3>1. a[i] = m  BY <1>2, <2>2
    <3>2. CASE m.seq <= n + 1  BY <3>1, <3>2
    <3>3. ASSUME NEW j \in 1..k, q[j].kind \in Output, m.seq <= q[j].seq + 1
          PROVE  \E jj \in 1..(i - 1) : a[jj].kind \in Output /\ a[i].seq <= a[jj].seq + 1
      <4>1. a[j] = q[j] /\ j \in 1..(i - 1)  BY <1>2, <2>2
      <4>. QED  BY <3>1, <3>3, <4>1
    <3>. QED  BY <1>3, <2>2, <3>1, <3>2, <3>3
  <2>. QED  BY <1>2, <2>1, <2>2
<1>. HIDE DEF a
<1>4. m.kind # "delta" /\ Unbroken(n, q) => Unbroken(n, a)  BY <1>3
<1>5. ASSUME m.seq = s + 1, Touches(s, n, q), Unbroken(n, q) PROVE Unbroken(n, a)
  <2>1. m.seq \in Nat  BY DEF Items
  <2>2. CASE n = s  BY <1>3, <1>5, <2>1, <2>2
  <2>3. ASSUME NEW j \in 1..k, q[j].kind \in Output, q[j].seq = s PROVE Unbroken(n, a)
    <3>1. m.seq <= q[j].seq + 1  BY <1>5, <2>1, <2>3
    <3>. QED  BY <1>3, <1>5, <2>3, <3>1
  <2>. QED  BY <1>5, <2>2, <2>3 DEF Touches
<1>6. Touches(s, n, q) => Touches(s, n, a)
  BY <1>2 DEF Touches
<1>7. m.kind \in Output => Touches(m.seq, n, a)
  BY <1>2 DEF Touches
<1>. QED  BY <1>4, <1>5, <1>6, <1>7 DEF a

\* The first of it taken, by a client that is then at n2.
LEMMA ChainTail ==
  ASSUME NEW q \in Seq(Items), q # <<>>, NEW n \in Nat, NEW n2 \in Nat, n <= n2,
         Head(q).kind \in Output => Head(q).seq <= n2
  PROVE  /\ Unbroken(n, q) => Unbroken(n2, Tail(q))
         /\ \A s \in Nat : n2 <= s /\ Touches(s, n, q) => Touches(s, n2, Tail(q))
<1>1. /\ Len(q) \in Nat /\ Len(q) > 0 /\ Len(Tail(q)) = Len(q) - 1 /\ Head(q) = q[1]
      /\ \A i \in 1..(Len(q) - 1) : Tail(q)[i] = q[i + 1]
      /\ \A i \in 1..Len(q) : q[i] \in Items
  OBVIOUS
<1>. DEFINE k == Len(q)  t == Tail(q)
<1>2. /\ k \in Nat /\ k > 0 /\ Len(t) = k - 1
      /\ \A i \in 1..(k - 1) : t[i] = q[i + 1]
      /\ \A i \in 1..k : q[i].seq \in Nat
      /\ q[1].kind \in Output => q[1].seq <= n2
  BY <1>1 DEF Items
<1>3. ASSUME Unbroken(n, q) PROVE Unbroken(n2, t)
  <2>. SUFFICES ASSUME NEW i \in 1..(k - 1), t[i].kind = "delta"
                PROVE  \/ t[i].seq <= n2 + 1
                       \/ \E j \in 1..(i - 1) : t[j].kind \in Output /\ t[i].seq <= t[j].seq + 1
    BY <1>2 DEF Unbroken
  <2>. HIDE DEF k, t
  <2>1. i + 1 \in 1..k /\ t[i] = q[i + 1]  BY <1>2
  <2>2. \/ q[i + 1].seq <= n + 1
        \/ \E j \in 1..((i + 1) - 1) : q[j].kind \in Output /\ q[i + 1].seq <= q[j].seq + 1
    BY <1>3, <2>1 DEF Unbroken, k
  <2>3. CASE q[i + 1].seq <= n + 1
    <3>1. q[i + 1].seq \in Nat  BY <1>2, <2>1
    <3>2. q[i + 1].seq <= n2 + 1  BY <2>3, <3>1
    <3>. QED  BY <2>1, <3>2
  <2>4. ASSUME NEW j \in 1..i, q[j].kind \in Output, q[i + 1].seq <= q[j].seq + 1
        PROVE  \/ t[i].seq <= n2 + 1
               \/ \E jj \in 1..(i - 1) : t[jj].kind \in Output /\ t[i].seq <= t[jj].seq + 1
    <3>1. CASE j = 1  BY <1>2, <2>1, <2>4, <3>1
    <3>2. CASE j # 1
      <4>1. j - 1 \in 1..(i - 1) /\ j - 1 \in 1..(k - 1) /\ (j - 1) + 1 = j
        BY <1>2, <3>2
      <4>2. t[j - 1] = q[j]  BY <1>2, <4>1
      <4>. QED  BY <2>1, <2>4, <4>1, <4>2
    <3>. QED  BY <3>1, <3>2
  <2>5. (i + 1) - 1 = i  BY <1>2
  <2>. QED  BY <2>2, <2>3, <2>4, <2>5
<1>4. ASSUME NEW s \in Nat, n2 <= s, Touches(s, n, q) PROVE Touches(s, n2, t)
  <2>. HIDE DEF k, t
  <2>1. CASE n = s  BY <1>4, <2>1 DEF Touches
  <2>2. ASSUME NEW i \in 1..k, q[i].kind \in Output, q[i].seq = s PROVE Touches(s, n2, t)
    <3>1. CASE i = 1  BY <1>2, <1>4, <2>2, <3>1 DEF Touches
    <3>2. CASE i # 1
      <4>1. i - 1 \in 1..(k - 1) /\ (i - 1) + 1 = i  BY <1>2, <3>2
      <4>2. t[i - 1] = q[i]  BY <1>2, <4>1
      <4>. QED  BY <1>2, <2>2, <4>1, <4>2 DEF Touches
    <3>. QED  BY <3>1, <3>2
  <2>. QED  BY <1>4, <2>1, <2>2 DEF Touches, k
<1>. QED  BY <1>3, <1>4

\* A response that overtakes the events e.
LEMMA ChainDrop ==
  ASSUME NEW e \in Seq(Items), NEW o \in Seq(Items), o # <<>>, Head(o).kind \notin Output,
         NEW n \in Nat
  PROVE  /\ Unbroken(n, e \o o) => Unbroken(n, e \o Tail(o))
         /\ \A s \in Nat : Touches(s, n, e \o o) => Touches(s, n, e \o Tail(o))
<1>. DEFINE k == Len(e)  q == e \o o  t == e \o Tail(o)
<1>1. /\ k \in Nat /\ Len(o) \in Nat /\ Len(o) > 0
      /\ Len(q) = k + Len(o) /\ Len(Tail(o)) = Len(o) - 1
      /\ \A i \in 1..k : q[i] = e[i]
      /\ \A i \in 1..Len(o) : q[k + i] = o[i]
      /\ \A i \in 1..(Len(o) - 1) : Tail(o)[i] = o[i + 1]
      /\ o[1] = Head(o)
  OBVIOUS
<1>2. /\ Len(t) = Len(q) - 1
      /\ \A i \in 1..k : t[i] = e[i]
      /\ \A i \in 1..(Len(o) - 1) : t[k + i] = Tail(o)[i]
  BY <1>1
<1>. HIDE DEF q, t, k
<1>3. \A i \in 1..Len(t) : t[i] = IF i <= k THEN q[i] ELSE q[i + 1]
  <2>. SUFFICES ASSUME NEW i \in 1..Len(t) PROVE t[i] = IF i <= k THEN q[i] ELSE q[i + 1]
    OBVIOUS
  <2>1. CASE i <= k  BY <1>1, <1>2, <2>1
  <2>2. CASE i > k
    <3>. DEFINE j == i - k
    <3>1. j \in 1..(Len(o) - 1) /\ k + j = i /\ j + 1 \in 1..Len(o) /\ k + (j + 1) = i + 1
      BY <1>1, <1>2, <2>2
    <3>. HIDE DEF j
    <3>2. t[i] = o[j + 1] /\ q[i + 1] = o[j + 1]  BY <1>1, <1>2, <3>1
    <3>. QED  BY <1>1, <2>2, <3>2
  <2>. QED  BY <1>1, <1>2, <2>1, <2>2
<1>4. q[k + 1].kind \notin Output  BY <1>1
\* Every other element of q has its place in t.
<1>5. \A i \in 1..Len(q) : i # k + 1 =>
        LET p == IF i <= k THEN i ELSE i - 1 IN p \in 1..Len(t) /\ t[p] = q[i]
  BY <1>1, <1>2, <1>3
<1>6. ASSUME Unbroken(n, q) PROVE Unbroken(n, t)
  <2>. SUFFICES ASSUME NEW i \in 1..Len(t), t[i].kind = "delta"
                PROVE  \/ t[i].seq <= n + 1
                       \/ \E j \in 1..(i - 1) : t[j].kind \in Output /\ t[i].seq <= t[j].seq + 1
    BY DEF Unbroken
  <2>. DEFINE p == IF i <= k THEN i ELSE i + 1
  <2>1. p \in 1..Len(q) /\ t[i] = q[p]  BY <1>1, <1>2, <1>3
  <2>2. \/ q[p].seq <= n + 1
        \/ \E j \in 1..(p - 1) : q[j].kind \in Output /\ q[p].seq <= q[j].seq + 1
    BY <1>6, <2>1 DEF Unbroken
  <2>3. CASE q[p].seq <= n + 1  BY <2>1, <2>3
  <2>4. ASSUME NEW j \in 1..(p - 1), q[j].kind \in Output, q[p].seq <= q[j].seq + 1
        PROVE  \E jj \in 1..(i - 1) : t[jj].kind \in Output /\ t[i].seq <= t[jj].seq + 1
    <3>. DEFINE r == IF j <= k THEN j ELSE j - 1
    <3>1. j # k + 1  BY <1>4, <2>4
    <3>2. j \in 1..Len(q)  BY <1>1, <1>2, <2>1
    <3>3. t[r] = q[j]  BY <1>5, <3>1, <3>2
    <3>4. r \in 1..(i - 1)  BY <1>1, <1>2, <2>1, <3>1
    <3>. QED  BY <2>1, <2>4, <3>3, <3>4
  <2>. QED  BY <2>2, <2>3, <2>4
<1>7. ASSUME NEW s \in Nat, Touches(s, n, q) PROVE Touches(s, n, t)
  <2>1. ASSUME NEW i \in 1..Len(q), q[i].kind \in Output, q[i].seq = s
        PROVE  Touches(s, n, t)
    <3>1. i # k + 1  BY <1>4, <2>1
    <3>. QED  BY <1>5, <2>1, <3>1 DEF Touches
  <2>. QED  BY <1>7, <2>1 DEF Touches
<1>. QED  BY <1>6, <1>7 DEF q, t

\* What the two halves of a client's queue hold.
LEMMA QueueElements ==
  ASSUME NEW e \in Seq(Items), NEW o \in Seq(Items), NEW i \in 1..Len(e \o o)
  PROVE  \/ \E j \in 1..Len(e) : (e \o o)[i] = e[j]
         \/ \E j \in 1..Len(o) : (e \o o)[i] = o[j]
<1>. DEFINE q == e \o o
<1>1. /\ Len(e) \in Nat /\ Len(o) \in Nat /\ Len(q) = Len(e) + Len(o)
      /\ \A j \in 1..Len(e) : q[j] = e[j]
      /\ \A j \in 1..Len(o) : q[Len(e) + j] = o[j]
  OBVIOUS
<1>2. i \in 1..Len(q)  OBVIOUS
<1>. HIDE DEF q
<1>3. CASE i <= Len(e)
  <2>1. i \in 1..Len(e)  BY <1>1, <1>2, <1>3
  <2>. QED  BY <1>1, <2>1 DEF q
<1>4. CASE i > Len(e)
  <2>1. i - Len(e) \in 1..Len(o) /\ Len(e) + (i - Len(e)) = i
    BY <1>1, <1>2, <1>4
  <2>2. q[i] = o[i - Len(e)]  BY <1>1, <2>1
  <2>. QED  BY <2>1, <2>2 DEF q
<1>. QED  BY <1>1, <1>2, <1>3, <1>4

\* How the two halves of a client's queue go together.
LEMMA QueueJoin ==
  ASSUME NEW e \in Seq(Items), NEW o \in Seq(Items), NEW m \in Items
  PROVE  /\ e \o o \in Seq(Items)
         /\ e \o Append(o, m) = Append(e \o o, m)
         /\ o # <<>> => Append(e, Head(o)) \o Tail(o) = e \o o
         /\ e # <<>> => /\ e \o o # <<>> /\ Head(e \o o) = Head(e)
                        /\ Tail(e) \o o = Tail(e \o o)
<1>1. e \o o \in Seq(Items)  OBVIOUS
<1>2. e \o Append(o, m) = Append(e \o o, m)
  OBVIOUS
<1>3. ASSUME o # <<>> PROVE Append(e, Head(o)) \o Tail(o) = e \o o
  BY <1>3
<1>4. ASSUME e # <<>>
      PROVE  /\ e \o o # <<>> /\ Head(e \o o) = Head(e)
             /\ Tail(e) \o o = Tail(e \o o)
  BY <1>4
<1>. QED  BY <1>1, <1>2, <1>3, <1>4


-----------------------------------------------------------------------------
(***************************************************************************)
(* What is on its way to a client.                                         *)
(***************************************************************************)

\* No number a client holds or waits for is above the last emitted one.
LEMMA Numbers ==
  ASSUME IInv, NEW c \in Clients
  PROVE  /\ seq \in Nat /\ Queue(c) \in Seq(Items)
         /\ \A i \in 1..Len(Queue(c)) :
              Queue(c)[i].kind \in Output => Queue(c)[i].seq <= seq
         /\ \A n \in Starts(c) : n \in Nat /\ n <= seq
<1>1. /\ out[c] \in Seq(Items) /\ evq[c] \in Seq(Items) /\ reply[c] \in Items
      /\ req[c].resp \in Items /\ grid[c] \in Items /\ seq \in Nat
  BY DEF IInv, TypeOK, RegistryType, ClientType, ServerType, Requests, RuntimeType
<1>2. /\ GoodQueue(Log, out[c]) /\ GoodQueue(Log, evq[c])
      /\ GoodItem(Log, reply[c]) /\ GoodItem(Log, req[c].resp) /\ GoodItem(Log, grid[c])
      /\ (grid[c] = Nil \/ grid[c].kind = "grid")
  BY DEF IInv, AllGood
<1>3. Len(Log) = seq + 1  BY LogType DEF IInv
<1>4. \A m \in Items : GoodItem(Log, m) /\ m.kind \in {"delta", "resync", "ack", "grid"}
        => m.seq \in Nat /\ m.seq <= seq
  BY <1>1, <1>3 DEF GoodItem, UpToDate, Items
<1>5. Queue(c) \in Seq(Items)  BY <1>1, QueueJoin, ItemTypes DEF Queue
<1>6. ASSUME NEW i \in 1..Len(Queue(c)), Queue(c)[i].kind \in Output
      PROVE  Queue(c)[i].seq <= seq
  <2>1. \/ \E j \in 1..Len(evq[c]) : Queue(c)[i] = evq[c][j]
        \/ \E j \in 1..Len(out[c]) : Queue(c)[i] = out[c][j]
    BY <1>1, QueueElements DEF Queue
  <2>2. Queue(c)[i] \in Items /\ GoodItem(Log, Queue(c)[i])
    BY <1>1, <1>2, <2>1 DEF GoodQueue
  <2>. QED  BY <1>4, <1>6, <2>2 DEF Output
<1>7. ASSUME NEW n \in Starts(c) PROVE n \in Nat /\ n <= seq
  <2>1. PICK m \in {grid[c]} \cup OnTheWay(c) : n = m.seq /\ (m = grid[c] \/ IsAck(m))
    BY <1>7 DEF Starts, OnTheWay
  <2>2. CASE m = Nil  BY <1>1, <2>1, <2>2 DEF Nil, Item
  <2>3. CASE m # Nil
    <3>1. m \in Items /\ GoodItem(Log, m)
      <4>1. \A x \in Range(out[c]) : x \in Items /\ GoodItem(Log, x)
        BY <1>1, <1>2 DEF Range, GoodQueue
      <4>. QED  BY <1>1, <1>2, <2>1, <4>1 DEF OnTheWay
    <3>2. m.kind \in {"delta", "resync", "ack", "grid"}
      BY <1>2, <2>1, <2>3 DEF IsAck
    <3>. QED  BY <1>4, <2>1, <3>1, <3>2
  <2>. QED  BY <2>2, <2>3
<1>. QED  BY <1>1, <1>5, <1>6, <1>7

\* The same after a step.
LEMMA NumbersNext ==
  (IInv => \A c \in Clients :
             /\ seq \in Nat /\ Queue(c) \in Seq(Items)
             /\ \A i \in 1..Len(Queue(c)) :
                  Queue(c)[i].kind \in Output => Queue(c)[i].seq <= seq
             /\ \A n \in Starts(c) : n \in Nat /\ n <= seq)'
<1>1. IInv => \A c \in Clients :
             /\ seq \in Nat /\ Queue(c) \in Seq(Items)
             /\ \A i \in 1..Len(Queue(c)) :
                  Queue(c)[i].kind \in Output => Queue(c)[i].seq <= seq
             /\ \A n \in Starts(c) : n \in Nat /\ n <= seq
  BY Numbers
<1>. QED  BY <1>1, PTL

\* The snapshot on its way to a client is the answer it waits for.
LEMMA WayAlone ==
  ASSUME TypeOK, NEW c \in Clients, Outstanding(c)
  PROVE  /\ c \in up /\ task[c] = "none" => OnTheWay(c) = {}
         /\ req[c] # NoReq => OnTheWay(c) = {m \in {req[c].resp} : IsAck(m)}
         /\ reply[c] # Nil => OnTheWay(c) = {m \in {reply[c]} : IsAck(m)}
         /\ req[c] # NoReq /\ req[c].phase # "respond" => OnTheWay(c) = {}
<1>1. out[c] \in Seq(Items)  BY DEF TypeOK, RegistryType
<1>2. Quiet(out[c]) => \A m \in Range(out[c]) : ~ IsAck(m)
  BY <1>1 DEF Quiet, Range, IsAck, IsResponse, Responses
<1>3. ~ IsAck(Nil) /\ ~ IsAck(NoReq.resp)
  BY DEF Nil, Item, IsAck, NoReq, Request
<1>4. ASSUME reply[c] = Nil, Quiet(out[c])
      PROVE  OnTheWay(c) = {m \in {req[c].resp} : IsAck(m)}
  BY <1>2, <1>3, <1>4 DEF OnTheWay
<1>5. ASSUME req[c] = NoReq, Quiet(out[c])
      PROVE  OnTheWay(c) = {m \in {reply[c]} : IsAck(m)}
  BY <1>2, <1>3, <1>5 DEF OnTheWay
<1>6. req[c] # NoReq => OnTheWay(c) = {m \in {req[c].resp} : IsAck(m)}
  BY <1>4 DEF Outstanding
<1>7. reply[c] # Nil => OnTheWay(c) = {m \in {reply[c]} : IsAck(m)}
  BY <1>5 DEF Outstanding
<1>8. c \in up /\ task[c] = "none" => OnTheWay(c) = {}
  BY <1>3, <1>4 DEF Outstanding
<1>9. req[c] # NoReq /\ req[c].phase # "respond" => OnTheWay(c) = {}
  BY <1>6 DEF Outstanding
<1>. QED  BY <1>6, <1>7, <1>8, <1>9

\* Events queued for a client are not on its way in this sense; the response
\* queued or handed over still is.
LEMMA WayMoves ==
  ASSUME TypeOK, NEW c \in Clients
  PROVE  /\ /\ reply'[c] = reply[c] /\ req'[c].resp = req[c].resp
            /\ \/ out'[c] = out[c]
               \/ \E m : ~ IsAck(m) /\ out'[c] = Append(out[c], m)
            => OnTheWay(c)' = OnTheWay(c)
         /\ /\ reply'[c] = reply[c] /\ req'[c].resp = Nil
            /\ out'[c] = Append(out[c], req[c].resp)
            => OnTheWay(c)' = OnTheWay(c)
         /\ /\ reply[c] = Nil /\ req' = req /\ out[c] # <<>>
            /\ out'[c] = Tail(out[c]) /\ reply'[c] = Head(out[c])
            => OnTheWay(c)' = OnTheWay(c)
         /\ /\ reply'[c] = reply[c] /\ req' = req /\ out[c] # <<>>
            /\ out'[c] = Tail(out[c]) /\ ~ IsAck(Head(out[c]))
            => OnTheWay(c)' = OnTheWay(c)
<1>1. out[c] \in Seq(Items)  BY DEF TypeOK, RegistryType
<1>2. ~ IsAck(Nil)  BY DEF Nil, Item, IsAck
<1>3. OnTheWay(c)' = {m \in {reply'[c], req'[c].resp} \cup Range(out'[c]) : IsAck(m)}
  BY DEF OnTheWay, IsAck
<1>4. \A m : Range(Append(out[c], m)) = Range(out[c]) \cup {m}
  <2>. TAKE m
  <2>1. /\ Len(out[c]) \in Nat /\ DOMAIN out[c] = 1..Len(out[c])
        /\ DOMAIN Append(out[c], m) = 1..(Len(out[c]) + 1)
        /\ Append(out[c], m)[Len(out[c]) + 1] = m
        /\ \A i \in 1..Len(out[c]) : Append(out[c], m)[i] = out[c][i]
    BY <1>1
  <2>2. \A i \in 1..(Len(out[c]) + 1) : i \in 1..Len(out[c]) \/ i = Len(out[c]) + 1
    BY <2>1
  <2>3. /\ Len(out[c]) + 1 \in 1..(Len(out[c]) + 1)
        /\ \A i \in 1..Len(out[c]) : i \in 1..(Len(out[c]) + 1)
    BY <2>1
  <2>. QED  BY <2>1, <2>2, <2>3 DEF Range
<1>5. out[c] # <<>> => Range(out[c]) = Range(Tail(out[c])) \cup {Head(out[c])}
  <2>. SUFFICES ASSUME out[c] # <<>>
                PROVE  Range(out[c]) = Range(Tail(out[c])) \cup {Head(out[c])}
    OBVIOUS
  <2>1. /\ Len(out[c]) \in Nat /\ Len(out[c]) > 0 /\ DOMAIN out[c] = 1..Len(out[c])
        /\ DOMAIN Tail(out[c]) = 1..(Len(out[c]) - 1)
        /\ Head(out[c]) = out[c][1]
        /\ \A i \in 1..(Len(out[c]) - 1) : Tail(out[c])[i] = out[c][i + 1]
    BY <1>1
  <2>2. \A i \in 1..Len(out[c]) : i = 1 \/ (i - 1 \in 1..(Len(out[c]) - 1) /\ (i - 1) + 1 = i)
    BY <2>1
  <2>3. \A i \in 1..(Len(out[c]) - 1) : i + 1 \in 1..Len(out[c])
    BY <2>1
  <2>4. ASSUME NEW x \in Range(out[c]) PROVE x \in Range(Tail(out[c])) \cup {Head(out[c])}
    <3>1. PICK i \in 1..Len(out[c]) : x = out[c][i]  BY <2>1, <2>4 DEF Range
    <3>2. CASE i = 1  BY <2>1, <3>1, <3>2
    <3>3. CASE i # 1
      <4>1. i - 1 \in 1..(Len(out[c]) - 1) /\ x = Tail(out[c])[i - 1]
        BY <2>1, <2>2, <3>1, <3>3
      <4>. QED  BY <2>1, <4>1 DEF Range
    <3>. QED  BY <3>2, <3>3
  <2>5. Range(Tail(out[c])) \cup {Head(out[c])} \subseteq Range(out[c])
    BY <2>1, <2>3 DEF Range
  <2>. QED  BY <2>4, <2>5
<1>6. ASSUME reply'[c] = reply[c], req'[c].resp = req[c].resp,
             \/ out'[c] = out[c]
             \/ \E m : ~ IsAck(m) /\ out'[c] = Append(out[c], m)
      PROVE  OnTheWay(c)' = OnTheWay(c)
  <2>1. CASE out'[c] = out[c]  BY <1>3, <1>6, <2>1 DEF OnTheWay
  <2>2. ASSUME NEW m, ~ IsAck(m), out'[c] = Append(out[c], m)
        PROVE  OnTheWay(c)' = OnTheWay(c)
    <3>1. Range(out'[c]) = Range(out[c]) \cup {m}  BY <1>4, <2>2
    <3>. QED  BY <1>3, <1>6, <2>2, <3>1 DEF OnTheWay
  <2>. QED  BY <1>6, <2>1, <2>2
<1>7. ASSUME reply'[c] = reply[c], req'[c].resp = Nil, out'[c] = Append(out[c], req[c].resp)
      PROVE  OnTheWay(c)' = OnTheWay(c)
  BY <1>2, <1>3, <1>4, <1>7 DEF OnTheWay
<1>8. ASSUME reply[c] = Nil, req' = req, out[c] # <<>>, out'[c] = Tail(out[c]),
             reply'[c] = Head(out[c])
      PROVE  OnTheWay(c)' = OnTheWay(c)
  BY <1>2, <1>3, <1>5, <1>8 DEF OnTheWay
<1>9. ASSUME reply'[c] = reply[c], req' = req, out[c] # <<>>, out'[c] = Tail(out[c]),
             ~ IsAck(Head(out[c]))
      PROVE  OnTheWay(c)' = OnTheWay(c)
  BY <1>3, <1>5, <1>9 DEF OnTheWay
<1>. QED  BY <1>6, <1>7, <1>8, <1>9


-----------------------------------------------------------------------------
(***************************************************************************)
(* The marks.                                                              *)
(***************************************************************************)

\* What dropping a subscription does to the marks of the others and its own.
LEMMA UnsubscribeMarks ==
  ASSUME TypeOK, NEW c \in Clients, unsubscribe(c), NEW d \in Clients
  PROVE  /\ d = c => /\ d \notin subs' /\ d \notin behind'
                     /\ attaching'[d] = "no" /\ finished'[d] = Nil
         /\ d # c => /\ d \in subs' <=> d \in subs
                     /\ d \in behind' <=> d \in behind
                     /\ attaching'[d] = attaching[d] /\ finished'[d] = finished[d]
  BY DEF TypeOK, RegistryType, unsubscribe

\* What a recovery does: nothing, or a client that is there gets the event and
\* is no longer behind.
LEMMA RecoverMarks ==
  ASSUME TypeOK, OrderInv, NEW c \in Clients, MarksOK(c), recover(c), NEW d \in Clients
  PROVE  /\ behind' \subseteq behind
         /\ d # c => /\ d \in behind' <=> d \in behind
                     /\ finished'[d] = finished[d] /\ out'[d] = out[d]
         /\ d = c => \/ UNCHANGED <<behind, finished, out>>
                     \/ /\ d \in up /\ d \in behind /\ d \notin behind' /\ finished'[d] = Nil
                        /\ RecoveryEvent(d).kind = "resync" /\ RecoveryEvent(d).seq = seq
                        /\ out'[d] = Append(out[d], RecoveryEvent(d))
                     \/ /\ d \notin up /\ d \in behind /\ behind' = behind /\ out' = out
                        /\ finished'[d] # Nil
<1>1. /\ out \in [Clients -> Seq(Items)] /\ finished \in [Clients -> Items]
      /\ out[c] \in Seq(Items) /\ Len(out[c]) \in Nat
  BY DEF TypeOK, RegistryType
<1>2. CASE ~ (c \in registered /\ c \in behind /\ Drained(c))
  BY <1>2 DEF recover
<1>3. CASE c \in registered /\ c \in behind /\ Drained(c)
  <2>1. \A n, s : Snapshot("resync", n, s) # Nil /\ Snapshot("resync", n, s).kind = "resync"
                  /\ Snapshot("resync", n, s).seq = n
    BY DEF Snapshot, Item, Nil
  <2>2. RecoveryEvent(c) # Nil
    BY <1>3, <2>1 DEF MarksOK, FinalKept, RecoveryEvent
  <2>3. Full(c) <=> c \notin up
    BY <1>1, <1>3, WaterMarks DEF Drained, Full
  <2>4. c \in up => RecoveryEvent(c).kind = "resync" /\ RecoveryEvent(c).seq = seq
    BY <2>1, <2>2 DEF MarksOK, FinalKept, RecoveryEvent
  <2>5. CASE c \in up
    <3>1. /\ out' = [out EXCEPT ![c] = Append(@, RecoveryEvent(c))]
          /\ behind' = behind \ {c} /\ finished' = [finished EXCEPT ![c] = Nil]
      BY <1>3, <2>2, <2>3, <2>5 DEF recover
    <3>. QED  BY <1>1, <1>3, <2>4, <2>5, <3>1
  <2>6. CASE c \notin up
    <3>1. /\ out' = out /\ behind' = behind
          /\ finished' = [finished EXCEPT ![c] = RecoveryEvent(c)]
      BY <1>3, <2>2, <2>3, <2>6 DEF recover
    <3>. QED  BY <1>1, <1>3, <2>2, <2>6, <3>1
  <2>. QED  BY <2>5, <2>6
<1>. QED  BY <1>2, <1>3

\* Subscriptions stay consistent with the registry.
LEMMA SubscribedStep ==
  ASSUME TypeOK, OrderInv, Next, \A c \in Clients : MarksOK(c), NEW d \in Clients
  PROVE  Subscribed(d)'
<1>0. /\ Subscribed(d)
      /\ attaching \in [Clients -> {"no", "clean", "missed"}]
      /\ finished \in [Clients -> Items]
  BY DEF MarksOK, TypeOK, RegistryType
<1>1. ASSUME UNCHANGED <<registered, subs, behind, attaching, finished>>
      PROVE  Subscribed(d)'
  BY <1>0, <1>1 DEF Subscribed
<1>2. ASSUME NEW c \in Clients, unsubscribe(c), registered' \in {registered, registered \ {c}}
      PROVE  Subscribed(d)'
  BY <1>0, <1>2, UnsubscribeMarks DEF Subscribed
<1>3. ASSUME NEW c \in Clients, recover(c), UNCHANGED <<registered, subs, attaching>>
      PROVE  Subscribed(d)'
  <2>1. MarksOK(c)  OBVIOUS
  <2>2. /\ d \in behind' => d \in behind
        /\ finished'[d] # Nil => finished[d] # Nil \/ d \in behind
    BY <1>3, <2>1, RecoverMarks
  <2>. QED  BY <1>0, <1>3, <2>2 DEF Subscribed
<1>4. CASE PtyStep
  <2>1. CASE (\E why \in {"data", "wake", "eof"} : PtyRead(why)) \/ PumpSubscribed
    BY <1>1, <2>1 DEF PtyRead, PumpSubscribed, registry
  <2>2. ASSUME NEW V \in SUBSET Row, NEW open \in BOOLEAN, NEW due \in BOOLEAN,
               PumpFeed(V, open, due)
        PROVE  Subscribed(d)'
    <3>1. CASE UNCHANGED <<behind, attaching, out>>
      BY <1>1, <2>2, <3>1 DEF PumpFeed
    <3>2. ASSUME NEW e, NEW r, route_terminal_delta(e, r) PROVE Subscribed(d)'
      <4>1. /\ registered' = registered /\ subs' = subs /\ finished' = finished
        BY <2>2 DEF PumpFeed
      <4>2. /\ d \in behind' => d \in behind \/ (d \in subs /\ d \notin Withheld)
            /\ attaching'[d] = IF d \in Withheld THEN "missed" ELSE attaching[d]
        BY <1>0, <3>2 DEF route_terminal_delta
      <4>. QED  BY <1>0, <4>1, <4>2 DEF Subscribed, Withheld
    <3>. QED  BY <2>2, <3>1, <3>2 DEF PumpFeed
  <2>3. CASE TerminalExited
    <3>1. /\ UNCHANGED <<registered, subs, behind, attaching>>
          /\ finished'[d] # Nil => finished[d] # Nil \/ d \in behind \/ attaching[d] = "missed"
      BY <1>0, <2>3 DEF TerminalExited, finish_terminal
    <3>. QED  BY <1>0, <3>1 DEF Subscribed
  <2>. QED  BY <1>4, <2>1, <2>2, <2>3 DEF PtyStep
<1>5. ASSUME NEW to, BroadcastDomain(to) PROVE Subscribed(d)'
  BY <1>1, <1>5 DEF BroadcastDomain
<1>6. ASSUME NEW c \in Clients, HandlerStep(c) PROVE Subscribed(d)'
  <2>1. CASE AttachCount(c) \/ ResizeTerminal(c)
    BY <1>1, <2>1 DEF AttachCount, ResizeTerminal, registry
  <2>2. CASE AttachSnapshot(c)
    <3>1. CASE UNCHANGED <<subs, behind, attaching>>
      BY <1>1, <2>2, <3>1 DEF AttachSnapshot
    <3>2. CASE /\ c \in registered
               /\ subs' = subs \cup {c} /\ behind' = behind \ {c}
               /\ attaching' = [attaching EXCEPT ![c] = "clean"]
      <4>1. registered' = registered /\ finished' = finished  BY <2>2 DEF AttachSnapshot
      <4>2. CASE d = c
        <5>1. d \in subs' /\ d \in registered' /\ d \notin behind'  BY <3>2, <4>1, <4>2
        <5>. QED  BY <5>1 DEF Subscribed
      <4>3. CASE d # c
        <5>1. /\ d \in subs' <=> d \in subs
              /\ d \in behind' <=> d \in behind
              /\ attaching'[d] = attaching[d]
          BY <1>0, <3>2, <4>3
        <5>. QED  BY <1>0, <4>1, <5>1 DEF Subscribed
      <4>. QED  BY <4>2, <4>3
    <3>. QED  BY <2>2, <3>1, <3>2 DEF AttachSnapshot, begin_attach
  <2>3. CASE DetachTerminal(c)  BY <1>2, <2>3 DEF DetachTerminal
  <2>4. CASE Respond(c)
    <3>1. \/ UNCHANGED <<registered, subs, behind, attaching, finished>>
          \/ unsubscribe(c) /\ registered' = registered \ {c}
      BY <2>4 DEF Respond, unregister
    <3>. QED  BY <1>1, <1>2, <3>1
  <2>5. CASE FinishAttach(c)
    <3>1. /\ registered' = registered /\ subs' = subs /\ finished' = finished
          /\ attaching' = [attaching EXCEPT ![c] = "no"]
          /\ behind' = behind \/ (c \in subs /\ behind' = behind \cup {c})
      BY <2>5 DEF FinishAttach
    <3>2. /\ attaching'[d] = IF d = c THEN "no" ELSE attaching[d]
          /\ d \in behind' => d \in behind \/ (d = c /\ c \in subs)
      BY <1>0, <3>1
    <3>. QED  BY <1>0, <3>1, <3>2 DEF Subscribed
  <2>6. CASE RecoverOwed(c)  BY <1>3, <2>6 DEF RecoverOwed
  <2>. QED  BY <1>6, <2>1, <2>2, <2>3, <2>4, <2>5, <2>6 DEF HandlerStep
<1>7. ASSUME NEW c \in Clients, ConnectionStep(c) PROVE Subscribed(d)'
  <2>1. CASE Deliver(c) \/ ClientEof(c) \/ ClientClose(c)
    BY <1>1, <2>1 DEF Deliver, ClientEof, ClientClose
  <2>2. CASE WriterRecover(c)  BY <1>3, <2>2 DEF WriterRecover
  <2>3. CASE ServerClose(c)  BY <1>2, <2>3 DEF ServerClose, unregister
  <2>4. CASE Connect(c)
    <3>1. /\ registered' = registered \cup {c}
          /\ UNCHANGED <<subs, behind, attaching, finished>>
      BY <2>4 DEF Connect
    <3>. QED  BY <1>0, <3>1 DEF Subscribed
  <2>. QED  BY <1>7, <2>1, <2>2, <2>3, <2>4 DEF ConnectionStep
<1>8. ASSUME NEW c \in Clients, ClientStep(c) PROVE Subscribed(d)'
  BY <1>1, <1>8 DEF ClientStep, StartAttach, StartDetach, StartResize, TakeReply, ApplyEvent,
                    registry
<1>. QED  BY <1>4, <1>5, <1>6, <1>7, <1>8 DEF Next

\* The final grid is kept for who is owed it.
LEMMA FinalStep ==
  ASSUME TypeOK, OrderInv, Next, \A c \in Clients : MarksOK(c), NEW d \in Clients
  PROVE  FinalKept(d)'
<1>0. /\ FinalKept(d) /\ Subscribed(d)
      /\ attaching \in [Clients -> {"no", "clean", "missed"}]
      /\ finished \in [Clients -> Items]
  BY DEF MarksOK, TypeOK, RegistryType
<1>1. ASSUME UNCHANGED <<live, pty, seq>>,
             d \in up' => d \in up,
             finished'[d] = finished[d],
             d \in behind' \/ attaching'[d] = "missed" => d \in behind \/ attaching[d] = "missed"
      PROVE  FinalKept(d)'
  BY <1>0, <1>1 DEF FinalKept, At
<1>2. ASSUME NEW c \in Clients, unsubscribe(c), UNCHANGED <<live, pty, seq, up>>
      PROVE  FinalKept(d)'
  <2>1. CASE d = c
    BY <1>0, <1>2, <2>1, UnsubscribeMarks DEF FinalKept, At
  <2>2. CASE d # c
    BY <1>0, <1>1, <1>2, <2>2, UnsubscribeMarks
  <2>. QED  BY <2>1, <2>2
<1>3. ASSUME NEW c \in Clients, recover(c), UNCHANGED <<live, pty, seq, up, attaching>>
      PROVE  FinalKept(d)'
  <2>1. MarksOK(c)  OBVIOUS
  <2>2. CASE d # c
    BY <1>1, <1>3, <2>1, <2>2, RecoverMarks
  <2>3. CASE d = c
    <3>1. CASE UNCHANGED <<behind, finished, out>>
      BY <1>1, <1>3, <3>1
    <3>2. CASE d \in behind /\ d \notin behind' /\ finished'[d] = Nil
      BY <1>0, <1>3, <3>2 DEF FinalKept, Subscribed, At
    <3>3. CASE d \notin up /\ d \in behind /\ behind' = behind /\ finished'[d] # Nil
      BY <1>0, <1>3, <3>3 DEF FinalKept, At
    <3>. QED  BY <1>3, <2>1, <2>3, <3>1, <3>2, <3>3, RecoverMarks
  <2>. QED  BY <2>2, <2>3
<1>4. CASE PtyStep
  <2>0. ~ At("done") => live  BY <1>0 DEF FinalKept
  <2>1. ASSUME live, live' = live, finished' = finished, up' = up PROVE FinalKept(d)'
    BY <1>0, <2>1 DEF FinalKept
  <2>2. CASE \E why \in {"data", "wake", "eof"} : PtyRead(why)
    BY <2>0, <2>1, <2>2 DEF PtyRead, At, runtime, registry, client
  <2>3. CASE PumpSubscribed
    BY <2>0, <2>1, <2>3 DEF PumpSubscribed, At, runtime, registry, client
  <2>4. ASSUME NEW V \in SUBSET Row, NEW open \in BOOLEAN, NEW due \in BOOLEAN,
               PumpFeed(V, open, due)
        PROVE  FinalKept(d)'
    BY <2>0, <2>1, <2>4 DEF PumpFeed, At, client
  <2>5. CASE TerminalExited
    <3>1. /\ live /\ ~ live' /\ At("done")' /\ seq' = seq
          /\ UNCHANGED <<subs, behind, attaching, up>>
      BY <2>0, <2>5 DEF TerminalExited, At, client
    <3>2. finished'[d] = IF d \in registered /\ (d \in behind \/ attaching[d] = "missed")
                         THEN Snapshot("resync", seq, screen) ELSE finished[d]
      BY <2>5 DEF TerminalExited, finish_terminal
    <3>3. /\ Snapshot("resync", seq, screen) # Nil
          /\ Snapshot("resync", seq, screen).kind = "resync"
          /\ Snapshot("resync", seq, screen).seq = seq
      BY DEF Snapshot, Item, Nil
    <3>4. d \in behind \/ attaching[d] = "missed" => d \in registered
      BY <1>0 DEF Subscribed
    <3>5. d \in up => finished[d] = Nil  BY <1>0, <3>1 DEF FinalKept
    <3>. QED  BY <3>1, <3>2, <3>3, <3>4, <3>5 DEF FinalKept
  <2>. QED  BY <1>4, <2>2, <2>3, <2>4, <2>5 DEF PtyStep
<1>5. ASSUME NEW to, BroadcastDomain(to) PROVE FinalKept(d)'
  BY <1>1, <1>5 DEF BroadcastDomain, runtime, thread, client
<1>6. ASSUME NEW c \in Clients, HandlerStep(c) PROVE FinalKept(d)'
  <2>0. UNCHANGED <<live, pty, seq, up>>
    BY <1>6 DEF HandlerStep, AttachCount, AttachSnapshot, ResizeTerminal, DetachTerminal,
                Respond, FinishAttach, RecoverOwed, runtime, thread, client
  <2>1. CASE AttachCount(c) \/ ResizeTerminal(c)
    BY <1>1, <2>0, <2>1 DEF AttachCount, ResizeTerminal, registry
  <2>2. CASE AttachSnapshot(c)
    <3>1. /\ finished' = finished
          /\ d \in behind' => d \in behind
          /\ attaching'[d] = "missed" => attaching[d] = "missed"
      BY <1>0, <2>2 DEF AttachSnapshot, begin_attach
    <3>. QED  BY <1>1, <2>0, <3>1
  <2>3. CASE DetachTerminal(c)  BY <1>2, <2>0, <2>3 DEF DetachTerminal
  <2>4. CASE Respond(c)
    <3>1. \/ UNCHANGED <<registered, subs, behind, attaching, finished>>
          \/ unsubscribe(c)
      BY <2>4 DEF Respond, unregister
    <3>. QED  BY <1>1, <1>2, <2>0, <3>1
  <2>5. CASE FinishAttach(c)
    <3>1. /\ finished' = finished
          /\ attaching'[d] = "missed" => attaching[d] = "missed"
          /\ d \in behind' => d \in behind \/ attaching[d] = "missed"
      BY <1>0, <2>5 DEF FinishAttach
    <3>. QED  BY <1>1, <2>0, <3>1
  <2>6. CASE RecoverOwed(c)  BY <1>3, <2>0, <2>6 DEF RecoverOwed
  <2>. QED  BY <1>6, <2>1, <2>2, <2>3, <2>4, <2>5, <2>6 DEF HandlerStep
<1>7. ASSUME NEW c \in Clients, ConnectionStep(c) PROVE FinalKept(d)'
  <2>0. UNCHANGED <<live, pty, seq>>
    BY <1>7 DEF ConnectionStep, Deliver, WriterRecover, ClientEof, ClientClose, ServerClose,
                Connect, runtime, thread
  <2>1. CASE Deliver(c) \/ ClientEof(c) \/ ClientClose(c)
    <3>1. UNCHANGED <<behind, attaching, finished>> /\ up' \in {up, up \ {c}}
      BY <2>1 DEF Deliver, ClientEof, ClientClose, Disconnect
    <3>. QED  BY <1>1, <2>0, <3>1
  <2>2. CASE WriterRecover(c)  BY <1>3, <2>0, <2>2 DEF WriterRecover, client
  <2>3. CASE ServerClose(c)  BY <1>2, <2>0, <2>3 DEF ServerClose, unregister, client
  <2>4. CASE Connect(c)
    <3>1. /\ c \notin registered /\ up' = up \cup {c}
          /\ UNCHANGED <<subs, behind, attaching, finished>>
      BY <2>4 DEF Connect
    <3>2. d = c => finished[d] = Nil  BY <1>0, <3>1 DEF Subscribed
    <3>. QED  BY <1>0, <2>0, <3>1, <3>2 DEF FinalKept, At
  <2>. QED  BY <1>7, <2>1, <2>2, <2>3, <2>4 DEF ConnectionStep
<1>8. ASSUME NEW c \in Clients, ClientStep(c) PROVE FinalKept(d)'
  <2>1. UNCHANGED <<live, pty, seq, up, behind, attaching, finished>>
    BY <1>8 DEF ClientStep, StartAttach, StartDetach, StartResize, TakeReply, ApplyEvent,
                runtime, thread, registry
  <2>. QED  BY <1>1, <2>1
<1>. QED  BY <1>4, <1>5, <1>6, <1>7, <1>8 DEF Next


\* What the PTY thread's output does to one client.
LEMMA PumpMoves ==
  ASSUME TypeOK, NEW d \in Clients, NEW V \in SUBSET Row, NEW open \in BOOLEAN,
         NEW due \in BOOLEAN, PumpFeed(V, open, due)
  PROVE  \/ UNCHANGED <<seq, behind, attaching, out>>
         \/ /\ seq' = seq + 1
            /\ d \notin subs => out'[d] = out[d]
            /\ d \in subs =>
                 \/ out'[d] = out[d] /\ Lags(d)'
                 \/ \E m \in Items :
                      /\ m.kind \in Output /\ m.seq = seq + 1 /\ out'[d] = Append(out[d], m)
                      /\ m.kind = "delta" => ~ Lags(d)
<1>. DEFINE e == Delta(seq + 1, Written(V), damage \cup V)
            r == Snapshot("resync", seq + 1, Written(V))
<1>1. /\ e \in Items /\ e.kind = "delta" /\ e.seq = seq + 1
      /\ r \in Items /\ r.kind = "resync" /\ r.seq = seq + 1
  <2>1. Written(V) \in Patches /\ seq + 1 \in Nat
    BY DEF Written, TypeOK, RuntimeType, Patches
  <2>. QED  BY <2>1, PatchTypes DEF Delta, Snapshot, Item
<1>2. \/ UNCHANGED <<seq, behind, attaching, out>>
      \/ seq' = seq + 1 /\ route_terminal_delta(e, r)
  BY DEF PumpFeed
<1>. HIDE DEF e, r
<1>3. ASSUME route_terminal_delta(e, r), d \notin subs PROVE out'[d] = out[d]
  BY <1>3 DEF route_terminal_delta
<1>4. ASSUME route_terminal_delta(e, r), d \in subs
      PROVE  \/ out'[d] = out[d] /\ (d \in behind' \/ attaching'[d] = "missed")
             \/ out'[d] = Append(out[d], r)
             \/ out'[d] = Append(out[d], e) /\ d \notin behind /\ attaching[d] = "no"
  <2>1. CASE d \in Withheld
    BY <1>4, <2>1 DEF route_terminal_delta
  <2>2. CASE d \notin Withheld /\ d \in behind
    BY <1>4, <2>2 DEF route_terminal_delta
  <2>3. CASE d \notin Withheld /\ d \notin behind
    BY <1>4, <2>3 DEF route_terminal_delta, Withheld
  <2>. QED  BY <2>1, <2>2, <2>3
<1>5. CASE seq' = seq + 1 /\ route_terminal_delta(e, r)
  <2>1. ASSUME out'[d] = Append(out[d], e), d \notin behind, attaching[d] = "no"
        PROVE  \E m \in Items :
                 /\ m.kind \in Output /\ m.seq = seq + 1 /\ out'[d] = Append(out[d], m)
                 /\ m.kind = "delta" => ~ Lags(d)
    BY <1>1, <2>1 DEF Lags, Output
  <2>2. ASSUME out'[d] = Append(out[d], r)
        PROVE  \E m \in Items :
                 /\ m.kind \in Output /\ m.seq = seq + 1 /\ out'[d] = Append(out[d], m)
                 /\ m.kind = "delta" => ~ Lags(d)
    BY <1>1, <2>2 DEF Output
  <2>3. (d \in behind' \/ attaching'[d] = "missed") => Lags(d)'
    BY DEF Lags
  <2>. QED  BY <1>3, <1>4, <1>5, <2>1, <2>2, <2>3
<1>. QED  BY <1>2, <1>5

\* Who waits, and for what, stays consistent.
LEMMA AskedStep ==
  ASSUME TypeOK, OrderInv, Next, \A c \in Clients : MarksOK(c), NEW d \in Clients
  PROVE  Asked(d)'
<1>0. /\ Asked(d) /\ Subscribed(d) /\ Outstanding(d)
      /\ out \in [Clients -> Seq(Items)] /\ req \in [Clients -> Requests]
      /\ evq \in [Clients -> Seq(Items)] /\ reply \in [Clients -> Items]
      /\ task \in [Clients -> Ops] /\ grid \in [Clients -> Items]
  BY DEF MarksOK, OrderInv, TypeOK, RegistryType, ServerType, ClientType
<1>1. ASSUME req'[d] = req[d], task'[d] = task[d], grid'[d] = grid[d], reply'[d] = reply[d],
             d \in up' => d \in up, d \in subs' => d \in subs,
             \/ out'[d] = out[d]
             \/ \E m : ~ IsAck(m) /\ out'[d] = Append(out[d], m)
      PROVE  Asked(d)'
  <2>1. OnTheWay(d)' = OnTheWay(d)  BY <1>1, WayMoves
  <2>. QED  BY <1>0, <1>1, <2>1 DEF Asked
<1>2. \A m : m.kind \in Output => ~ IsAck(m)  BY DEF IsAck, Output
<1>3. ASSUME NEW c \in Clients, recover(c), UNCHANGED <<req, task, grid, reply, up, subs>>
      PROVE  Asked(d)'
  <2>1. MarksOK(c)  OBVIOUS
  <2>2. \/ out'[d] = out[d]
        \/ \E m : ~ IsAck(m) /\ out'[d] = Append(out[d], m)
    <3>1. CASE d # c  BY <1>3, <2>1, <3>1, RecoverMarks
    <3>2. CASE d = c
      <4>1. \/ out' = out
            \/ RecoveryEvent(d).kind = "resync" /\ out'[d] = Append(out[d], RecoveryEvent(d))
        BY <1>3, <2>1, <3>2, RecoverMarks
      <4>. QED  BY <1>2, <4>1 DEF Output
    <3>. QED  BY <3>1, <3>2
  <2>. QED  BY <1>1, <1>3, <2>2
<1>4. CASE PtyStep
  <2>0. UNCHANGED <<req, task, grid, reply, up, subs>>
    BY <1>4 DEF PtyStep, PtyRead, PumpSubscribed, PumpFeed, TerminalExited, registry, server,
                client
  <2>1. CASE (\E why \in {"data", "wake", "eof"} : PtyRead(why)) \/ PumpSubscribed
             \/ TerminalExited
    <3>1. out' = out  BY <2>1 DEF PtyRead, PumpSubscribed, TerminalExited, registry
    <3>. QED  BY <1>1, <2>0, <3>1
  <2>2. ASSUME NEW V \in SUBSET Row, NEW open \in BOOLEAN, NEW due \in BOOLEAN,
               PumpFeed(V, open, due)
        PROVE  Asked(d)'
    <3>1. \/ out'[d] = out[d]
          \/ \E m : m.kind \in Output /\ out'[d] = Append(out[d], m)
      BY <2>2, PumpMoves
    <3>. QED  BY <1>1, <1>2, <2>0, <3>1
  <2>. QED  BY <1>4, <2>1, <2>2 DEF PtyStep
<1>5. ASSUME NEW to, BroadcastDomain(to) PROVE Asked(d)'
  <2>1. UNCHANGED <<req, task, grid, reply, up, subs>>
    BY <1>5 DEF BroadcastDomain, server, client
  <2>2. out'[d] = out[d] \/ out'[d] = Append(out[d], Note)
    BY <1>5 DEF BroadcastDomain, TrySend
  <2>3. ~ IsAck(Note)  BY DEF Note, Item, IsAck
  <2>. QED  BY <1>1, <2>1, <2>2, <2>3
<1>6. ASSUME NEW c \in Clients, HandlerStep(c) PROVE Asked(d)'
  <2>0. UNCHANGED <<task, grid, reply, up>>
    BY <1>6 DEF HandlerStep, AttachCount, AttachSnapshot, ResizeTerminal, DetachTerminal,
                Respond, FinishAttach, RecoverOwed, client
  <2>1. CASE FinishAttach(c)
    BY <1>1, <2>0, <2>1 DEF FinishAttach
  <2>2. CASE RecoverOwed(c)
    BY <1>3, <2>0, <2>2 DEF RecoverOwed
  <2>3. CASE d # c /\ ~ RecoverOwed(c)
    <3>1. /\ req'[d] = req[d] /\ out'[d] = out[d]
      BY <1>0, <1>6, <2>3 DEF HandlerStep, AttachCount, AttachSnapshot, ResizeTerminal,
             DetachTerminal, Respond, FinishAttach, Answer, registry
    <3>2. d \in subs' => d \in subs
      BY <1>6, <2>3 DEF HandlerStep, AttachCount, AttachSnapshot, ResizeTerminal,
             DetachTerminal, Respond, FinishAttach, begin_attach, unregister, unsubscribe,
             registry
    <3>. QED  BY <1>1, <2>0, <3>1, <3>2
  <2>4. CASE d = c /\ ~ Respond(c) /\ ~ FinishAttach(c) /\ ~ RecoverOwed(c)
    <3>1. /\ req[c] # NoReq /\ req[c].phase # "respond"
          /\ req[c].op \in {"attach", "resize", "detach"}
      BY <1>6, <2>4 DEF HandlerStep, AttachCount, AttachSnapshot, ResizeTerminal,
             DetachTerminal, Handling, NoReq, Request
    <3>2. OnTheWay(c) = {}  BY <1>0, <2>4, <3>1, WayAlone
    <3>3. ~ (c \in subs \cap up /\ grid[c] = Nil)
      BY <1>0, <2>4, <3>2 DEF Asked
    <3>4. CASE AttachCount(c)
      <4>1. /\ req'[c].op = "attach" /\ req'[c].phase = "counted" /\ req[c].op = "attach"
            /\ subs' = subs
        BY <1>0, <3>4 DEF AttachCount, Handling, Request, registry
      <4>. QED  BY <1>0, <2>0, <2>4, <3>3, <4>1 DEF Asked
    <3>5. ASSUME NEW m, Answer(c, m),
                 \/ subs' = subs /\ req[c].op # "detach"
                 \/ c \notin subs'
                 \/ req[c].op # "detach" /\ IsAck(m)
          PROVE  Asked(c)'
      <4>1. req'[c].op = "none" /\ req'[c].phase = "respond" /\ req'[c].resp = m
        BY <1>0, <3>5 DEF Answer, Request
      <4>2. c \in up /\ req[c].op # "detach" => task[c] # "detach"
        BY <1>0, <2>4, <3>1 DEF Asked
      <4>3. IsAck(m) => OnTheWay(c)' # {}
        <5>1. IsAck(m) => m \in OnTheWay(c)'  BY <4>1 DEF OnTheWay, IsAck
        <5>. QED  BY <5>1
      <4>. QED  BY <2>0, <3>3, <3>5, <4>1, <4>2, <4>3 DEF Asked
    <3>6. CASE AttachSnapshot(c)
      <4>1. req[c].op = "attach"  BY <3>6 DEF AttachSnapshot, Handling
      <4>2. \/ Answer(c, Err) /\ subs' = subs
            \/ Answer(c, Snapshot("ack", seq, screen'))
        BY <3>6 DEF AttachSnapshot
      <4>3. IsAck(Snapshot("ack", seq, screen'))  BY DEF IsAck, Snapshot, Item
      <4>. QED  BY <2>4, <3>5, <4>1, <4>2, <4>3
    <3>7. CASE ResizeTerminal(c)
      <4>1. req[c].op = "resize" /\ subs' = subs /\ (Answer(c, Ok) \/ Answer(c, Err))
        BY <3>7 DEF ResizeTerminal, Handling, registry
      <4>. QED  BY <2>4, <3>5, <4>1
    <3>8. CASE DetachTerminal(c)
      <4>1. c \notin subs' /\ Answer(c, Ok)
        BY <3>8, UnsubscribeMarks DEF DetachTerminal
      <4>. QED  BY <2>4, <3>5, <4>1
    <3>. QED  BY <1>6, <2>4, <3>4, <3>6, <3>7, <3>8 DEF HandlerStep
  <2>5. CASE d = c /\ Respond(c)
    <3>1. /\ req[c].phase = "respond" /\ req'[c] = NoReq
          /\ \/ out' = [out EXCEPT ![c] = Append(@, req[c].resp)] /\ subs' = subs
             \/ unsubscribe(c)
      BY <1>0, <2>5 DEF Respond, unregister
    <3>2. /\ NoReq.op = "none" /\ NoReq.phase = "none" /\ NoReq.resp = Nil
          /\ req[c].op = "none"
      BY <1>0, <2>5, <3>1 DEF Asked, NoReq, Request
    <3>3. CASE out' = [out EXCEPT ![c] = Append(@, req[c].resp)] /\ subs' = subs
      <4>1. out'[c] = Append(out[c], req[c].resp)  BY <1>0, <3>3
      <4>2. OnTheWay(c)' = OnTheWay(c)  BY <2>0, <3>1, <3>2, <4>1, WayMoves
      <4>. QED  BY <1>0, <2>0, <2>5, <3>1, <3>2, <3>3, <4>2 DEF Asked
    <3>4. CASE unsubscribe(c)
      <4>1. c \notin subs'  BY <3>4, UnsubscribeMarks
      <4>. QED  BY <2>5, <3>1, <3>2, <4>1 DEF Asked
    <3>. QED  BY <3>1, <3>3, <3>4
  <2>. QED  BY <2>1, <2>2, <2>3, <2>4, <2>5
<1>7. ASSUME NEW c \in Clients, ConnectionStep(c) PROVE Asked(d)'
  <2>0. /\ req' = req
        /\ ~ ServerClose(c) => subs' = subs
    BY <1>7 DEF ConnectionStep, Deliver, WriterRecover, ClientEof, ClientClose, ServerClose,
                Connect, server
  <2>1. CASE WriterRecover(c)
    BY <1>3, <2>1 DEF WriterRecover, client
  <2>2. CASE ServerClose(c)
    <3>1. unsubscribe(c) /\ c \notin up /\ UNCHANGED <<req, task, grid, reply, up>>
          /\ out' = [out EXCEPT ![c] = <<>>]
      BY <2>0, <2>2 DEF ServerClose, unregister, client
    <3>2. CASE d = c
      BY <1>0, <3>1, <3>2 DEF Asked
    <3>3. CASE d # c
      BY <1>0, <1>1, <3>1, <3>3, UnsubscribeMarks
    <3>. QED  BY <3>2, <3>3
  <2>3. CASE Connect(c)
    <3>1. /\ c \notin registered /\ req[c] = NoReq /\ up' = up \cup {c}
          /\ UNCHANGED <<task, grid, reply>> /\ out' = [out EXCEPT ![c] = <<>>]
      BY <2>3 DEF Connect, Settled
    <3>2. NoReq.op = "none" /\ NoReq.phase = "none"  BY DEF NoReq, Request
    <3>3. CASE d = c
      BY <1>0, <2>0, <2>3, <3>1, <3>2, <3>3 DEF Asked, Subscribed, Connect
    <3>4. CASE d # c
      BY <1>0, <1>1, <2>0, <2>3, <3>1, <3>4 DEF Connect
    <3>. QED  BY <3>3, <3>4
  <2>4. ASSUME Disconnect(c), subs' = subs PROVE Asked(d)'
    <3>1. CASE d = c  BY <1>0, <2>0, <2>4, <3>1 DEF Disconnect, Asked
    <3>2. CASE d # c  BY <1>0, <1>1, <2>0, <2>4, <3>2 DEF Disconnect
    <3>. QED  BY <3>1, <3>2
  <2>5. CASE ClientEof(c) \/ ClientClose(c)
    BY <2>4, <2>5 DEF ClientEof, ClientClose
  <2>6. CASE Deliver(c)
    <3>1. /\ out[c] # <<>> /\ subs' = subs /\ c \in up
          /\ \/ Disconnect(c)
             \/ /\ IsResponse(Head(out[c])) /\ reply' = [reply EXCEPT ![c] = Head(out[c])]
                /\ out' = [out EXCEPT ![c] = Tail(@)] /\ UNCHANGED <<up, task, grid>>
             \/ /\ ~ IsResponse(Head(out[c]))
                /\ out' = [out EXCEPT ![c] = Tail(@)] /\ UNCHANGED <<up, reply, task, grid>>
      BY <2>6 DEF Deliver, IsResponse
    <3>2. CASE Disconnect(c)  BY <2>4, <3>1, <3>2
    <3>3. CASE d # c
      BY <1>0, <1>1, <2>0, <3>1, <3>2, <3>3
    <3>4. CASE /\ d = c /\ IsResponse(Head(out[c]))
               /\ reply' = [reply EXCEPT ![c] = Head(out[c])]
               /\ out' = [out EXCEPT ![c] = Tail(@)] /\ UNCHANGED <<up, task, grid>>
      <4>1. reply'[c] = Head(out[c]) /\ out'[c] = Tail(out[c])  BY <1>0, <3>4
      <4>2. reply[c] = Nil
        <5>1. out[c] \in Seq(Items)  BY <1>0
        <5>2. ~ Quiet(out[c])  BY <3>1, <3>4, <5>1, QueueResponses, ItemTypes
        <5>. QED  BY <1>0, <3>4, <5>2 DEF Outstanding
      <4>3. OnTheWay(c)' = OnTheWay(c)  BY <2>0, <3>1, <4>1, <4>2, WayMoves
      <4>. QED  BY <1>0, <2>0, <3>1, <3>4, <4>3 DEF Asked
    <3>5. CASE /\ d = c /\ ~ IsResponse(Head(out[c]))
               /\ out' = [out EXCEPT ![c] = Tail(@)] /\ UNCHANGED <<up, reply, task, grid>>
      <4>1. out'[c] = Tail(out[c]) /\ ~ IsAck(Head(out[c]))
        BY <1>0, <3>5 DEF IsResponse, Responses, IsAck
      <4>2. OnTheWay(c)' = OnTheWay(c)  BY <2>0, <3>1, <3>5, <4>1, WayMoves
      <4>. QED  BY <1>0, <2>0, <3>1, <3>5, <4>2 DEF Asked
    <3>. QED  BY <3>1, <3>2, <3>3, <3>4, <3>5
  <2>. QED  BY <1>7, <2>1, <2>2, <2>3, <2>5, <2>6 DEF ConnectionStep
<1>8. ASSUME NEW c \in Clients, ClientStep(c) PROVE Asked(d)'
  <2>0. out' = out /\ up' = up /\ subs' = subs
    BY <1>8 DEF ClientStep, StartAttach, StartDetach, StartResize, TakeReply, ApplyEvent,
                registry
  <2>1. CASE d # c
    <3>1. req'[d] = req[d] /\ task'[d] = task[d] /\ reply'[d] = reply[d] /\ grid'[d] = grid[d]
      BY <1>0, <1>8, <2>1 DEF ClientStep, StartAttach, StartDetach, StartResize, TakeReply,
             ApplyEvent, Send
    <3>. QED  BY <1>1, <2>0, <3>1
  <2>2. \A op \in {"attach", "detach", "resize"} : Send(c, op) =>
          task'[c] = op /\ req'[c].op = op /\ req'[c].phase = "sent"
    BY <1>0 DEF Send, Request
  <2>3. CASE d = c /\ (StartAttach(c) \/ StartDetach(c) \/ \E n \in Sizes : StartResize(c, n))
    <3>1. /\ c \in up /\ task[c] = "none" /\ grid' = grid
          /\ \E op \in {"attach", "detach", "resize"} : Send(c, op)
      BY <2>3 DEF StartAttach, StartDetach, StartResize, Free
    <3>2. OnTheWay(c) = {}  BY <1>0, <2>3, <3>1, WayAlone
    <3>. QED  BY <1>0, <2>0, <2>2, <2>3, <3>1, <3>2 DEF Asked
  <2>4. CASE d = c /\ TakeReply(c)
    <3>1. /\ reply[c] # Nil /\ c \in up /\ req[c] = NoReq
      BY <1>0, <2>4 DEF TakeReply, Outstanding
    <3>2. /\ \/ Send(c, "attach")
             \/ task'[c] = "none" /\ req'[c] = NoReq
          /\ grid'[c] = IF IsAck(reply[c]) THEN FromSnapshot(reply[c])
                        ELSE IF task[c] = "detach" THEN Nil ELSE grid[c]
      BY <1>0, <2>4, <3>1 DEF TakeReply
    <3>3. NoReq.op = "none" /\ NoReq.phase = "none"  BY DEF NoReq, Request
    <3>4. task[c] = "detach" => c \notin subs
      BY <1>0, <2>4, <3>1, <3>3 DEF Asked
    <3>5. OnTheWay(c) = {m \in {reply[c]} : IsAck(m)}  BY <1>0, <2>4, <3>1, WayAlone
    <3>6. FromSnapshot(reply[c]) # Nil  BY DEF FromSnapshot, Item, Nil
    <3>7. c \in subs => grid'[c] # Nil
      BY <1>0, <2>4, <3>1, <3>2, <3>4, <3>5, <3>6 DEF Asked
    <3>. QED  BY <2>0, <2>2, <2>4, <3>2, <3>3, <3>7 DEF Asked
  <2>5. CASE d = c /\ ApplyEvent(c)
    <3>1. /\ c \in up /\ task[c] = "none"
          /\ \/ Send(c, "attach")
             \/ UNCHANGED <<task, req>>
          /\ grid'[c] = apply_event(grid[c], Head(evq[c]))
      BY <1>0, <2>5 DEF ApplyEvent, Free
    <3>2. OnTheWay(c) = {}  BY <1>0, <2>5, <3>1, WayAlone
    <3>3. c \in subs => grid[c] # Nil  BY <1>0, <2>5, <3>1, <3>2 DEF Asked
    <3>4. grid[c] # Nil => grid'[c] # Nil
      BY <3>1 DEF apply_event, Patched, FromSnapshot, Item, Nil
    <3>5. req[c] = NoReq /\ NoReq.op = "none" /\ NoReq.phase = "none"
      BY <1>0, <2>5, <3>1 DEF Outstanding, NoReq, Request
    <3>. QED  BY <1>0, <2>0, <2>2, <2>5, <3>1, <3>3, <3>4, <3>5 DEF Asked
  <2>. QED  BY <1>8, <2>1, <2>3, <2>4, <2>5 DEF ClientStep
<1>. QED  BY <1>4, <1>5, <1>6, <1>7, <1>8 DEF Next


-----------------------------------------------------------------------------
(***************************************************************************)
(* The chain.                                                              *)
(***************************************************************************)

\* What is on its way to a client after a step.
LEMMA WayAloneNext ==
  (TypeOK /\ OrderInv => \A c \in Clients :
     /\ c \in up /\ task[c] = "none" => OnTheWay(c) = {}
     /\ req[c] # NoReq => OnTheWay(c) = {m \in {req[c].resp} : IsAck(m)}
     /\ req[c] # NoReq /\ req[c].phase # "respond" => OnTheWay(c) = {})'
<1>1. TypeOK /\ OrderInv => \A c \in Clients :
        /\ c \in up /\ task[c] = "none" => OnTheWay(c) = {}
        /\ req[c] # NoReq => OnTheWay(c) = {m \in {req[c].resp} : IsAck(m)}
        /\ req[c] # NoReq /\ req[c].phase # "respond" => OnTheWay(c) = {}
  BY WayAlone DEF OrderInv
<1>. QED  BY <1>1, PTL

\* The starts after a step.
LEMMA StartsNext ==
  ASSUME NEW c \in Clients
  PROVE  /\ OnTheWay(c)' = OnTheWay(c) /\ grid'[c] = grid[c] => Starts(c)' = Starts(c)
         /\ OnTheWay(c)' = {} => Starts(c)' = {grid'[c].seq}
         /\ \A m : OnTheWay(c)' = {m} => Starts(c)' = {m.seq}
         /\ OnTheWay(c) = {} => Starts(c) = {grid[c].seq}
         /\ \A m : OnTheWay(c) = {m} => Starts(c) = {m.seq}
<1>1. Starts(c)' = {m.seq : m \in IF OnTheWay(c)' = {} THEN {grid'[c]} ELSE OnTheWay(c)'}
  BY DEF Starts
<1>. QED  BY <1>1 DEF Starts

\* The chain after a step, as its definition unfolds.
LEMMA ChainNext ==
  ASSUME NEW c \in Clients,
         Follows(c)' => \A n \in Starts(c)' :
            /\ Unbroken(n, Queue(c)')
            /\ ~ Lags(c)' => Touches(seq', n, Queue(c)')
  PROVE  ChainOK(c)'
  BY DEF ChainOK, Unbroken, Touches

\* The start stays; the queue does too, or it grows by a note, or by the delta or
\* the resync that ends the chain, or the client starts to lag.
LEMMA ChainGrows ==
  ASSUME IInv, NEW d \in Clients, ChainOK(d), Starts(d)' = Starts(d),
         Follows(d)' => Follows(d),
         \/ Queue(d)' = Queue(d) /\ (Lags(d)' \/ (seq' = seq /\ ~ Lags(d)))
         \/ \E m \in Items : /\ m.kind \notin Output /\ Queue(d)' = Append(Queue(d), m)
                             /\ seq' = seq /\ (Lags(d)' \/ ~ Lags(d))
         \/ \E m \in Items : /\ m.kind \in Output /\ Queue(d)' = Append(Queue(d), m)
                             /\ m.seq = seq'
                             /\ m.kind = "delta" => seq' = seq + 1 /\ ~ Lags(d)
  PROVE  ChainOK(d)'
<1>. SUFFICES ASSUME Follows(d)', NEW n \in Starts(d)'
              PROVE  /\ Unbroken(n, Queue(d)')
                     /\ ~ Lags(d)' => Touches(seq', n, Queue(d)')
  BY ChainNext
<1>1. n \in Starts(d) /\ n \in Nat /\ Queue(d) \in Seq(Items) /\ seq \in Nat
  BY Numbers
<1>2. /\ Unbroken(n, Queue(d))
      /\ ~ Lags(d) => Touches(seq, n, Queue(d))
  BY <1>1 DEF ChainOK
<1>3. CASE Queue(d)' = Queue(d) /\ (Lags(d)' \/ (seq' = seq /\ ~ Lags(d)))
  BY <1>2, <1>3
<1>4. ASSUME NEW m \in Items, m.kind \notin Output, Queue(d)' = Append(Queue(d), m),
             seq' = seq, Lags(d)' \/ ~ Lags(d)
      PROVE  /\ Unbroken(n, Queue(d)')
             /\ ~ Lags(d)' => Touches(seq', n, Queue(d)')
  <2>1. m.kind # "delta"  BY <1>4 DEF Output
  <2>. QED  BY <1>1, <1>2, <1>4, <2>1, ChainAppend
<1>5. ASSUME NEW m \in Items, m.kind \in Output, Queue(d)' = Append(Queue(d), m),
             m.seq = seq', m.kind = "delta" => seq' = seq + 1 /\ ~ Lags(d)
      PROVE  /\ Unbroken(n, Queue(d)')
             /\ ~ Lags(d)' => Touches(seq', n, Queue(d)')
  <2>1. Touches(seq', n, Queue(d)')  BY <1>1, <1>5, ChainAppend
  <2>2. CASE m.kind # "delta"  BY <1>1, <1>2, <1>5, <2>1, <2>2, ChainAppend
  <2>3. CASE m.kind = "delta"
    <3>1. m.seq = seq + 1 /\ Touches(seq, n, Queue(d)) /\ Unbroken(n, Queue(d))
      BY <1>2, <1>5, <2>3
    <3>2. Unbroken(n, Append(Queue(d), m))  BY <1>1, <3>1, ChainAppend
    <3>. QED  BY <1>5, <2>1, <3>2
  <2>. QED  BY <2>2, <2>3
<1>. QED  BY <1>3, <1>4, <1>5

\* The same when only the queue of the connection changes.
LEMMA ChainEvents ==
  ASSUME IInv, NEW d \in Clients, ChainOK(d),
         grid'[d] = grid[d], reply'[d] = reply[d], req'[d].resp = req[d].resp,
         evq'[d] = evq[d], Follows(d)' => Follows(d),
         \/ out'[d] = out[d] /\ (Lags(d)' \/ (seq' = seq /\ ~ Lags(d)))
         \/ \E m \in Items : /\ m.kind \notin Output /\ ~ IsAck(m) /\ out'[d] = Append(out[d], m)
                             /\ seq' = seq /\ (Lags(d)' \/ ~ Lags(d))
         \/ \E m \in Items : /\ m.kind \in Output /\ out'[d] = Append(out[d], m)
                             /\ m.seq = seq'
                             /\ m.kind = "delta" => seq' = seq + 1 /\ ~ Lags(d)
  PROVE  ChainOK(d)'
<1>1. /\ evq[d] \in Seq(Items) /\ out[d] \in Seq(Items)
      /\ Queue(d) = evq[d] \o out[d] /\ Queue(d)' = evq'[d] \o out'[d]
  BY DEF IInv, TypeOK, RegistryType, ClientType, Queue
<1>2. \A m : m.kind \in Output => ~ IsAck(m)  BY DEF Output, IsAck
<1>3. OnTheWay(d)' = OnTheWay(d)
  <2>1. out'[d] = out[d] \/ \E m : ~ IsAck(m) /\ out'[d] = Append(out[d], m)
    BY <1>2
  <2>. QED  BY <2>1, WayMoves DEF IInv
<1>4. Starts(d)' = Starts(d)  BY <1>3, StartsNext
<1>5. out'[d] = out[d] => Queue(d)' = Queue(d)  BY <1>1
<1>6. ASSUME NEW m \in Items, out'[d] = Append(out[d], m)
      PROVE  Queue(d)' = Append(Queue(d), m)
  <2>1. Queue(d)' = evq[d] \o Append(out[d], m)  BY <1>1, <1>6
  <2>2. evq[d] \o Append(out[d], m) = Append(evq[d] \o out[d], m)  BY <1>1, QueueJoin
  <2>. QED  BY <1>1, <2>1, <2>2
<1>. QED  BY <1>4, <1>5, <1>6, ChainGrows

\* A recovery.
LEMMA ChainRecover ==
  ASSUME IInv, OrderInv, ChainInv, NEW c \in Clients, recover(c),
         UNCHANGED <<grid, reply, req, evq, seq, live, up, subs, attaching>>, NEW d \in Clients
  PROVE  ChainOK(d)'
<1>0. TypeOK /\ MarksOK(c) /\ ChainOK(d) /\ (Follows(d)' => Follows(d))
  BY DEF IInv, ChainInv, Follows, Resized
<1>1. CASE d # c
  <2>1. out'[d] = out[d] /\ (Lags(d)' <=> Lags(d))
    BY <1>0, <1>1, RecoverMarks DEF Lags
  <2>. QED  BY <1>0, <2>1, ChainEvents
<1>2. CASE d = c
  <2>1. CASE UNCHANGED <<behind, finished, out>>
    <3>1. Lags(d)' <=> Lags(d)  BY <2>1 DEF Lags
    <3>. QED  BY <1>0, <2>1, <3>1, ChainEvents
  <2>2. CASE /\ RecoveryEvent(d).kind = "resync" /\ RecoveryEvent(d).seq = seq
             /\ out'[d] = Append(out[d], RecoveryEvent(d))
    <3>1. RecoveryEvent(d) \in Items
      BY <1>0, PatchTypes, ItemTypes DEF RecoveryEvent, TypeOK, RuntimeType, RegistryType
    <3>2. RecoveryEvent(d).kind \in Output /\ RecoveryEvent(d).kind # "delta"
      BY <2>2 DEF Output
    <3>. HIDE DEF RecoveryEvent
    <3>. QED  BY <1>0, <2>2, <3>1, <3>2, ChainEvents
  <2>3. CASE d \notin up
    BY <2>3 DEF ChainOK, Follows
  <2>. QED  BY <1>0, <1>2, <2>1, <2>2, <2>3, RecoverMarks
<1>. QED  BY <1>1, <1>2


\* Every step keeps the chain of every subscriber.
LEMMA ChainPty ==
  ASSUME IInv, ChainInv, PtyStep, NEW d \in Clients
  PROVE  ChainOK(d)'
<1>0. TypeOK /\ ChainOK(d)  BY DEF IInv, ChainInv
<1>1. /\ UNCHANGED <<subs, up, req, grid, reply, evq>>
      /\ live' = live \/ TerminalExited
  BY DEF PtyStep, PtyRead, PumpSubscribed, PumpFeed, TerminalExited, server, client, registry,
         runtime
<1>2. Follows(d)' => Follows(d)
  <2>1. CASE live' = live  BY <1>1, <2>1 DEF Follows, Resized
  <2>2. CASE TerminalExited
    <3>1. ~ live'  BY <2>2 DEF TerminalExited
    <3>. QED  BY <1>1, <3>1 DEF Follows, Resized
  <2>. QED  BY <1>1, <2>1, <2>2
<1>3. ASSUME out'[d] = out[d], Lags(d)' \/ (seq' = seq /\ ~ Lags(d)) PROVE ChainOK(d)'
  BY <1>0, <1>1, <1>2, <1>3, ChainEvents
<1>4. CASE UNCHANGED <<seq, behind, attaching, out>>
  <2>1. Lags(d)' <=> Lags(d)  BY <1>4 DEF Lags
  <2>. QED  BY <1>3, <1>4, <2>1
<1>5. ASSUME NEW V \in SUBSET Row, NEW open \in BOOLEAN, NEW due \in BOOLEAN,
             PumpFeed(V, open, due)
      PROVE  ChainOK(d)'
  <2>1. CASE d \in subs /\ seq' = seq + 1
    <3>1. CASE out'[d] = out[d] /\ Lags(d)'  BY <1>3, <3>1
    <3>2. ASSUME NEW m \in Items, m.kind \in Output, m.seq = seq + 1,
                 out'[d] = Append(out[d], m), m.kind = "delta" => ~ Lags(d)
          PROVE  ChainOK(d)'
      BY <1>0, <1>1, <1>2, <2>1, <3>2, ChainEvents
    <3>3. seq' # seq  BY <1>0, <2>1 DEF TypeOK, RuntimeType
    <3>. QED  BY <1>0, <1>5, <2>1, <3>1, <3>2, <3>3, PumpMoves
  <2>2. CASE d \notin subs
    BY <1>1, <2>2 DEF ChainOK, Follows
  <2>. QED  BY <1>0, <1>4, <1>5, <2>1, <2>2, PumpMoves
<1>. QED  BY <1>4, <1>5 DEF PtyStep, PtyRead, PumpSubscribed, TerminalExited, registry, runtime

LEMMA ChainBroadcast ==
  ASSUME IInv, ChainInv, NEW to, BroadcastDomain(to), NEW d \in Clients
  PROVE  ChainOK(d)'
<1>0. TypeOK /\ ChainOK(d)  BY DEF IInv, ChainInv
<1>1. UNCHANGED <<subs, up, req, grid, reply, evq, live, seq, behind, attaching>>
  BY DEF BroadcastDomain, runtime, server, client
<1>2. (Follows(d)' => Follows(d)) /\ (Lags(d)' <=> Lags(d))
  BY <1>1 DEF Follows, Resized, Lags
<1>3. Note \in Items /\ Note.kind \notin Output /\ ~ IsAck(Note)
  BY ItemTypes DEF Note, Item, Output, IsAck
<1>4. out'[d] = out[d] \/ out'[d] = Append(out[d], Note)
  BY DEF BroadcastDomain, TrySend
<1>. QED  BY <1>0, <1>1, <1>2, <1>3, <1>4, ChainEvents

LEMMA ChainHandler ==
  ASSUME IInv, RespPlain, OrderInv, ChainInv, Next, NEW c \in Clients, HandlerStep(c),
         NEW d \in Clients
  PROVE  ChainOK(d)'
<1>0. /\ TypeOK /\ ChainOK(d) /\ MarksOK(c)
      /\ Outstanding(c) /\ Subscribed(c) /\ Asked(c)
      /\ req \in [Clients -> Requests] /\ out \in [Clients -> Seq(Items)]
      /\ evq \in [Clients -> Seq(Items)] /\ attaching \in [Clients -> {"no", "clean", "missed"}]
  BY DEF IInv, ChainInv, OrderInv, MarksOK, TypeOK, ServerType, RegistryType, ClientType
<1>1. UNCHANGED <<live, seq, up, evq, reply, task, grid>>
  BY DEF HandlerStep, AttachCount, AttachSnapshot, ResizeTerminal, DetachTerminal, Respond,
         FinishAttach, RecoverOwed, runtime, client
<1>2. (TypeOK /\ OrderInv)'  BY StreamStep, OrderStep DEF IInv
<1>3. CASE RecoverOwed(c)
  <2>1. recover(c) /\ UNCHANGED <<grid, reply, req, evq, seq, live, up, subs, attaching>>
    BY <1>1, <1>3 DEF RecoverOwed
  <2>. QED  BY <2>1, ChainRecover
<1>4. CASE d # c /\ ~ RecoverOwed(c)
  <2>1. req'[d] = req[d] /\ out'[d] = out[d]
    BY <1>0, <1>4 DEF HandlerStep, AttachCount, AttachSnapshot, ResizeTerminal, DetachTerminal,
           Respond, FinishAttach, Answer, registry
  <2>2. /\ d \in subs' <=> d \in subs
        /\ d \in behind' <=> d \in behind
        /\ attaching'[d] = attaching[d]
    BY <1>0, <1>4, UnsubscribeMarks
       DEF HandlerStep, AttachCount, AttachSnapshot, ResizeTerminal, DetachTerminal,
           Respond, FinishAttach, registry, unregister, begin_attach
  <2>3. (Follows(d)' => Follows(d)) /\ (Lags(d)' <=> Lags(d))
    BY <1>1, <2>1, <2>2 DEF Follows, Resized, Lags
  <2>. QED  BY <1>0, <1>1, <2>1, <2>3, ChainEvents
\* A handler that has not answered yet: nothing was on its way.
<1>5. ASSUME d = c, req[c].phase \in {"sent", "counted"},
             \/ req'[c].phase = "counted"
             \/ \E m : ~ IsAck(m) /\ Answer(c, m),
             Follows(c)' => Follows(c), out' = out, UNCHANGED <<behind, attaching>>
      PROVE  ChainOK(d)'
  <2>1. req[c] # NoReq /\ req[c].phase # "respond"
    BY <1>5 DEF NoReq, Request
  <2>2. OnTheWay(c) = {}  BY <1>0, <2>1, WayAlone
  <2>3. OnTheWay(c)' = {}
    <3>1. CASE req'[c].phase = "counted"
      <4>1. req'[c] # NoReq /\ req'[c].phase # "respond"
        BY <3>1 DEF NoReq, Request
      <4>. QED  BY <1>2, <4>1, WayAloneNext
    <3>2. ASSUME NEW m, ~ IsAck(m), Answer(c, m) PROVE OnTheWay(c)' = {}
      <4>1. req'[c] # NoReq /\ req'[c].resp = m
        BY <1>0, <3>2 DEF Answer, NoReq, Request
      <4>2. OnTheWay(c)' = {x \in {req'[c].resp} : IsAck(x)}
        BY <1>2, <4>1, WayAloneNext
      <4>. QED  BY <3>2, <4>1, <4>2
    <3>. QED  BY <1>5, <3>1, <3>2
  <2>4. Starts(c)' = Starts(c)  BY <1>1, <2>2, <2>3, StartsNext
  <2>5. Queue(c)' = Queue(c) /\ (Lags(c)' <=> Lags(c))
    BY <1>1, <1>5 DEF Queue, Lags
  <2>. QED  BY <1>0, <1>1, <1>5, <2>4, <2>5, ChainGrows
<1>6. ~ IsAck(Ok) /\ ~ IsAck(Err)  BY DEF IsAck, Ok, Err, Item
<1>7. CASE d = c /\ AttachCount(c)
  <2>1. /\ req[c].phase = "sent" /\ req[c].op = "attach" /\ UNCHANGED <<subs, out, behind, attaching>>
        /\ req'[c].phase = "counted"
    BY <1>0, <1>7 DEF AttachCount, Handling, Request, registry
  <2>2. Follows(c)' => Follows(c)
    <3>1. req'[c].op = "attach"  BY <1>0, <1>7 DEF AttachCount, Request
    <3>. QED  BY <1>1, <2>1, <3>1 DEF Follows, Resized
  <2>. QED  BY <1>5, <1>7, <2>1, <2>2
<1>8. CASE d = c /\ AttachSnapshot(c)
  <2>1. CASE ~ live
    <3>1. /\ req[c].phase = "counted" /\ UNCHANGED <<subs, out, behind, attaching>>
          /\ Answer(c, Err) /\ ~ live'
      BY <1>1, <1>8, <2>1 DEF AttachSnapshot, Handling
    <3>2. Follows(c)' => Follows(c)  BY <1>1, <2>1, <3>1 DEF Follows, Resized
    <3>. QED  BY <1>5, <1>6, <1>8, <3>1, <3>2
  <2>2. CASE live
    <3>. DEFINE ack == Snapshot("ack", seq, screen')
    <3>1. Answer(c, ack) /\ out' = out  BY <1>8, <2>2 DEF AttachSnapshot
    <3>2. IsAck(ack) /\ ack.seq = seq  BY DEF IsAck, Snapshot, Item
    <3>. HIDE DEF ack
    <3>3. req'[c] # NoReq /\ req'[c].resp = ack
      BY <1>0, <3>1 DEF Answer, NoReq, Request
    <3>4. OnTheWay(c)' = {x \in {req'[c].resp} : IsAck(x)}  BY <1>2, <3>3, WayAloneNext
    <3>5. OnTheWay(c)' = {ack}  BY <3>2, <3>3, <3>4
    <3>6. Starts(c)' = {seq}  BY <3>2, <3>5, StartsNext
    <3>7. /\ seq \in Nat /\ Queue(c) \in Seq(Items) /\ Queue(c)' = Queue(c)
          /\ \A i \in 1..Len(Queue(c)) :
               Queue(c)[i].kind \in Output => Queue(c)[i].seq \in Nat /\ Queue(c)[i].seq <= seq
      <4>1. /\ seq \in Nat /\ Queue(c) \in Seq(Items)
            /\ \A i \in 1..Len(Queue(c)) :
                 Queue(c)[i].kind \in Output => Queue(c)[i].seq <= seq
        BY Numbers
      <4>2. \A i \in 1..Len(Queue(c)) : Queue(c)[i] \in Items  BY <4>1
      <4>3. \A m \in Items : m.seq \in Nat  BY DEF Items
      <4>4. Queue(c)' = Queue(c)  BY <1>1, <3>1 DEF Queue
      <4>. QED  BY <4>1, <4>2, <4>3, <4>4
    <3>8. Unbroken(seq, Queue(c))
      BY <3>7 DEF Unbroken, Output
    <3>9. Touches(seq, seq, Queue(c))  BY DEF Touches
    <3>. QED  BY <1>1, <1>8, <3>6, <3>7, <3>8, <3>9, ChainNext
  <2>. QED  BY <2>1, <2>2
<1>9. CASE d = c /\ ResizeTerminal(c)
  <2>1. /\ req[c].phase = "sent" /\ req[c].op = "resize"
        /\ UNCHANGED <<subs, out, behind, attaching>>
        /\ Answer(c, Ok) \/ Answer(c, Err)
    BY <1>9 DEF ResizeTerminal, Handling, registry
  <2>2. Follows(c)' => Follows(c)  BY <1>1, <2>1 DEF Follows, Resized
  <2>. QED  BY <1>5, <1>6, <1>9, <2>1, <2>2
<1>10. CASE d = c /\ DetachTerminal(c)
  <2>1. c \notin subs'  BY <1>0, <1>10, UnsubscribeMarks DEF DetachTerminal
  <2>. QED  BY <1>10, <2>1 DEF ChainOK, Follows
<1>11. CASE d = c /\ Respond(c)
  <2>1. /\ req[c].phase = "respond" /\ req'[c] = NoReq
        /\ \/ out' = [out EXCEPT ![c] = Append(@, req[c].resp)]
              /\ UNCHANGED <<subs, behind, attaching>>
           \/ unsubscribe(c)
    BY <1>0, <1>11 DEF Respond, unregister
  <2>2. CASE unsubscribe(c)
    <3>1. c \notin subs'  BY <1>0, <2>2, UnsubscribeMarks
    <3>. QED  BY <1>11, <3>1 DEF ChainOK, Follows
  <2>3. CASE out' = [out EXCEPT ![c] = Append(@, req[c].resp)] /\ UNCHANGED <<subs, behind, attaching>>
    <3>. DEFINE m == req[c].resp
    <3>1. /\ m \in Items /\ m.kind \notin Output /\ out'[c] = Append(out[c], m)
          /\ NoReq.resp = Nil /\ req[c].op = "none"
      BY <1>0, <2>1, <2>3 DEF Requests, RespPlain, NoReq, Request, Asked
    <3>2. OnTheWay(c)' = OnTheWay(c)  BY <1>0, <1>1, <2>1, <3>1, WayMoves
    <3>3. Starts(c)' = Starts(c)  BY <1>1, <3>2, StartsNext
    <3>4. (Follows(c)' => Follows(c)) /\ (Lags(c)' <=> Lags(c))
      BY <1>1, <2>1, <2>3, <3>1 DEF Follows, Resized, Lags
    <3>5. Queue(c)' = Append(Queue(c), m)
      <4>1. Queue(c) = evq[c] \o out[c] /\ Queue(c)' = evq[c] \o Append(out[c], m)
        BY <1>1, <3>1 DEF Queue
      <4>2. evq[c] \o Append(out[c], m) = Append(evq[c] \o out[c], m)
        BY <1>0, <3>1, QueueJoin
      <4>. QED  BY <4>1, <4>2
    <3>. QED  BY <1>0, <1>1, <1>11, <3>1, <3>3, <3>4, <3>5, ChainGrows
  <2>. QED  BY <2>1, <2>2, <2>3
<1>12. CASE d = c /\ FinishAttach(c)
  <2>1. UNCHANGED <<subs, req, out>>  BY <1>12 DEF FinishAttach
  <2>2. Lags(c) => Lags(c)'
    <3>1. c \in behind => c \in behind'  BY <1>12 DEF FinishAttach
    <3>2. attaching[c] = "missed" => c \in behind'
      BY <1>0, <1>12 DEF FinishAttach, Subscribed
    <3>. QED  BY <3>1, <3>2 DEF Lags
  <2>3. Follows(c)' => Follows(c)  BY <1>1, <2>1 DEF Follows, Resized
  <2>. QED  BY <1>0, <1>1, <1>12, <2>1, <2>2, <2>3, ChainEvents
<1>. QED
  BY <1>3, <1>4, <1>7, <1>8, <1>9, <1>10, <1>11, <1>12 DEF HandlerStep


LEMMA ChainConnection ==
  ASSUME IInv, OrderInv, ChainInv, NEW c \in Clients, ConnectionStep(c), NEW d \in Clients
  PROVE  ChainOK(d)'
<1>0. /\ TypeOK /\ ChainOK(d) /\ Outstanding(c) /\ Subscribed(c)
      /\ out \in [Clients -> Seq(Items)] /\ evq \in [Clients -> Seq(Items)]
      /\ reply \in [Clients -> Items] /\ grid \in [Clients -> Items]
  BY DEF IInv, ChainInv, OrderInv, MarksOK, TypeOK, RegistryType, ClientType
<1>1. req' = req /\ live' = live /\ seq' = seq
  BY DEF ConnectionStep, Deliver, WriterRecover, ClientEof, ClientClose, ServerClose, Connect,
         server, runtime
<1>2. ASSUME out'[d] = out[d], grid'[d] = grid[d], reply'[d] = reply[d], evq'[d] = evq[d],
             d \in subs' => d \in subs, d \in up' => d \in up,
             d \in behind' <=> d \in behind, attaching'[d] = attaching[d]
      PROVE  ChainOK(d)'
  <2>1. (Follows(d)' => Follows(d)) /\ (Lags(d)' <=> Lags(d))
    BY <1>1, <1>2 DEF Follows, Resized, Lags
  <2>. QED  BY <1>0, <1>1, <1>2, <2>1, ChainEvents
<1>3. CASE WriterRecover(c)
  <2>1. recover(c) /\ UNCHANGED <<grid, reply, req, evq, seq, live, up, subs, attaching>>
    BY <1>1, <1>3 DEF WriterRecover, client
  <2>. QED  BY <2>1, ChainRecover
<1>4. ASSUME Disconnect(c), UNCHANGED <<subs, behind, attaching>> PROVE ChainOK(d)'
  <2>1. CASE d = c
    <3>1. c \notin up'  BY <1>4 DEF Disconnect
    <3>. QED  BY <2>1, <3>1 DEF ChainOK, Follows
  <2>2. CASE d # c  BY <1>0, <1>2, <1>4, <2>2 DEF Disconnect
  <2>. QED  BY <2>1, <2>2
<1>5. CASE ClientEof(c) \/ ClientClose(c)
  BY <1>4, <1>5 DEF ClientEof, ClientClose, registry
<1>6. CASE ServerClose(c)
  <2>1. unsubscribe(c) /\ UNCHANGED <<grid, reply, evq, up>> /\ out' = [out EXCEPT ![c] = <<>>]
    BY <1>6 DEF ServerClose, unregister, client
  <2>2. CASE d = c
    <3>1. c \notin subs'  BY <1>0, <2>1, UnsubscribeMarks
    <3>. QED  BY <2>2, <3>1 DEF ChainOK, Follows
  <2>3. CASE d # c
    <3>1. /\ d \in subs' <=> d \in subs
          /\ d \in behind' <=> d \in behind
          /\ attaching'[d] = attaching[d]
      BY <1>0, <2>1, <2>3, UnsubscribeMarks
    <3>. QED  BY <1>0, <1>2, <2>1, <2>3, <3>1
  <2>. QED  BY <2>2, <2>3
<1>7. CASE Connect(c)
  <2>1. CASE d = c
    <3>1. c \notin subs'  BY <1>0, <1>7 DEF Connect, Subscribed
    <3>. QED  BY <2>1, <3>1 DEF ChainOK, Follows
  <2>2. CASE d # c
    BY <1>0, <1>2, <1>7, <2>2 DEF Connect
  <2>. QED  BY <2>1, <2>2
<1>8. CASE Deliver(c)
  <2>. DEFINE m == Head(out[c])
  <2>1. /\ out[c] # <<>> /\ c \in up /\ UNCHANGED <<subs, behind, attaching>>
        /\ \/ Disconnect(c)
           \/ /\ IsResponse(m) /\ reply' = [reply EXCEPT ![c] = m]
              /\ out' = [out EXCEPT ![c] = Tail(@)] /\ UNCHANGED <<up, evq, grid>>
           \/ /\ ~ IsResponse(m) /\ evq' = [evq EXCEPT ![c] = Append(@, m)]
              /\ out' = [out EXCEPT ![c] = Tail(@)] /\ UNCHANGED <<up, reply, grid>>
    BY <1>8 DEF Deliver, IsResponse
  <2>2. CASE Disconnect(c)  BY <1>4, <2>1, <2>2
  <2>3. CASE d # c  BY <1>0, <1>2, <2>1, <2>2, <2>3
  <2>4. CASE /\ d = c /\ IsResponse(m) /\ reply' = [reply EXCEPT ![c] = m]
             /\ out' = [out EXCEPT ![c] = Tail(@)] /\ UNCHANGED <<up, evq, grid>>
    <3>1. reply'[c] = m /\ out'[c] = Tail(out[c])  BY <1>0, <2>4
    <3>2. reply[c] = Nil
      <4>1. out[c] \in Seq(Items)  BY <1>0
      <4>2. ~ Quiet(out[c])  BY <2>1, <2>4, <4>1, QueueResponses, ItemTypes
      <4>. QED  BY <1>0, <2>4, <4>2 DEF Outstanding
    <3>3. OnTheWay(c)' = OnTheWay(c)  BY <1>0, <1>1, <2>1, <3>1, <3>2, WayMoves
    <3>4. Starts(c)' = Starts(c)  BY <2>4, <3>3, StartsNext
    <3>5. /\ Queue(c) = evq[c] \o out[c] /\ Queue(c)' = evq[c] \o Tail(out[c])
          /\ m.kind \notin Output
      BY <2>4, <3>1 DEF Queue, IsResponse, Responses, Output
    <3>6. (Follows(c)' => Follows(c)) /\ (Lags(c)' <=> Lags(c))
      BY <1>1, <2>1, <2>4 DEF Follows, Resized, Lags
    <3>7. ASSUME Follows(c)', NEW n \in Starts(c)'
          PROVE  /\ Unbroken(n, Queue(c)')
                 /\ ~ Lags(c)' => Touches(seq', n, Queue(c)')
      <4>1. n \in Starts(c) /\ n \in Nat /\ seq \in Nat  BY <3>4, <3>7, Numbers
      <4>2. Unbroken(n, Queue(c)) /\ (~ Lags(c) => Touches(seq, n, Queue(c)))
        BY <1>0, <2>4, <3>6, <3>7, <4>1 DEF ChainOK
      <4>. HIDE DEF m
      <4>3. m = Head(out[c])  BY DEF m
      <4>. QED  BY <1>0, <1>1, <2>1, <3>5, <3>6, <4>1, <4>2, <4>3, ChainDrop
    <3>. QED  BY <2>4, <3>7, ChainNext
  <2>5. CASE /\ d = c /\ ~ IsResponse(m) /\ evq' = [evq EXCEPT ![c] = Append(@, m)]
             /\ out' = [out EXCEPT ![c] = Tail(@)] /\ UNCHANGED <<up, reply, grid>>
    <3>1. evq'[c] = Append(evq[c], m) /\ out'[c] = Tail(out[c]) /\ ~ IsAck(m)
      BY <1>0, <2>5 DEF IsResponse, Responses, IsAck
    <3>2. OnTheWay(c)' = OnTheWay(c)  BY <1>0, <1>1, <2>1, <2>5, <3>1, WayMoves
    <3>3. Starts(c)' = Starts(c)  BY <2>5, <3>2, StartsNext
    <3>4. Queue(c)' = Queue(c)
      <4>1. Append(evq[c], m) \o Tail(out[c]) = evq[c] \o out[c]
        BY <1>0, <2>1, QueueJoin, ItemTypes
      <4>. QED  BY <3>1, <4>1 DEF Queue
    <3>5. (Follows(c)' => Follows(c)) /\ (Lags(c)' <=> Lags(c))
      BY <1>1, <2>1, <2>5 DEF Follows, Resized, Lags
    <3>. QED  BY <1>0, <1>1, <2>5, <3>3, <3>4, <3>5, ChainGrows
  <2>. QED  BY <2>1, <2>2, <2>3, <2>4, <2>5
<1>. QED  BY <1>3, <1>5, <1>6, <1>7, <1>8 DEF ConnectionStep

\* An event that needs no resync moves a replica on, at least to its own number.
LEMMA EventFits ==
  ASSUME NEW g \in Items, g # Nil, NEW e \in Items,
         ~ NeedsResync(g, e)
  PROVE  /\ g.seq \in Nat /\ apply_event(g, e).seq \in Nat
         /\ g.seq <= apply_event(g, e).seq
         /\ e.kind \in Output => e.seq <= apply_event(g, e).seq
<1>0. /\ g.seq \in Nat /\ e.seq \in Nat  BY DEF Items
<1>1. ~ NeedsResync(g, e)  OBVIOUS
<1>2. Patched(g, e).seq = e.seq /\ FromSnapshot(e).seq = e.seq
  BY DEF Patched, FromSnapshot, Item
<1>3. CASE e.kind = "delta"
  <2>1. CASE e.seq <= g.seq
    <3>1. apply_event(g, e) = g  BY <1>3, <2>1 DEF apply_event, DeltaOutcome
    <3>. QED  BY <1>0, <1>1, <2>1, <3>1
  <2>2. CASE e.seq > g.seq
    <3>1. apply_event(g, e) = Patched(g, e)
      BY <1>0, <1>1, <1>3, <2>2 DEF apply_event, DeltaOutcome, NeedsResync
    <3>. QED  BY <1>0, <1>1, <1>2, <2>2, <3>1
  <2>. QED  BY <1>0, <2>1, <2>2
<1>4. CASE e.kind = "resync"
  <2>1. apply_event(g, e) = IF e.seq >= g.seq THEN FromSnapshot(e) ELSE g
    BY <1>4 DEF apply_event
  <2>. QED  BY <1>0, <1>1, <1>2, <2>1
<1>5. CASE e.kind \notin Output
  <2>1. apply_event(g, e) = g  BY <1>5 DEF apply_event, Output
  <2>. QED  BY <1>0, <1>1, <1>5, <2>1
<1>. QED  BY <1>3, <1>4, <1>5 DEF Output


LEMMA ChainClient ==
  ASSUME IInv, OrderInv, ChainInv, Next, NEW c \in Clients, ClientStep(c), NEW d \in Clients
  PROVE  ChainOK(d)'
<1>0. /\ TypeOK /\ ChainOK(d) /\ Outstanding(c) /\ Asked(c)
      /\ req \in [Clients -> Requests] /\ task \in [Clients -> Ops]
      /\ out \in [Clients -> Seq(Items)] /\ evq \in [Clients -> Seq(Items)]
      /\ reply \in [Clients -> Items] /\ grid \in [Clients -> Items]
  BY DEF IInv, ChainInv, OrderInv, MarksOK, TypeOK, RegistryType, ClientType, ServerType
<1>1. UNCHANGED <<live, seq, up, subs, behind, attaching, out>>
  BY DEF ClientStep, StartAttach, StartDetach, StartResize, TakeReply, ApplyEvent,
         registry, runtime
<1>2. (TypeOK /\ OrderInv)'  BY StreamStep, OrderStep DEF IInv
<1>3. \A x \in Clients : Lags(x)' <=> Lags(x)  BY <1>1 DEF Lags
<1>4. CASE d # c
  <2>1. req'[d] = req[d] /\ reply'[d] = reply[d] /\ grid'[d] = grid[d] /\ evq'[d] = evq[d]
    BY <1>0, <1>4 DEF ClientStep, StartAttach, StartDetach, StartResize, TakeReply,
           ApplyEvent, Send
  <2>2. Follows(d)' => Follows(d)  BY <1>1, <2>1 DEF Follows, Resized
  <2>. QED  BY <1>0, <1>1, <1>3, <2>1, <2>2, ChainEvents
\* What every step of a client's own leaves behind: nothing on its way to it.
<1>5. c \in up
  BY <1>0 DEF ClientStep, StartAttach, StartDetach, StartResize, TakeReply, ApplyEvent, Free,
              Outstanding
<1>6. req[c] = NoReq /\ req[c].op = "none"
  BY <1>0 DEF ClientStep, StartAttach, StartDetach, StartResize, TakeReply, ApplyEvent, Free,
              Outstanding, NoReq, Request
<1>7. Follows(c)' => Follows(c)  BY <1>1, <1>6 DEF Follows, Resized
<1>8. OnTheWay(c)' = {}
  <2>1. ASSUME NEW op \in {"attach", "detach", "resize"}, Send(c, op) PROVE OnTheWay(c)' = {}
    <3>1. req'[c] # NoReq /\ req'[c].phase # "respond"
      BY <1>0, <2>1 DEF Send, Request, NoReq
    <3>. QED  BY <1>2, <3>1, WayAloneNext
  <2>2. CASE task'[c] = "none"
    <3>1. c \in up'  BY <1>1, <1>5
    <3>. QED  BY <1>2, <2>2, <3>1, WayAloneNext
  <2>3. CASE StartAttach(c) \/ StartDetach(c) \/ \E n \in Sizes : StartResize(c, n)
    BY <2>1, <2>3 DEF StartAttach, StartDetach, StartResize
  <2>4. CASE TakeReply(c)
    <3>1. Send(c, "attach") \/ task' = [task EXCEPT ![c] = "none"]
      BY <2>4 DEF TakeReply
    <3>. QED  BY <1>0, <2>1, <2>2, <3>1
  <2>5. CASE ApplyEvent(c)
    <3>1. Send(c, "attach") \/ (task' = task /\ task[c] = "none")
      BY <2>5 DEF ApplyEvent, Free
    <3>. QED  BY <2>1, <2>2, <3>1
  <2>. QED  BY <2>3, <2>4, <2>5 DEF ClientStep
<1>9. CASE d = c /\ (StartAttach(c) \/ StartDetach(c) \/ \E n \in Sizes : StartResize(c, n))
  <2>1. task[c] = "none" /\ UNCHANGED <<grid, evq>>
    BY <1>9 DEF StartAttach, StartDetach, StartResize, Free
  <2>2. OnTheWay(c) = {}  BY <1>0, <1>5, <2>1, WayAlone
  <2>3. Starts(c)' = Starts(c)  BY <1>8, <2>1, <2>2, StartsNext
  <2>4. Queue(c)' = Queue(c)  BY <1>1, <2>1 DEF Queue
  <2>. QED  BY <1>0, <1>1, <1>3, <1>7, <1>9, <2>3, <2>4, ChainGrows
<1>10. CASE d = c /\ TakeReply(c)
  <2>1. /\ reply[c] # Nil /\ evq' = evq
        /\ grid'[c] = IF IsAck(reply[c]) THEN FromSnapshot(reply[c])
                      ELSE IF task[c] = "detach" THEN Nil ELSE grid[c]
    BY <1>0, <1>10 DEF TakeReply
  <2>2. OnTheWay(c) = {m \in {reply[c]} : IsAck(m)}  BY <1>0, <2>1, WayAlone
  <2>3. Queue(c)' = Queue(c)  BY <1>1, <2>1 DEF Queue
  <2>4. CASE IsAck(reply[c])
    <3>1. Starts(c) = {reply[c].seq}
      <4>1. OnTheWay(c) = {reply[c]}  BY <2>2, <2>4
      <4>. QED  BY <4>1, StartsNext
    <3>2. Starts(c)' = {grid'[c].seq}  BY <1>8, StartsNext
    <3>3. grid'[c].seq = reply[c].seq  BY <2>1, <2>4 DEF FromSnapshot, Item
    <3>. QED  BY <1>0, <1>1, <1>3, <1>7, <1>10, <2>3, <3>1, <3>2, <3>3, ChainGrows
  <2>5. CASE ~ IsAck(reply[c]) /\ task[c] = "detach"
    <3>1. c \notin subs'  BY <1>0, <1>1, <1>5, <1>6, <2>5 DEF Asked
    <3>. QED  BY <1>10, <3>1 DEF ChainOK, Follows
  <2>6. CASE ~ IsAck(reply[c]) /\ task[c] # "detach"
    <3>1. OnTheWay(c) = {} /\ grid'[c] = grid[c]  BY <2>1, <2>2, <2>6
    <3>2. Starts(c)' = Starts(c)  BY <1>8, <3>1, StartsNext
    <3>. QED  BY <1>0, <1>1, <1>3, <1>7, <1>10, <2>3, <3>2, ChainGrows
  <2>. QED  BY <2>4, <2>5, <2>6
<1>11. CASE d = c /\ ApplyEvent(c)
  <2>. DEFINE e == Head(evq[c])  g == grid[c]  q == Queue(c)
  <2>. SUFFICES ASSUME Follows(c)', NEW n2 \in Starts(c)'
                PROVE  /\ Unbroken(n2, Queue(c)')
                       /\ ~ Lags(c)' => Touches(seq', n2, Queue(c)')
    BY <1>11, ChainNext
  <2>1. /\ task[c] = "none" /\ evq[c] # <<>> /\ evq'[c] = Tail(evq[c])
        /\ grid'[c] = apply_event(g, e)
        /\ NeedsResync(g, e) => Send(c, "attach")
    BY <1>0, <1>11 DEF ApplyEvent, Free
  <2>2. OnTheWay(c) = {}  BY <1>0, <1>5, <2>1, WayAlone
  <2>3. Starts(c) = {g.seq} /\ Starts(c)' = {grid'[c].seq}  BY <1>8, <2>2, StartsNext
  <2>4. /\ q \in Seq(Items) /\ q # <<>> /\ Head(q) = e /\ Queue(c)' = Tail(q)
    <3>1. /\ evq[c] \o out[c] # <<>> /\ Head(evq[c] \o out[c]) = e
          /\ Tail(evq[c]) \o out[c] = Tail(evq[c] \o out[c])
          /\ evq[c] \o out[c] \in Seq(Items)
      BY <1>0, <2>1, QueueJoin, ItemTypes
    <3>2. Queue(c)' = Tail(evq[c]) \o out[c]  BY <1>1, <2>1 DEF Queue
    <3>. QED  BY <3>1, <3>2 DEF Queue
  <2>5. /\ Follows(c) /\ Unbroken(g.seq, q)
        /\ ~ Lags(c) => Touches(seq, g.seq, q)
    BY <1>0, <1>7, <1>11, <2>3 DEF ChainOK
  <2>6. g # Nil /\ g.kind = "grid" /\ g \in Items /\ e \in Items /\ GoodItem(Log, g)
    <3>1. g # Nil  BY <1>0, <2>2, <2>5 DEF Asked, Follows
    <3>2. GoodItem(Log, g) /\ (g = Nil \/ g.kind = "grid")  BY DEF IInv, AllGood
    <3>3. e \in Items
      <4>1. evq[c] \in Seq(Items) /\ evq[c] # <<>>  BY <1>0, <2>1
      <4>. QED  BY <4>1
    <3>. QED  BY <1>0, <3>1, <3>2, <3>3
  <2>. HIDE DEF e, g, q
  <2>7. ~ NeedsResync(g, e)
    <3>. SUFFICES ASSUME NeedsResync(g, e) PROVE FALSE  OBVIOUS
    <3>1. req'[c].op = "attach"
      BY <1>0, <2>1 DEF Send, Request
    <3>2. OneSize  BY <3>1 DEF Follows, Resized
    <3>3. Present(g.rows) = Row  BY <2>6, <3>2 DEF GoodItem, Whole
    <3>4. e.kind = "delta" /\ Present(e.rows) \subseteq Present(g.rows)
      BY <3>3 DEF NeedsResync, Present
    <3>5. e.seq <= g.seq + 1
      <4>1. 1 \in 1..Len(q) /\ q[1] = e
        <5>1. Len(q) \in Nat /\ Len(q) > 0 /\ q[1] = Head(q)  BY <2>4
        <5>. QED  BY <2>4, <5>1
      <4>2. \/ q[1].seq <= g.seq + 1
            \/ \E j \in 1..(1 - 1) : q[j].kind \in Output /\ q[1].seq <= q[j].seq + 1
        BY <2>5, <3>4, <4>1 DEF Unbroken
      <4>. QED  BY <4>1, <4>2
    <3>6. g.seq \in Nat /\ e.seq \in Nat  BY <2>6 DEF Items
    <3>. QED  BY <3>4, <3>5, <3>6 DEF NeedsResync, DeltaOutcome
  <2>8. /\ g.seq \in Nat /\ n2 \in Nat /\ n2 = grid'[c].seq /\ g.seq <= n2
        /\ e.kind \in Output => e.seq <= n2
    BY <2>1, <2>3, <2>6, <2>7, EventFits
  <2>9. n2 <= seq /\ seq \in Nat
    <3>1. IInv'  BY StreamStep
    <3>2. n2 <= seq' /\ seq' \in Nat  BY <3>1, NumbersNext
    <3>. QED  BY <1>1, <3>2
  <2>10. Unbroken(n2, Tail(q)) /\ (~ Lags(c) => Touches(seq, n2, Tail(q)))
    BY <2>4, <2>5, <2>8, <2>9, ChainTail
  <2>. QED  BY <1>1, <1>3, <2>4, <2>10
<1>. QED  BY <1>4, <1>9, <1>10, <1>11 DEF ClientStep

LEMMA ChainInvStep == IInv /\ RespPlain /\ OrderInv /\ ChainInv /\ Next => ChainInv'
<1>. SUFFICES ASSUME IInv, RespPlain, OrderInv, ChainInv, Next, NEW d \in Clients
              PROVE  MarksOK(d)' /\ ChainOK(d)'
  BY DEF ChainInv
<1>1. TypeOK /\ \A c \in Clients : MarksOK(c)  BY DEF IInv, ChainInv
<1>2. MarksOK(d)'
  <2>1. Subscribed(d)'  BY <1>1, SubscribedStep
  <2>2. FinalKept(d)'  BY <1>1, FinalStep
  <2>3. Asked(d)'  BY <1>1, AskedStep
  <2>. QED  BY <2>1, <2>2, <2>3 DEF MarksOK
<1>3. ChainOK(d)'
  <2>1. CASE PtyStep  BY <2>1, ChainPty
  <2>2. CASE \E to \in {Clients, Clients \ subs} : BroadcastDomain(to)
    BY <2>2, ChainBroadcast
  <2>3. ASSUME NEW c \in Clients, HandlerStep(c) PROVE ChainOK(d)'
    BY <2>3, ChainHandler
  <2>4. ASSUME NEW c \in Clients, ConnectionStep(c) PROVE ChainOK(d)'
    BY <2>4, ChainConnection
  <2>5. ASSUME NEW c \in Clients, ClientStep(c) PROVE ChainOK(d)'
    BY <2>5, ChainClient
  <2>. QED  BY <2>1, <2>2, <2>3, <2>4, <2>5 DEF Next
<1>. QED  BY <1>2, <1>3

\* The chains of the subscribers hold together in every reachable state.
THEOREM ChainInvariant == Spec => []ChainInv
<1>1. Init => ChainInv
  <2>. SUFFICES ASSUME Init, NEW c \in Clients PROVE MarksOK(c) /\ ChainOK(c)
    BY DEF ChainInv
  <2>1. MarksOK(c)
    BY DEF Init, MarksOK, Subscribed, FinalKept, Asked, NoReq, Request
  <2>2. ChainOK(c)  BY DEF Init, ChainOK, Follows
  <2>. QED  BY <2>1, <2>2
<1>2. IInv /\ RespPlain /\ OrderInv /\ ChainInv /\ [Next]_vars => ChainInv'
  <2>. SUFFICES ASSUME IInv, RespPlain, OrderInv, ChainInv, UNCHANGED vars PROVE ChainInv'
    BY ChainInvStep
  <2>1. UNCHANGED <<live, seq, pty, registered, subs, behind, attaching, finished, out, req,
                    up, evq, reply, task, grid>>
    BY DEF vars, runtime, thread, registry, server, client
  <2>2. ASSUME NEW c \in Clients, MarksOK(c) PROVE MarksOK(c)'
    BY <2>1, <2>2 DEF MarksOK, Subscribed, FinalKept, Asked, OnTheWay, IsAck, At
  <2>3. ASSUME NEW c \in Clients, ChainOK(c) PROVE ChainOK(c)'
    <3>1. /\ Starts(c)' = Starts(c) /\ Queue(c)' = Queue(c)
          /\ (Follows(c)' <=> Follows(c)) /\ (Lags(c)' <=> Lags(c))
      BY <2>1 DEF Starts, OnTheWay, Queue, Follows, Resized, Lags, IsAck
    <3>. QED  BY <2>1, <2>3, <3>1, ChainNext DEF ChainOK
  <2>. QED  BY <2>2, <2>3 DEF ChainInv
<1>3. RoomInv => RespPlain  BY DEF RoomInv
<1>. QED  BY <1>1, <1>2, <1>3, RoomInvariant, OrderInvariant, PTL DEF Spec

(***************************************************************************)
(* No delta is lost: what a subscriber shows and what waits for it form an *)
(* unbroken chain up to the last emitted delta, unless it is being         *)
(* attached, is marked behind or has asked to attach again.                *)
(***************************************************************************)
THEOREM NothingLost == Spec => []NoDeltaLost
<1>1. IInv /\ ChainInv => NoDeltaLost
  <2>. SUFFICES ASSUME IInv, ChainInv, NEW c \in subs \cap up,
                       c \notin behind, attaching[c] = "no", ~ Resized(c), NEW n \in Starts(c)
                PROVE  Unbroken(n, Queue(c)) /\ Reaches(seq, n, Queue(c))
    BY DEF NoDeltaLost
  <2>1. c \in Clients  BY DEF IInv, TypeOK, RegistryType
  <2>2. Unbroken(n, Queue(c)) /\ Touches(seq, n, Queue(c))
    BY <2>1 DEF ChainInv, ChainOK, Follows, Lags
  <2>3. n <= seq /\ \A i \in 1..Len(Queue(c)) :
                      Queue(c)[i].kind \in Output => Queue(c)[i].seq <= seq
    BY <2>1, Numbers
  <2>. QED  BY <2>2, <2>3 DEF Reaches, Touches
<1>. QED  BY <1>1, StreamInvariant, ChainInvariant, PTL
=============================================================================
