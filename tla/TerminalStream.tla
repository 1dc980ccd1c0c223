--------------------------- MODULE TerminalStream ---------------------------
(***************************************************************************)
(* One terminal of the daemon and the clients that watch it: the PTY       *)
(* thread, the core's attach/resize/exit handlers, the client registry's   *)
(* backpressure policy, each connection's request handlers and writer      *)
(* task, and each client's reader thread, event queue and cell replica.    *)
(*                                                                         *)
(* Atomicity follows the locks.  A step that holds the core lock or the    *)
(* registry lock throughout is one action; where the code releases a lock  *)
(* and uses what it read afterwards (pump_terminal_batch, attach_terminal, *)
(* the server's send / finish_attach / recover sequence) the pieces are    *)
(* separate actions.  A writer task's socket write and the client reader's *)
(* routing of the frame are one step: the socket is a FIFO, and what it    *)
(* holds is indistinguishable from what still waits in the event queue.    *)
(***************************************************************************)
EXTENDS CellGrid, Sequences, Functions

CONSTANTS Clients,      \* connections to the daemon
          Capacity,     \* CLIENT_QUEUE_CAPACITY
          HighWater,    \* DELTA_HIGH_WATER
          LowWater,     \* DELTA_LOW_WATER
          EventCap,     \* bound of the client's event channel
          MaxInFlight,  \* MAX_IN_FLIGHT
          MaxClock,     \* bound: engine writes the environment may cause
          MaxNotes,     \* bound: other events broadcast to every client
          MaxCommands,  \* bound: what the user does (connect, attach, resize, ...)
          Synchronized  \* whether the child uses synchronized output

ASSUME WaterMarks == /\ Capacity \in Nat /\ HighWater \in Nat /\ LowWater \in Nat
                     /\ LowWater < HighWater /\ HighWater <= Capacity
ASSUME Bounds == /\ EventCap \in Nat \ {0} /\ MaxInFlight \in Nat \ {0}
                 /\ MaxClock \in Nat /\ MaxNotes \in Nat /\ MaxCommands \in Nat
                 /\ Synchronized \in BOOLEAN

VARIABLES
  \* TerminalRuntime, guarded by the core lock
  live,       \* the runtime is in the core's terminal table
  size,       \* the number of rows of the PTY and of the engine's screen
  screen,     \* the engine's visible rows
  damage,     \* rows the engine has marked since the last take_damage
  syncing,    \* a synchronized-output block is open
  pending,    \* pending_damage
  seq,        \* emit_seq
  clock,      \* number of engine writes so far (row contents are its values)
  \* the PTY thread
  pty,        \* its program counter, why it woke, and its local `subscribed`
  wake,       \* next_wake is armed
  \* ClientRegistry, guarded by the registry lock
  registered, subs, behind, attaching, finished,
  out,        \* each connection's bounded outbound queue
  \* server tasks
  writing,    \* the writer task wrote a frame and has yet to check recovery
  req,        \* the request a connection's handler is working on
  finishing,  \* attach handlers that queued their AttachAck but not finish_attach
  owing,      \* attach handlers about to run the recovery they owe
  \* client process
  up,         \* clients whose connection is open on their side
  evq,        \* bounded event channel of the reader thread
  reply,      \* the response handed to the blocked requester, or Nil
  task,       \* the request the client's runtime thread is blocked on
  window,     \* the size the client's window wants
  grid,       \* the cell replica, or Nil
  \* bookkeeping
  notes, commands,    \* broadcasts and user commands so far (bounds)
  emitted     \* history: each emitted delta's rows and the screen it was cut from

runtime  == <<live, size, screen, damage, syncing, pending, seq, clock>>
thread   == <<pty, wake>>
registry == <<registered, subs, behind, attaching, finished, out>>
server   == <<writing, req, finishing, owing>>
client   == <<up, evq, reply, task, window, grid>>
history  == <<notes, commands, emitted>>
vars     == <<runtime, thread, registry, server, client, history>>

Events    == {"delta", "resync", "note"}
Responses == {"ack", "ok", "err"}
\* A request: what is asked, how far its handler is, what it found and answers.
Request(op, phase, shared, resp) ==
  [op |-> op, phase |-> phase, shared |-> shared, resp |-> resp]
NoReq == Request("none", "none", FALSE, Nil)

IsAck(m) == m.kind = "ack"

\* A screen of n rows that were all last written by write number v.
Painted(n, v) == [r \in Row |-> IF r <= n THEN v ELSE Absent]

\* A freshly spawned terminal and no connection yet.
Init ==
  /\ live = TRUE /\ damage = {} /\ syncing = FALSE /\ pending = FALSE
  /\ seq = 0 /\ clock = 1
  /\ size \in Sizes /\ screen = Painted(size, 1)
  /\ pty = [pc |-> "read", why |-> "data", sub |-> FALSE] /\ wake = FALSE
  /\ registered = {} /\ subs = {} /\ behind = {}
  /\ attaching = [c \in Clients |-> "no"]
  /\ finished = [c \in Clients |-> Nil]
  /\ out = [c \in Clients |-> <<>>]
  /\ writing = [c \in Clients |-> FALSE]
  /\ req = [c \in Clients |-> NoReq]
  /\ finishing = [c \in Clients |-> 0]
  /\ owing = [c \in Clients |-> 0]
  /\ up = {} /\ evq = [c \in Clients |-> <<>>]
  /\ reply = [c \in Clients |-> Nil]
  /\ task = [c \in Clients |-> "none"]
  /\ window \in [Clients -> Sizes]
  /\ grid = [c \in Clients |-> Nil]
  /\ notes = 0 /\ commands = 0 /\ emitted = <<>>

-----------------------------------------------------------------------------
(***************************************************************************)
(* ClientRegistry.                                                         *)
(***************************************************************************)

\* try_send into a bounded queue: a full queue refuses the message, and so
\* does one whose writer task found the socket closed.
Full(c) == Len(out[c]) >= Capacity \/ c \notin up
TrySend(c, m) == IF Full(c) THEN out[c] ELSE Append(out[c], m)

\* Mutant: the queue's capacity is the only limit.
TakesDeltaToTheBrim(c) == ~ Full(c)

\* route_terminal_delta: a delta may be queued only below the high-water mark.
TakesDelta(c) == Len(out[c]) < HighWater /\ ~ Full(c)
\* A client behind is resynced only once its queue has drained.
Drained(c)    == Len(out[c]) <= LowWater

\* Attaching subscribers are owed what goes past them.
Withheld == {c \in subs : attaching[c] # "no"}

route_terminal_delta(delta, resync) ==
  LET reachable  == subs \ Withheld
      recovering == {c \in reachable : c \in behind /\ Drained(c) /\ ~ Full(c)}
      served     == {c \in reachable : c \notin behind /\ TakesDelta(c)}
      lagging    == {c \in reachable : c \notin behind /\ ~ TakesDelta(c)}
  IN  /\ attaching' = [c \in Clients |->
                         IF c \in Withheld THEN "missed" ELSE attaching[c]]
      /\ behind' = (behind \ recovering) \cup lagging
      /\ out' = [c \in Clients |->
                   IF c \in recovering THEN Append(out[c], resync)
                   ELSE IF c \in served THEN Append(out[c], delta)
                   ELSE out[c]]

\* begin_attach, under the core lock together with the snapshot.
begin_attach(c) ==
  IF c \in registered
  THEN /\ subs' = subs \cup {c}
       /\ behind' = behind \ {c}
       /\ attaching' = [attaching EXCEPT ![c] = "clean"]
  ELSE UNCHANGED <<subs, behind, attaching>>

\* unsubscribe
unsubscribe(c) ==
  /\ subs' = subs \ {c}
  /\ behind' = behind \ {c}
  /\ attaching' = [attaching EXCEPT ![c] = "no"]
  /\ finished' = [finished EXCEPT ![c] = Nil]

\* unregister drops the client and everything it subscribed to; what is
\* already in the channel can still be received.
unregister(c) == registered' = registered \ {c} /\ unsubscribe(c)

\* Mutant: the snapshot is stamped with the next sequence number.
RecoveryEventEarly(c) ==
  IF finished[c] # Nil THEN finished[c]
  ELSE IF live THEN Snapshot("resync", seq + 1, screen) ELSE Nil

\* The event recover sends: the kept final grid, or a fresh snapshot.
RecoveryEvent(c) ==
  IF finished[c] # Nil THEN finished[c]
  ELSE IF live THEN Snapshot("resync", seq, screen) ELSE Nil

\* recover, under the core lock (recover_client) and the registry lock.  An
\* event that could not be sent is kept for the next attempt.
recover(c) ==
  LET event == RecoveryEvent(c)
      sent  == event # Nil /\ ~ Full(c)
  IN  IF c \in registered /\ c \in behind /\ Drained(c)
      THEN /\ out' = IF sent THEN [out EXCEPT ![c] = Append(@, event)] ELSE out
           /\ behind' = IF sent \/ event = Nil THEN behind \ {c} ELSE behind
           /\ finished' = [finished EXCEPT ![c] = IF sent THEN Nil ELSE event]
      ELSE UNCHANGED <<behind, finished, out>>

\* Mutant: a client whose attach is still being answered is forgotten.
finish_terminal_lagging ==
  finished' = [c \in Clients |->
                 IF c \in registered /\ c \in behind
                 THEN Snapshot("resync", seq, screen) ELSE finished[c]]

\* finish_terminal: keep the final grid for those who missed part of it.
finish_terminal ==
  finished' = [c \in Clients |->
                 IF c \in registered /\ (c \in behind \/ attaching[c] = "missed")
                 THEN Snapshot("resync", seq, screen) ELSE finished[c]]

\* broadcast_domain, notify_non_subscribers: any other event of the daemon.
\* Dropped for a client whose queue is full.
BroadcastDomain(to) ==
  /\ notes < MaxNotes
  /\ out' = [c \in Clients |->
               IF c \in to \cap registered THEN TrySend(c, Note) ELSE out[c]]
  /\ notes' = notes + 1
  /\ UNCHANGED <<runtime, thread, registered, subs, behind, attaching, finished,
                 server, client, commands, emitted>>

-----------------------------------------------------------------------------
(***************************************************************************)
(* The PTY thread (pty_loop) and what it runs under the core lock.         *)
(***************************************************************************)
At(pc) == pty.pc = pc

\* The child wrote, or a deadline passed, or the stream ended.
PtyRead(why) ==
  /\ At("read")
  /\ why = "data" => clock < MaxClock
  /\ why = "wake" => wake
  /\ pty' = [pc |-> "check", why |-> why, sub |-> FALSE]
  /\ UNCHANGED <<runtime, wake, registry, server, client, history>>

\* pump_terminal_batch reads `subscribed` before it takes the core lock.
PumpSubscribed ==
  /\ At("check")
  /\ pty' = [pc |-> "feed", why |-> pty.why, sub |-> subs # {}]
  /\ UNCHANGED <<runtime, wake, registry, server, client, history>>

(***************************************************************************)
(* What a feed may do: rows V become visible and `open` tells whether a    *)
(* synchronized-output block is open afterwards.  A chunk absorbed by a    *)
(* block changes nothing; a block whose deadline passed, or that is open   *)
(* at the end of the stream, is released.                                  *)
(***************************************************************************)
FeedOutcome(V, open) ==
  /\ V \subseteq 1..size
  /\ open => Synchronized
  /\ pty.why = "data" => V # {} \/ open
  /\ pty.why = "wake" => \/ V = {} /\ open = syncing
                         \/ V # {} /\ syncing /\ ~ open
  /\ pty.why = "eof"  => ~ open /\ ((V # {}) <=> syncing)

Written(V) == [r \in Row |-> IF r \in V THEN clock + 1 ELSE screen[r]]

\* emit = subscribed && pending_damage && (force_emit || now >= emit_at)
EmitNow(owed, due) == pty.sub /\ owed /\ (due \/ pty.why = "eof")

\* The locked part of pump_terminal_batch.
PumpFeed(V, open, due) ==
  LET now  == Written(V)
      owed == pending \/ V # {}
      emit == EmitNow(owed, due)
  IN  /\ At("feed")
      /\ FeedOutcome(V, open)
      /\ pty.why = "wake" => due \/ V # {}
      /\ screen' = now
      /\ clock' = IF V = {} THEN clock ELSE clock + 1
      /\ syncing' = open
      /\ pending' = (owed /\ ~ emit)
      /\ wake' = (open \/ (pty.sub /\ owed /\ ~ emit))
      /\ pty' = [pc |-> IF pty.why = "eof" THEN "exit" ELSE "read",
                 why |-> "data", sub |-> FALSE]
      /\ IF emit
         THEN /\ seq' = seq + 1
              /\ damage' = {}
              /\ route_terminal_delta(Delta(seq + 1, now, damage \cup V),
                                      Snapshot("resync", seq + 1, now))
              /\ emitted' = Append(emitted, [rows |-> damage \cup V, screen |-> now])
         ELSE /\ damage' = damage \cup V
              /\ UNCHANGED <<seq, behind, attaching, out, emitted>>
      /\ UNCHANGED <<live, size, registered, subs, finished, server, client, notes, commands>>

\* on_terminal_exited: the runtime leaves the table with its final grid kept.
TerminalExited ==
  /\ At("exit")
  /\ finish_terminal
  /\ live' = FALSE
  /\ pty' = [pc |-> "done", why |-> "eof", sub |-> FALSE] /\ wake' = FALSE
  /\ UNCHANGED <<size, screen, damage, syncing, pending, seq, clock, registered, subs,
                 behind, attaching, out, server, client, history>>

-----------------------------------------------------------------------------
(***************************************************************************)
(* Request handlers.  A client has one terminal request outstanding, so    *)
(* one handler per connection is before its response; handlers past it are *)
(* counted by finishing and owing.                                         *)
(***************************************************************************)
Handling(c, op, phase) == req[c].op = op /\ req[c].phase = phase

\* read_loop stops reading while a connection has that many unfinished.
Accepted(c) == finishing[c] + owing[c] < MaxInFlight

\* attach_terminal reads subscriber_count before it takes the core lock.
AttachCount(c) ==
  /\ Handling(c, "attach", "sent") /\ Accepted(c)
  /\ req' = [req EXCEPT ![c] = Request("attach", "counted", subs # {}, Nil)]
  /\ UNCHANGED <<runtime, thread, registry, writing, finishing, owing, client, history>>

\* Mutant: the damage of the old geometry survives a resize.
ResizeEngineKeepsDamage(n) ==
  IF n = size THEN UNCHANGED <<size, screen, damage, clock>>
  ELSE /\ size' = n
       /\ screen' = Painted(n, clock + 1)
       /\ clock' = clock + 1
       /\ UNCHANGED damage

\* engine.resize: every row may move and all of them are damaged.  Nothing
\* sets pending_damage and nothing wakes the PTY thread.
ResizeEngine(n) ==
  IF n = size THEN UNCHANGED <<size, screen, damage, clock>>
  ELSE /\ size' = n
       /\ screen' = Painted(n, clock + 1)
       /\ damage' = 1..n
       /\ clock' = clock + 1

Answer(c, m) == req' = [req EXCEPT ![c] = Request("none", "respond", FALSE, m)]

\* attach_terminal under the core lock.
AttachSnapshot(c) ==
  /\ Handling(c, "attach", "counted")
  /\ IF live
     THEN /\ IF req[c].shared THEN UNCHANGED <<size, screen, damage, clock>>
             ELSE ResizeEngine(window[c])
          /\ Answer(c, Snapshot("ack", seq, screen'))
          /\ begin_attach(c)
     ELSE /\ Answer(c, Err)
          /\ UNCHANGED <<size, screen, damage, clock, subs, behind, attaching>>
  /\ UNCHANGED <<live, syncing, pending, seq, thread, registered, finished, out,
                 writing, finishing, owing, client, history>>

\* resize_terminal: last writer wins.  The terminal may be gone, or its PTY may
\* refuse the size.
ResizeTerminal(c) ==
  /\ Handling(c, "resize", "sent") /\ Accepted(c)
  /\ \/ live /\ ResizeEngine(window[c]) /\ Answer(c, Ok)
     \/ UNCHANGED <<size, screen, damage, clock>> /\ Answer(c, Err)
  /\ UNCHANGED <<live, syncing, pending, seq, thread, registry, writing, finishing,
                 owing, client, history>>

\* DetachTerminal always succeeds and unsubscribes before it answers.
DetachTerminal(c) ==
  /\ Handling(c, "detach", "sent") /\ Accepted(c)
  /\ unsubscribe(c)
  /\ Answer(c, Ok)
  /\ UNCHANGED <<runtime, thread, registered, out, writing, finishing, owing,
                 client, history>>

\* Mutant: a response that does not fit is dropped like an event.
RespondDrops(c) ==
  /\ req[c].phase = "respond"
  /\ req' = [req EXCEPT ![c] = NoReq]
  /\ out' = [out EXCEPT ![c] = TrySend(c, req[c].resp)]
  /\ finishing' = [finishing EXCEPT ![c] = IF IsAck(req[c].resp) THEN @ + 1 ELSE @]
  /\ UNCHANGED <<registered, subs, behind, attaching, finished>>
  /\ UNCHANGED <<runtime, thread, writing, owing, client, history>>

\* The response is queued, or the client is dropped: it must not wait forever.
Respond(c) ==
  /\ req[c].phase = "respond"
  /\ req' = [req EXCEPT ![c] = NoReq]
  /\ IF c \in registered /\ ~ Full(c)
     THEN /\ out' = [out EXCEPT ![c] = Append(@, req[c].resp)]
          /\ finishing' = [finishing EXCEPT
                             ![c] = IF IsAck(req[c].resp) THEN @ + 1 ELSE @]
          /\ UNCHANGED <<registered, subs, behind, attaching, finished>>
     ELSE unregister(c) /\ UNCHANGED <<out, finishing>>
  /\ UNCHANGED <<runtime, thread, writing, owing, client, history>>

\* Mutant: what was withheld during the attach is forgotten.
FinishAttachForgets(c) ==
  /\ finishing[c] > 0
  /\ finishing' = [finishing EXCEPT ![c] = @ - 1]
  /\ attaching' = [attaching EXCEPT ![c] = "no"]
  /\ UNCHANGED <<runtime, thread, registered, subs, behind, finished, out, writing,
                 req, owing, client, history>>

\* finish_attach: a delta withheld during the attach makes the client behind.
FinishAttach(c) ==
  /\ finishing[c] > 0
  /\ finishing' = [finishing EXCEPT ![c] = @ - 1]
  /\ LET missed == c \in registered /\ attaching[c] = "missed"
     IN  /\ behind' = IF missed /\ c \in subs THEN behind \cup {c} ELSE behind
         /\ owing' = [owing EXCEPT ![c] = IF missed THEN @ + 1 ELSE @]
  /\ attaching' = [attaching EXCEPT ![c] = "no"]
  /\ UNCHANGED <<runtime, thread, registered, subs, finished, out, writing, req,
                 client, history>>

\* ... and owes it a resync, which a quiet child would never trigger.
RecoverOwed(c) ==
  /\ owing[c] > 0
  /\ owing' = [owing EXCEPT ![c] = @ - 1]
  /\ recover(c)
  /\ UNCHANGED <<runtime, thread, registered, subs, attaching, writing, req,
                 finishing, client, history>>

-----------------------------------------------------------------------------
UserCommand == commands < MaxCommands /\ commands' = commands + 1

(***************************************************************************)
(* The connection: writer task, client reader thread, disconnects.          *)
(***************************************************************************)

\* Shared::disconnect: every waiter fails, the store is rebuilt on reconnect,
\* and what the writer task still holds can no longer be written.
Disconnect(c) ==
  /\ up' = up \ {c}
  /\ out' = [out EXCEPT ![c] = <<>>]
  /\ evq' = [evq EXCEPT ![c] = <<>>]
  /\ reply' = [reply EXCEPT ![c] = Nil]
  /\ task' = [task EXCEPT ![c] = "none"]
  /\ grid' = [grid EXCEPT ![c] = Nil]

\* The writer writes one frame and route_message hands it to the waiter or to
\* the event channel; an event that does not fit ends the connection.
Deliver(c) ==
  /\ c \in up /\ out[c] # <<>> /\ ~ writing[c]
  /\ writing' = [writing EXCEPT ![c] = TRUE]
  /\ LET m == Head(out[c])
     IN  IF m.kind \in Responses
         THEN /\ reply' = [reply EXCEPT ![c] = m]
              /\ out' = [out EXCEPT ![c] = Tail(@)]
              /\ UNCHANGED <<up, evq, task, grid>>
         ELSE IF Len(evq[c]) < EventCap
         THEN /\ evq' = [evq EXCEPT ![c] = Append(@, m)]
              /\ out' = [out EXCEPT ![c] = Tail(@)]
              /\ UNCHANGED <<up, reply, task, grid>>
         ELSE Disconnect(c)
  /\ UNCHANGED <<runtime, thread, registered, subs, behind, attaching, finished,
                 req, finishing, owing, window, history>>

\* Mutant: only the next delta can bring a client back.
WriterForgets(c) ==
  /\ writing[c]
  /\ writing' = [writing EXCEPT ![c] = FALSE]
  /\ UNCHANGED <<runtime, thread, registry, req, finishing, owing, client, history>>

\* After each frame the writer recovers a client whose queue has drained.
WriterRecover(c) ==
  /\ writing[c]
  /\ writing' = [writing EXCEPT ![c] = FALSE]
  /\ recover(c)
  /\ UNCHANGED <<runtime, thread, registered, subs, attaching, req, finishing,
                 owing, client, history>>

\* The daemon dropped the client: once the channel is drained the writer ends
\* and the reader thread sees the end of the stream.
ClientEof(c) ==
  /\ c \in up /\ c \notin registered /\ out[c] = <<>>
  /\ Disconnect(c)
  /\ UNCHANGED <<runtime, thread, registered, subs, behind, attaching, finished,
                 server, window, history>>

\* The client closes its side (window closed, process killed).
ClientClose(c) ==
  /\ c \in up /\ UserCommand
  /\ Disconnect(c)
  /\ UNCHANGED <<runtime, thread, registered, subs, behind, attaching, finished,
                 server, window, notes, emitted>>

Settled(c) == req[c] = NoReq /\ finishing[c] = 0 /\ owing[c] = 0

\* read_loop ends: handlers in flight finish first, then the client goes.
ServerClose(c) ==
  /\ c \in registered /\ c \notin up /\ Settled(c)
  /\ unregister(c)
  /\ out' = [out EXCEPT ![c] = <<>>]
  /\ writing' = [writing EXCEPT ![c] = FALSE]
  /\ UNCHANGED <<runtime, thread, req, finishing, owing, client, history>>

\* A new connection gets a new client id: nothing of the old one remains.
Connect(c) ==
  /\ c \notin up /\ c \notin registered /\ Settled(c)
  /\ UserCommand
  /\ registered' = registered \cup {c}
  /\ up' = up \cup {c}
  /\ out' = [out EXCEPT ![c] = <<>>]
  /\ writing' = [writing EXCEPT ![c] = FALSE]
  /\ UNCHANGED <<runtime, thread, subs, behind, attaching, finished, req, finishing,
                 owing, evq, reply, task, window, grid, notes, emitted>>

-----------------------------------------------------------------------------
(***************************************************************************)
(* The client's runtime thread: commands, replies and events.              *)
(***************************************************************************)
Send(c, op) ==
  /\ task' = [task EXCEPT ![c] = op]
  /\ req' = [req EXCEPT ![c] = Request(op, "sent", FALSE, Nil)]

Free(c) == c \in up /\ task[c] = "none"

\* The window shows the session, or leaves it.
StartAttach(c) ==
  /\ Free(c) /\ grid[c] = Nil /\ UserCommand
  /\ window[c] = size \/ clock < MaxClock
  /\ Send(c, "attach")
  /\ UNCHANGED <<runtime, thread, registry, writing, finishing, owing, up, evq,
                 reply, window, grid, notes, emitted>>

StartDetach(c) ==
  /\ Free(c) /\ grid[c] # Nil /\ UserCommand
  /\ Send(c, "detach")
  /\ UNCHANGED <<runtime, thread, registry, writing, finishing, owing, up, evq,
                 reply, window, grid, notes, emitted>>

\* The window changes size: resize_and_reattach.
StartResize(c, n) ==
  /\ Free(c) /\ grid[c] # Nil /\ UserCommand
  /\ n # window[c] /\ clock < MaxClock
  /\ window' = [window EXCEPT ![c] = n]
  /\ Send(c, "resize")
  /\ UNCHANGED <<runtime, thread, registry, writing, finishing, owing, up, evq,
                 reply, grid, notes, emitted>>

\* The blocked request returns.
TakeReply(c) ==
  /\ reply[c] # Nil
  /\ reply' = [reply EXCEPT ![c] = Nil]
  /\ grid' = [grid EXCEPT ![c] =
                IF IsAck(reply[c]) THEN FromSnapshot(reply[c])
                ELSE IF task[c] = "detach" THEN Nil ELSE @]
  /\ IF task[c] = "resize" /\ reply[c].kind = "ok"
     THEN Send(c, "attach")
     ELSE task' = [task EXCEPT ![c] = "none"] /\ UNCHANGED req
  /\ UNCHANGED <<runtime, thread, registry, writing, finishing, owing, up, evq,
                 window, history>>

\* Mutant: a queued resync replaces the replica whatever its age.
apply_event_any_age(g, e) ==
  IF g # Nil /\ e.kind = "delta" /\ DeltaOutcome(g, e) = "Applied" THEN Patched(g, e)
  ELSE IF g # Nil /\ e.kind = "resync" THEN FromSnapshot(e)
  ELSE g

\* Store::apply_event for the events of a terminal.
apply_event(g, e) ==
  IF g # Nil /\ e.kind = "delta" /\ DeltaOutcome(g, e) = "Applied" THEN Patched(g, e)
  ELSE IF g # Nil /\ e.kind = "resync" /\ e.seq >= g.seq THEN FromSnapshot(e)
  ELSE g

NeedsResync(g, e) ==
  g # Nil /\ e.kind = "delta" /\ DeltaOutcome(g, e) = "NeedsResync"

\* Batch::apply: a delta that does not fit is answered by a blocking re-attach.
ApplyEvent(c) ==
  /\ Free(c) /\ evq[c] # <<>>
  /\ evq' = [evq EXCEPT ![c] = Tail(@)]
  /\ LET e == Head(evq[c])
     IN  /\ grid' = [grid EXCEPT ![c] = apply_event(@, e)]
         /\ IF NeedsResync(grid[c], e)
            THEN Send(c, "attach")
            ELSE UNCHANGED <<task, req>>
  /\ UNCHANGED <<runtime, thread, registry, writing, finishing, owing, up, reply,
                 window, history>>

-----------------------------------------------------------------------------
PtyStep ==
  \/ \E why \in {"data", "wake", "eof"} : PtyRead(why)
  \/ PumpSubscribed
  \/ \E V \in SUBSET Row, open, due \in BOOLEAN : PumpFeed(V, open, due)
  \/ TerminalExited

HandlerStep(c) ==
  \/ AttachCount(c) \/ AttachSnapshot(c) \/ ResizeTerminal(c) \/ DetachTerminal(c)
  \/ Respond(c) \/ FinishAttach(c) \/ RecoverOwed(c)

ConnectionStep(c) ==
  \/ Deliver(c) \/ WriterRecover(c)
  \/ ClientEof(c) \/ ClientClose(c) \/ ServerClose(c) \/ Connect(c)

ClientStep(c) ==
  \/ StartAttach(c) \/ StartDetach(c)
  \/ \E n \in Sizes : StartResize(c, n)
  \/ TakeReply(c) \/ ApplyEvent(c)

Next ==
  \/ PtyStep
  \/ \E to \in {Clients, Clients \ subs} : BroadcastDomain(to)
  \/ \E c \in Clients : HandlerStep(c) \/ ConnectionStep(c) \/ ClientStep(c)

Spec == Init /\ [][Next]_vars

-----------------------------------------------------------------------------
Ops      == {"none", "attach", "detach", "resize"}
Requests == [op : Ops, phase : {"none", "sent", "counted", "respond"},
             shared : BOOLEAN, resp : Items]

RuntimeType ==
  /\ live \in BOOLEAN /\ syncing \in BOOLEAN /\ pending \in BOOLEAN
  /\ size \in Sizes /\ screen \in Patches /\ damage \in SUBSET (1..size)
  /\ seq \in Nat /\ clock \in Nat

ThreadType ==
  /\ pty \in [pc : {"read", "check", "feed", "exit", "done"},
              why : {"data", "wake", "eof"}, sub : BOOLEAN]
  /\ wake \in BOOLEAN

RegistryType ==
  /\ registered \subseteq Clients /\ subs \subseteq Clients /\ behind \subseteq Clients
  /\ attaching \in [Clients -> {"no", "clean", "missed"}]
  /\ finished \in [Clients -> Items]
  /\ out \in [Clients -> Seq(Items)]

ServerType ==
  /\ writing \in [Clients -> BOOLEAN]
  /\ req \in [Clients -> Requests]
  /\ finishing \in [Clients -> Nat] /\ owing \in [Clients -> Nat]

ClientType ==
  /\ up \subseteq Clients
  /\ evq \in [Clients -> Seq(Items)]
  /\ reply \in [Clients -> Items]
  /\ task \in [Clients -> Ops] /\ window \in [Clients -> Sizes]
  /\ grid \in [Clients -> Items]

HistoryType ==
  /\ notes \in Nat /\ commands \in Nat
  /\ emitted \in Seq([rows : SUBSET Row, screen : Patches])

\* Every variable has its type; in particular the engine's damage stays within
\* its screen when a resize shrinks it.
TypeOK ==
  RuntimeType /\ ThreadType /\ RegistryType /\ ServerType /\ ClientType /\ HistoryType

-----------------------------------------------------------------------------
(***************************************************************************)
(* Safety.                                                                 *)
(***************************************************************************)

(***************************************************************************)
(* A client's replica at the last emitted sequence number shows the        *)
(* engine's row everywhere except where damage is still to be emitted, no  *)
(* matter how attaches, resyncs, deltas, resizes and queue overflows       *)
(* interleaved (registry.rs, core.rs attach_terminal to recover_client,    *)
(* store.rs apply_event).                                                  *)
(***************************************************************************)
ReplicaConsistent ==
  \A c \in Clients : grid[c] # Nil =>
     /\ grid[c].seq <= seq
     /\ grid[c].seq = seq =>
          \A r \in (1..size) \ damage : grid[c].rows[r] = screen[r]

(***************************************************************************)
(* What a client has yet to apply: the events it holds and those queued    *)
(* for it, from the number of the snapshot on its way, or else of what it  *)
(* shows.  A response overtakes the events queued in the client before it, *)
(* and the client takes no event while it waits for one.                   *)
(***************************************************************************)
Queue(c) == evq[c] \o out[c]

OnTheWay(c) == {m \in {reply[c], req[c].resp} \cup Range(out[c]) : IsAck(m)}
Starts(c)   == {m.seq : m \in IF OnTheWay(c) = {} THEN {grid[c]} ELSE OnTheWay(c)}

Output == {"delta", "resync"}

\* Every delta in q finds the one before it applied, by something earlier in
\* q or from the start.
Unbroken(n, q) ==
  \A i \in 1..Len(q) : q[i].kind = "delta" =>
     \/ q[i].seq <= n + 1
     \/ \E j \in 1..(i - 1) : q[j].kind \in Output /\ q[i].seq <= q[j].seq + 1

\* The newest of it is number s.
Reaches(s, n, q) ==
  LET numbers == {n} \cup {q[i].seq : i \in {j \in 1..Len(q) : q[j].kind \in Output}}
  IN  s \in numbers /\ \A k \in numbers : k <= s

\* A client that found a delta of another geometry has asked to attach again,
\* in vain when the engine is gone.  A terminal of one size makes none.
OneSize == \A m, n \in Sizes : m = n
Resized(c) == ~ OneSize /\ (req[c].op = "attach" \/ ~ live)

(***************************************************************************)
(* No delta is lost silently: a subscriber that is neither attaching nor   *)
(* marked behind has, in its replica and its queues, an unbroken chain of  *)
(* sequence numbers up to the last emitted one; when the terminal keeps    *)
(* its size, also up to the final one once the engine is gone              *)
(* (registry.rs route_terminal_delta to finish_terminal, server.rs         *)
(* finish_attach and writer recovery).                                     *)
(***************************************************************************)
NoDeltaLost ==
  \A c \in subs \cap up :
     (c \notin behind /\ attaching[c] = "no" /\ ~ Resized(c)) =>
        \A n \in Starts(c) : Unbroken(n, Queue(c)) /\ Reaches(seq, n, Queue(c))

(***************************************************************************)
(* Terminal output never takes the slots above the high-water mark, so a   *)
(* response always finds one unless other events fill the queue            *)
(* (registry.rs DELTA_HIGH_WATER).                                         *)
(***************************************************************************)
OutputLeavesRoom ==
  \A c \in Clients : \A i \in 1..Len(out[c]) :
     out[c][i].kind \in Output => i <= HighWater

(***************************************************************************)
(* A replica never goes back to an older sequence number while it stays    *)
(* attached, although responses overtake queued events (store.rs           *)
(* apply_event, "A queued event may predate a synchronous reattach").      *)
(***************************************************************************)
SeqNeverRegresses ==
  [][\A c \in Clients :
       grid[c] # Nil /\ grid'[c] # Nil => grid'[c].seq >= grid[c].seq]_vars

(***************************************************************************)
(* The inductive invariant behind ReplicaConsistent.  The log holds every  *)
(* delta the terminal emitted, as the rows it carries and the screen it    *)
(* was cut from, and the delta to come: the current damage and screen.     *)
(***************************************************************************)
Log == Append(emitted, [rows |-> damage, screen |-> screen])

\* Whatever g shows that the delta after it will not repaint is what the
\* screen of that delta shows.
UpToDate(log, g) ==
  /\ g.seq < Len(log)
  /\ \A r \in Present(log[g.seq + 1].screen) \ log[g.seq + 1].rows :
        g.rows[r] = log[g.seq + 1].screen[r]

\* A delta repaints rows the screen has, and that screen is up to date.
LogOK(log) ==
  \A n \in 1..(Len(log) - 1) :
     /\ log[n].rows \subseteq Present(log[n].screen)
     /\ UpToDate(log, Item("grid", n, log[n].screen))

\* A screen that is never resized fills its rows.
Whole(rows) == OneSize => Present(rows) = Row

\* A snapshot or a replica is up to date at its own number, and a delta is
\* the one emitted under its number.
GoodItem(log, m) ==
  /\ m.kind \in {"resync", "ack", "grid"} => UpToDate(log, m) /\ Whole(m.rows)
  /\ m.kind = "delta" =>
       /\ m.seq \in 1..(Len(log) - 1)
       /\ m = Delta(m.seq, log[m.seq].screen, log[m.seq].rows)

GoodQueue(log, q) == \A i \in 1..Len(q) : GoodItem(log, q[i])

\* Everything held in queues, responses and replicas is good.
AllGood(log, o, e, a, q, f, g) ==
  \A c \in Clients :
    /\ GoodQueue(log, o[c]) /\ GoodQueue(log, e[c])
    /\ GoodItem(log, a[c]) /\ GoodItem(log, q[c].resp) /\ GoodItem(log, f[c])
    /\ GoodItem(log, g[c]) /\ (g[c] = Nil \/ g[c].kind = "grid")

ScreenShape ==
  /\ clock > 0
  /\ \A r \in Row : screen[r] # Absent <=> r <= size

IInv ==
  /\ TypeOK /\ ScreenShape
  /\ Len(emitted) = seq /\ LogOK(Log)
  /\ AllGood(Log, out, evq, reply, req, finished, grid)

-----------------------------------------------------------------------------
(***************************************************************************)
(* Liveness.  Tasks, threads and handlers keep running; nothing is assumed *)
(* of the child, of the user or of other traffic.                          *)
(***************************************************************************)
PtyFairness ==
  /\ WF_vars(PtyRead("wake")) /\ WF_vars(PumpSubscribed) /\ WF_vars(TerminalExited)
  /\ WF_vars(\E V \in SUBSET Row, open, due \in BOOLEAN : PumpFeed(V, open, due))

ClientFairness(c) ==
  /\ WF_vars(AttachCount(c)) /\ WF_vars(AttachSnapshot(c))
  /\ WF_vars(ResizeTerminal(c)) /\ WF_vars(DetachTerminal(c))
  /\ WF_vars(Respond(c)) /\ WF_vars(FinishAttach(c)) /\ WF_vars(RecoverOwed(c))
  /\ WF_vars(Deliver(c)) /\ WF_vars(WriterRecover(c))
  /\ WF_vars(ClientEof(c)) /\ WF_vars(ServerClose(c))
  /\ WF_vars(TakeReply(c)) /\ WF_vars(ApplyEvent(c))

FairSpec == Spec /\ PtyFairness /\ \A c \in Clients : ClientFairness(c)

(***************************************************************************)
(* An attached replica reaches the last emitted delta, also when the child *)
(* goes quiet or exits while the client is behind (server.rs writer task,  *)
(* registry.rs recover, finish_terminal).                                  *)
(***************************************************************************)
CatchesUp ==
  \A c \in Clients :
     (grid[c] # Nil /\ grid[c].seq < seq) ~> (grid[c] = Nil \/ grid[c].seq = seq)

(***************************************************************************)
(* A client blocked on a request gets its response or sees the connection  *)
(* close: it has no timeout of its own (server.rs, undelivered responses). *)
(***************************************************************************)
RequestsReturn == \A c \in Clients : task[c] # "none" ~> task[c] = "none"
=============================================================================
