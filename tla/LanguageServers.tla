---------------------------- MODULE LanguageServers ----------------------------
(***************************************************************************)
(* The language servers behind go to definition: the manager that starts,  *)
(* shares, evicts and stops them (lsp.rs of the daemon), and the documents *)
(* it keeps open in each (lsp-client/server.rs).                           *)
(*                                                                         *)
(* A lookup finds the server of its key in the map, or starts it off the   *)
(* lock, brings its copy of the document up to date and asks.  The sweeper *)
(* stops idle servers, the daemon's exit stops all of them, and a server   *)
(* may die, or stop reading, at any moment.                                *)
(*                                                                         *)
(* Each section under the lock of the map is one action.  Inside a client  *)
(* the outgoing queue is modelled, and the lock of the documents that a    *)
(* lookup holds while it waits for room.  What the client does to end (mark*)
(* itself exited, fail its requests, kill and reap the group) is one step, *)
(* and so is a polite shutdown, however long it takes.  Clocks are choices:*)
(* a server is idle, a backoff is over, a crash is forgiven when a step    *)
(* says so.                                                                *)
(***************************************************************************)
EXTENDS Integers, Sequences, FiniteSets, SequencesExt

CONSTANTS Keys,        \* a server and a root
          Files, Texts,
          Queries,     \* what is looked up: a key, a file and its text
          Lookups,     \* threads that look definitions up
          MaxServers,  \* max_servers
          MaxDocs,     \* MAX_OPEN_DOCUMENTS
          Capacity,    \* OUTGOING_CAPACITY
          GiveUp,      \* GIVE_UP_AFTER
          MaxStarts,   \* bound: servers that are started
          MaxFinds,    \* bound: lookups that find or start a server
          Shut         \* the text of a document that is not open

Sweeper == "sweeper"
Closer  == "closer"
Threads == Lookups \cup {Sweeper, Closer}
Servers == 1 .. MaxStarts

ASSUME LookupAssumption ==
  /\ IsFiniteSet(Keys) /\ Keys # {} /\ Files # {} /\ Texts # {}
  /\ MaxServers \in Nat /\ MaxDocs \in Nat \ {0} /\ Capacity \in Nat \ {0}
  /\ GiveUp \in Nat \ {0} /\ MaxStarts \in Nat /\ MaxFinds \in Nat
  /\ Queries \subseteq [key : Keys, file : Files, text : Texts]
  /\ Shut \notin Texts /\ Lookups \cap {Sweeper, Closer} = {}

VARIABLES
  \* the manager
  slot,    \* what the map holds for each key
  closed,  \* the daemon is exiting
  \* servers
  proc,    \* "none", "up" or "dead"
  ready,   \* servers that answered initialize
  exited,  \* servers whose client is marked exited
  past,    \* the crashes each was started with
  out,     \* messages queued for each
  copy,    \* the text each has of each file
  known,   \* documents a manager's entry counts as open, least recently asked first
  \* threads
  pc,
  on,      \* the server a thread uses, 0 for none
  job,     \* what a lookup is about
  msgs,    \* the notifications a lookup still has to queue
  todo,    \* servers a thread took out of the map and must stop
  finds, starts,
  \* history
  answer,  \* the text a lookup was answered from
  since,   \* the texts its document had since it was synced
  recent   \* crashes of a key that were noticed and not forgiven

manager == <<slot, closed, recent>>
clients == <<proc, ready, exited, past, out, copy, known>>
lookups == <<on, job, msgs, answer, since>>
vars    == <<manager, clients, pc, lookups, todo, finds, starts>>

Empty   == [st |-> "none", server |-> 0, crashes |-> 0, retry |-> "never"]
Serving(i) == [st |-> "running", server |-> i, crashes |-> 0, retry |-> "never"]
NoJob   == [key |-> CHOOSE k \in Keys : TRUE, file |-> CHOOSE f \in Files : TRUE,
            text |-> CHOOSE t \in Texts : TRUE, crashes |-> 0]
Closing == [f \in Files |-> Shut]

Init ==
  /\ slot = [k \in Keys |-> Empty]
  /\ closed = FALSE
  /\ proc = [i \in Servers |-> "none"]
  /\ ready = {}
  /\ exited = {}
  /\ past = [i \in Servers |-> 0]
  /\ out = [i \in Servers |-> <<>>]
  /\ copy = [i \in Servers |-> Closing]
  /\ known = [i \in Servers |-> <<>>]
  /\ pc = [x \in Threads |-> "idle"]
  /\ on = [l \in Lookups |-> 0]
  /\ job = [l \in Lookups |-> NoJob]
  /\ msgs = [l \in Lookups |-> <<>>]
  /\ todo = [x \in Threads |-> {}]
  /\ finds = 0
  /\ starts = 0
  /\ answer = [l \in Lookups |-> "none"]
  /\ since = [l \in Lookups |-> {}]
  /\ recent = [k \in Keys |-> 0]

(***************************************************************************)
(* Helpers.                                                                *)
(***************************************************************************)

Key(l) == job[l].key
Goto(x, place) == pc' = [pc EXCEPT ![x] = place]

\* The lookup answers its client; nothing of it is left.
Done(l) ==
  /\ Goto(l, "idle")
  /\ on' = [on EXCEPT ![l] = 0]
  /\ job' = [job EXCEPT ![l] = NoJob]
  /\ answer' = [answer EXCEPT ![l] = "none"]
  /\ since' = [since EXCEPT ![l] = {}]
  /\ UNCHANGED msgs

Running == {k \in Keys : slot[k].st = "running"}

Put(k, st, server, crashes, retry) ==
  slot' = [slot EXCEPT ![k] =
    [st |-> st, server |-> server, crashes |-> crashes, retry |-> retry]]

\* The client of server i ends: its process is killed and what was queued is lost.
End(i) ==
  /\ proc' = [proc EXCEPT ![i] = "dead"]
  /\ exited' = exited \cup {i}
  /\ out' = [out EXCEPT ![i] = <<>>]
  /\ copy' = [copy EXCEPT ![i] = Closing]
  /\ UNCHANGED <<ready, past, known>>

(***************************************************************************)
(* Crashes: CrashHistory.                                                  *)
(***************************************************************************)

\* record, after time forgave all but `kept` of them; no more than GiveUp are held
Recorded(kept) == IF kept = GiveUp THEN kept ELSE kept + 1

\* next_delay: whether there is one
NextDelay(crashes) == IF crashes >= GiveUp THEN "never" ELSE "later"

(***************************************************************************)
(* Finding a server: ensure.                                               *)
(***************************************************************************)

Find(l, q) ==
  /\ pc[l] = "idle"
  /\ finds < MaxFinds
  /\ finds' = finds + 1
  /\ job' = [job EXCEPT ![l] = [key |-> q.key, file |-> q.file, text |-> q.text, crashes |-> 0]]
  /\ Goto(l, "ensure")
  /\ UNCHANGED <<manager, clients, on, msgs, answer, since, todo, starts>>

\* The server is in the map and has not exited.
Found(l) ==
  /\ Goto(l, "wait")
  /\ on' = [on EXCEPT ![l] = slot[Key(l)].server]
  /\ UNCHANGED <<manager, job, msgs, answer, since>>

\* It exited: a crash, which may be one too many.
Crash(l) ==
  /\ LET held == past[slot[Key(l)].server]
     IN \E kept \in 0 .. held :
          /\ Put(Key(l), "crashed", 0, Recorded(kept), NextDelay(Recorded(kept)))
          /\ recent' = [recent EXCEPT ![Key(l)] = (@ - (held - kept)) + 1]
  /\ Done(l)
  /\ UNCHANGED closed

\* Nobody has the key, or its backoff is over: this lookup starts the server.
Claim(l) ==
  /\ Put(Key(l), "starting", 0, 0, "never")
  /\ job' = [job EXCEPT ![l].crashes = slot[Key(l)].crashes]
  /\ Goto(l, "start")
  /\ UNCHANGED <<closed, recent, on, msgs, answer, since>>

\* The note of a server that is starting, backing off or given up, or of an exiting daemon.
Refuse(l) == Done(l) /\ UNCHANGED manager

\* Whether a backoff is over is a choice.  A lookup that gets no server is not counted.
Ensure(l) ==
  /\ pc[l] = "ensure"
  /\ LET s == slot[Key(l)]
     IN \/ (closed \/ s.st \in {"starting", "crashed"}) /\ Refuse(l)
        \/ ~closed /\ s.st = "running" /\ s.server \notin exited /\ Found(l)
        \/ ~closed /\ s.st = "running" /\ s.server \in exited /\ Crash(l)
        \/ ~closed /\ s.st = "crashed" /\ s.retry = "later" /\ Claim(l)
        \/ ~closed /\ s.st = "none" /\ Claim(l)
  /\ finds' = IF pc'[l] = "idle" THEN finds - 1 ELSE finds
  /\ UNCHANGED <<clients, todo, starts>>

\* Off the lock: not installed, not what its probe expects, or it cannot be spawned.
StartFails(l) ==
  /\ pc[l] = "start"
  /\ Goto(l, "adopt")
  /\ UNCHANGED <<manager, clients, lookups, todo, finds, starts>>

\* Mutant: a server that is started again has no past.
StartServerForgets(l) ==
  /\ pc[l] = "start"
  /\ starts < MaxStarts
  /\ starts' = starts + 1
  /\ proc' = [proc EXCEPT ![starts + 1] = "up"]
  /\ on' = [on EXCEPT ![l] = starts + 1]
  /\ Goto(l, "adopt")
  /\ UNCHANGED <<manager, ready, exited, past, out, copy, known, job, msgs, answer, since,
                 todo, finds>>

\* start, off the lock as well
StartServer(l) ==
  /\ pc[l] = "start"
  /\ starts < MaxStarts
  /\ starts' = starts + 1
  /\ proc' = [proc EXCEPT ![starts + 1] = "up"]
  /\ past' = [past EXCEPT ![starts + 1] = job[l].crashes]
  /\ on' = [on EXCEPT ![l] = starts + 1]
  /\ Goto(l, "adopt")
  /\ UNCHANGED <<manager, ready, exited, out, copy, known, job, msgs, answer, since,
                 todo, finds>>

\* evict_over_budget: what goes to keep max_servers, never the server that was just started.
\* The least recently used go; which ones these are is left open.
Evicted(keep) ==
  LET others == Running \ {keep}
      budget == IF MaxServers = 0 THEN 0 ELSE MaxServers - 1
      excess == IF Cardinality(others) <= budget THEN 0 ELSE Cardinality(others) - budget
  IN {gone \in SUBSET others : Cardinality(gone) = excess}

\* Mutant: whether the daemon is exiting is asked only before the start.
AdoptAnyway(l) ==
  /\ pc[l] = "adopt"
  /\ \E gone \in Evicted(Key(l)) :
       /\ slot' = [k \in Keys |->
            IF k = Key(l) /\ on[l] # 0
            THEN Serving(on[l])
            ELSE IF k = Key(l) \/ k \in gone THEN Empty ELSE slot[k]]
       /\ todo' = [todo EXCEPT ![l] = {slot[k].server : k \in gone}]
       /\ recent' = [k \in Keys |-> IF k \in gone \/ (k = Key(l) /\ on[l] = 0)
                                    THEN 0 ELSE recent[k]]
  /\ Goto(l, "stop")
  /\ UNCHANGED <<closed, clients, lookups, finds, starts>>

\* The second section of ensure: the map takes the server, or forgets the start that failed;
\* an exiting daemon takes none.
Adopt(l) ==
  /\ pc[l] = "adopt"
  /\ IF closed
     THEN /\ slot' = [slot EXCEPT ![Key(l)] = Empty]
          /\ todo' = [todo EXCEPT ![l] = {on[l]} \ {0}]
          /\ on' = [on EXCEPT ![l] = 0]
          /\ UNCHANGED recent
     ELSE \E gone \in Evicted(Key(l)) :
          LET forgotten == gone \cup (IF on[l] = 0 THEN {Key(l)} ELSE {})
          IN /\ slot' = [k \in Keys |->
                  IF k \in forgotten THEN Empty
                  ELSE IF k = Key(l) THEN Serving(on[l])
                  ELSE slot[k]]
             /\ todo' = [todo EXCEPT ![l] = {slot[k].server : k \in gone}]
             /\ recent' = [k \in Keys |-> IF k \in forgotten THEN 0 ELSE recent[k]]
             /\ UNCHANGED on
  /\ Goto(l, "stop")
  /\ UNCHANGED <<closed, clients, job, msgs, answer, since, finds, starts>>

(***************************************************************************)
(* Stopping servers.                                                       *)
(***************************************************************************)

\* sweep: any running server may have been idle for long enough
Sweep(gone) ==
  /\ pc[Sweeper] = "idle"
  /\ gone # {} /\ gone \subseteq Running
  /\ slot' = [k \in Keys |-> IF k \in gone THEN Empty ELSE slot[k]]
  /\ todo' = [todo EXCEPT ![Sweeper] = {slot[k].server : k \in gone}]
  /\ recent' = [k \in Keys |-> IF k \in gone THEN 0 ELSE recent[k]]
  /\ Goto(Sweeper, "stop")
  /\ UNCHANGED <<closed, clients, lookups, finds, starts>>

\* shutdown_all: the map is closed and drained in one section
ShutdownAll ==
  /\ pc[Closer] = "idle" /\ ~closed
  /\ closed' = TRUE
  /\ slot' = [k \in Keys |-> Empty]
  /\ todo' = [todo EXCEPT ![Closer] = {slot[k].server : k \in Running}]
  /\ recent' = [k \in Keys |-> 0]
  /\ Goto(Closer, "stop")
  /\ UNCHANGED <<clients, lookups, finds, starts>>

\* shutdown: asked, then terminated, then killed; its client is marked exited
Shutdown(x) ==
  /\ pc[x] = "stop"
  /\ \E i \in todo[x] : End(i) /\ todo' = [todo EXCEPT ![x] = @ \ {i}]
  /\ UNCHANGED <<manager, pc, lookups, finds, starts>>

\* Nothing is left to stop: the lookup goes on with the server it has, if it has one.
Stopped(x) ==
  /\ pc[x] = "stop" /\ todo[x] = {}
  /\ IF x \in Lookups /\ on[x] = 0 THEN Done(x)
     ELSE Goto(x, IF x \in Lookups THEN "wait" ELSE "idle") /\ UNCHANGED lookups
  /\ UNCHANGED <<manager, clients, todo, finds, starts>>

(***************************************************************************)
(* A lookup in a server.                                                   *)
(***************************************************************************)

\* wait_ready: ready, or starting, indexing or exited when the wait is over
WaitReady(l) ==
  /\ pc[l] = "wait"
  /\ \/ on[l] \in ready \ exited /\ Goto(l, "sync") /\ UNCHANGED lookups
     \/ Done(l)
  /\ UNCHANGED <<manager, clients, todo, finds, starts>>

Doc(op, f, t) == [op |-> op, file |-> f, text |-> t]

\* position, and remove: the open documents but f, which is one of them
Others(docs, f) == RemoveAt(docs, CHOOSE n \in DOMAIN docs : docs[n].file = f)

\* The documents of a server are locked by the lookup that brings them up to date.
Locked(i) == \E l \in Lookups : on[l] = i /\ pc[l] = "send"

\* What other lookups between their sync and their answer can now find in a server.
Shown(i, f, text, l) ==
  [m \in Lookups |->
     IF m # l /\ on[m] = i /\ job[m].file = f /\ pc[m] \in {"ask", "await"} THEN {text} ELSE {}]

\* sync, up to the first notification.  notes: what the server must be told.
SyncWith(l, docs, notes, shut) ==
  /\ known' = [known EXCEPT ![on[l]] = docs]
  /\ msgs' = [msgs EXCEPT ![l] = notes]
  /\ since' = [m \in Lookups |->
       IF m = l THEN {job[l].text}
       ELSE since[m] \cup Shown(on[l], job[l].file, job[l].text, l)[m]
                     \cup UNION {Shown(on[l], f, Shut, l)[m] : f \in shut}]
  /\ Goto(l, IF notes = <<>> THEN "ask" ELSE "send")
  /\ UNCHANGED <<manager, proc, ready, exited, past, out, copy, on, job, answer, todo,
                 finds, starts>>

\* Mutant: a document that is open is taken to be up to date.
SyncOnce(l) ==
  /\ pc[l] = "sync" /\ ~Locked(on[l])
  /\ LET f    == job[l].file
         docs == known[on[l]]
         mine == [file |-> f, text |-> job[l].text]
     IN IF \E n \in DOMAIN docs : docs[n].file = f
        THEN SyncWith(l, docs, <<>>, {})
        ELSE IF Len(docs) < MaxDocs
        THEN SyncWith(l, Append(docs, mine), <<Doc("open", f, job[l].text)>>, {})
        ELSE SyncWith(l, Append(Tail(docs), mine),
                      <<Doc("close", docs[1].file, Shut), Doc("open", f, job[l].text)>>,
                      {docs[1].file})

\* Mutant: the document that makes room is forgotten and not closed.
SyncLeaves(l) ==
  /\ pc[l] = "sync" /\ ~Locked(on[l])
  /\ LET f    == job[l].file
         docs == known[on[l]]
         mine == [file |-> f, text |-> job[l].text]
     IN IF \E n \in DOMAIN docs : docs[n] = mine
        THEN SyncWith(l, Append(Others(docs, f), mine), <<>>, {})
        ELSE IF \E n \in DOMAIN docs : docs[n].file = f
        THEN SyncWith(l, Append(Others(docs, f), mine), <<Doc("change", f, job[l].text)>>, {})
        ELSE SyncWith(l, Append(IF Len(docs) < MaxDocs THEN docs ELSE Tail(docs), mine),
                      <<Doc("open", f, job[l].text)>>, {})

\* An open document is moved to the end, and sent again if its text changed; one that is
\* not open may make room first.
Sync(l) ==
  /\ pc[l] = "sync" /\ ~Locked(on[l])
  /\ LET f    == job[l].file
         docs == known[on[l]]
         mine == [file |-> f, text |-> job[l].text]
     IN IF \E n \in DOMAIN docs : docs[n].file = f
        THEN SyncWith(l, Append(Others(docs, f), mine),
               IF \E n \in DOMAIN docs : docs[n] = mine THEN <<>>
               ELSE <<Doc("change", f, job[l].text)>>, {})
        ELSE IF Len(docs) < MaxDocs
        THEN SyncWith(l, Append(docs, mine), <<Doc("open", f, job[l].text)>>, {})
        ELSE SyncWith(l, Append(Tail(docs), mine),
                      <<Doc("close", docs[1].file, Shut), Doc("open", f, job[l].text)>>,
                      {docs[1].file})

\* A message to a server that died is lost; nobody may know yet.
Queued(i, m) ==
  out' = [out EXCEPT ![i] = IF proc[i] = "up" THEN Append(@, m) ELSE @]

HasRoom(i) == Len(out[i]) < Capacity

\* document: nothing once the client is marked exited, else queue the notification
Notify(l) ==
  /\ pc[l] = "send"
  /\ on[l] \in exited \/ HasRoom(on[l])
  /\ msgs' = [msgs EXCEPT ![l] = Tail(@)]
  /\ IF on[l] \in exited THEN UNCHANGED out ELSE Queued(on[l], msgs[l][1])
  /\ Goto(l, IF Len(msgs[l]) = 1 THEN "ask" ELSE "send")
  /\ UNCHANGED <<manager, proc, ready, exited, past, copy, known, on, job, answer, since,
                 todo, finds, starts>>

\* enqueue: a queue that stays full for writer_stall ends the server
Stall(l) ==
  /\ pc[l] \in {"send", "ask"} /\ on[l] \notin exited /\ ~HasRoom(on[l])
  /\ End(on[l])
  /\ UNCHANGED <<manager, pc, lookups, todo, finds, starts>>

\* definition: refused once exited, else the request is queued behind the documents
Ask(l) ==
  /\ pc[l] = "ask"
  /\ \/ /\ on[l] \in exited
        /\ Done(l) /\ UNCHANGED out
     \/ /\ on[l] \notin exited /\ HasRoom(on[l])
        /\ Queued(on[l], [op |-> "ask", by |-> l])
        /\ Goto(l, "await")
        /\ UNCHANGED lookups
  /\ UNCHANGED <<manager, proc, ready, exited, past, copy, known, todo, finds, starts>>

\* The lookup is cancelled, or its own deadline passes, before the request is queued.
AskTimeout(l) ==
  /\ pc[l] = "ask"
  /\ Done(l)
  /\ UNCHANGED <<manager, clients, todo, finds, starts>>

\* await_reply: the client exited, or the lookup is cancelled or late and withdraws
Abandon(l) ==
  /\ pc[l] = "await"
  /\ LET i == on[l]
         rest == [n \in DOMAIN out[i] |->
                    IF out[i][n] = [op |-> "ask", by |-> l]
                    THEN [op |-> "ask", by |-> Sweeper] ELSE out[i][n]]
     IN out' = [out EXCEPT ![i] = IF i \notin exited /\ proc[i] = "up" /\ HasRoom(i)
                                  THEN Append(rest, [op |-> "cancel"]) ELSE rest]
  /\ Done(l)
  /\ UNCHANGED <<manager, proc, ready, exited, past, copy, known, todo, finds, starts>>

\* The reply was handed over: the lookup makes candidates of it.
Answered(l) ==
  /\ pc[l] = "answered"
  /\ Done(l)
  /\ UNCHANGED <<manager, clients, todo, finds, starts>>

(***************************************************************************)
(* A server.                                                               *)
(***************************************************************************)

\* initialize is answered
Initialized(i) ==
  /\ proc[i] = "up" /\ i \notin ready \cup exited
  /\ ready' = ready \cup {i}
  /\ UNCHANGED <<manager, proc, exited, past, out, copy, known, pc, lookups, todo,
                 finds, starts>>

\* It is refused, answered too late or in another encoding: the client gives up.
InitializeFails(i) ==
  /\ proc[i] = "up" /\ i \notin ready \cup exited
  /\ End(i)
  /\ UNCHANGED <<manager, pc, lookups, todo, finds, starts>>

\* The server reads a message.  A request is answered from the text it has, or never.
Serve(i) ==
  /\ proc[i] = "up" /\ out[i] # <<>>
  /\ out' = [out EXCEPT ![i] = Tail(@)]
  /\ LET m == out[i][1]
     IN \/ /\ m.op \in {"open", "change", "close"}
           /\ copy' = [copy EXCEPT ![i][m.file] = m.text]
           /\ UNCHANGED <<pc, answer>>
        \/ /\ m.op \in {"ask", "cancel"}
           /\ UNCHANGED <<copy, pc, answer>>
        \/ /\ m.op = "ask" /\ m.by \in Lookups
           /\ answer' = [answer EXCEPT ![m.by] = copy[i][job[m.by].file]]
           /\ Goto(m.by, "answered")
           /\ UNCHANGED copy
  /\ UNCHANGED <<manager, proc, ready, exited, past, known, on, job, msgs, since, todo,
                 finds, starts>>

\* It dies: what is queued is never read.
Dies(i) ==
  /\ proc[i] = "up"
  /\ proc' = [proc EXCEPT ![i] = "dead"]
  /\ out' = [out EXCEPT ![i] = <<>>]
  /\ copy' = [copy EXCEPT ![i] = Closing]
  /\ UNCHANGED <<manager, ready, exited, past, known, pc, lookups, todo, finds, starts>>

\* read_loop: the end of its output
ReadEof(i) ==
  /\ proc[i] = "dead" /\ i \notin exited
  /\ exited' = exited \cup {i}
  /\ UNCHANGED <<manager, proc, ready, past, out, copy, known, pc, lookups, todo,
                 finds, starts>>

(***************************************************************************)
(* Specification.                                                          *)
(***************************************************************************)

\* A lookup goes on, a deadline of its own included.
Step(l) ==
  \/ Ensure(l) \/ StartFails(l) \/ StartServer(l) \/ Adopt(l)
  \/ WaitReady(l) \/ Sync(l) \/ Notify(l) \/ Stall(l)
  \/ Ask(l) \/ AskTimeout(l) \/ Abandon(l) \/ Answered(l)

Next ==
  \/ \E l \in Lookups : Step(l)
  \/ \E l \in Lookups, q \in Queries : Find(l, q)
  \/ \E x \in Threads : Shutdown(x) \/ Stopped(x)
  \/ \E gone \in SUBSET Keys : Sweep(gone)
  \/ ShutdownAll
  \/ \E i \in Servers :
       Initialized(i) \/ InitializeFails(i) \/ Serve(i) \/ Dies(i) \/ ReadEof(i)

Spec == Init /\ [][Next]_vars

(***************************************************************************)
(* Properties.                                                             *)
(***************************************************************************)

Entries  == [st : {"none", "starting", "running", "crashed"}, server : 0 .. MaxStarts,
             crashes : 0 .. GiveUp, retry : {"later", "never"}]
Jobs     == [key : Keys, file : Files, text : Texts, crashes : 0 .. GiveUp]
Docs     == [file : Files, text : Texts]
Notes    == [op : {"open", "change", "close"}, file : Files, text : Texts \cup {Shut}]
Messages == Notes \cup [op : {"ask"}, by : Lookups \cup {Sweeper}] \cup [op : {"cancel"}]
Places   == {"idle", "ensure", "start", "adopt", "stop", "wait", "sync", "send", "ask", "await",
             "answered"}

\* Types; no queue is longer than its capacity and no server knows of more documents than
\* it may (enqueue, sync).
TypeOK ==
  /\ slot \in [Keys -> Entries]
  /\ closed \in BOOLEAN
  /\ recent \in [Keys -> Nat]
  /\ proc \in [Servers -> {"none", "up", "dead"}]
  /\ ready \subseteq Servers /\ exited \subseteq Servers
  /\ past \in [Servers -> 0 .. GiveUp]
  /\ out \in [Servers -> Seq(Messages)]
  /\ copy \in [Servers -> [Files -> Texts \cup {Shut}]]
  /\ known \in [Servers -> Seq(Docs)]
  /\ \A i \in Servers : Len(out[i]) <= Capacity /\ Len(known[i]) <= MaxDocs
  /\ pc \in [Threads -> Places]
  /\ on \in [Lookups -> 0 .. MaxStarts]
  /\ job \in [Lookups -> Jobs]
  /\ msgs \in [Lookups -> Seq(Notes)]
  /\ todo \in [Threads -> SUBSET Servers]
  /\ finds \in Int /\ finds <= MaxFinds /\ starts \in 0 .. MaxStarts

Starters == {l \in Lookups : pc[l] \in {"start", "adopt"}}

\* A server that is marked exited is dead, and numbers are given in order.
ExitedIsDead ==
  /\ \A i \in Servers : proc[i] = "none" <=> i > starts
  /\ \A i \in exited : proc[i] = "dead"

\* Threads and the map name servers that were started; a closed map is empty.
Numbered ==
  /\ \A k \in Keys : slot[k].st = "running" => slot[k].server \in 1 .. starts
  /\ closed => \A k \in Keys : slot[k] = Empty
  /\ \A x \in Threads : todo[x] \subseteq 1 .. starts /\ (todo[x] # {} => pc[x] = "stop")
  /\ \A l \in Lookups :
       /\ on[l] <= starts
       /\ pc[l] \in {"idle", "ensure", "start"} => on[l] = 0
       /\ pc[l] \in {"wait", "sync", "send", "ask", "await", "answered"} => on[l] # 0
       /\ pc[l] = "send" => msgs[l] # <<>>

\* Who starts a server of an open manager owns its key.
Owned ==
  ~closed => \A l \in Starters :
    /\ slot[Key(l)].st = "starting"
    /\ \A m \in Starters : Key(m) = Key(l) => m = l

\* A request is queued once, while its lookup waits for the answer.
Awaited ==
  \A i \in Servers : \A n \in DOMAIN out[i] :
    out[i][n].op = "ask" /\ out[i][n].by \in Lookups =>
      /\ pc[out[i][n].by] = "await" /\ on[out[i][n].by] = i
      /\ \A m \in DOMAIN out[i] : out[i][m] = out[i][n] => m = n

\* Where servers, lookups and requests stand: what the other parts rest on (ensure,
\* shutdown, definition).
InPlace == ExitedIsDead /\ Numbered /\ Owned /\ Awaited

\* A server that runs is in the map of an open manager, or some thread is about to adopt or
\* to stop it: none outlives the daemon, whenever shutdown_all meets a start (lsp.rs, closed).
NoServerLeft ==
  \A i \in Servers : proc[i] = "up" =>
    \/ ~closed /\ \E k \in Keys : slot[k].st = "running" /\ slot[k].server = i
    \/ \E x \in Threads : i \in todo[x]
    \/ \E l \in Lookups : pc[l] = "adopt" /\ on[l] = i

\* The map never holds more servers than max_servers, or one, however many lookups start
\* servers at once (evict_over_budget).
WithinBudget == Cardinality(Running) <= (IF MaxServers = 0 THEN 1 ELSE MaxServers)

\* A server that is started again carries every crash of its key that time has not forgiven,
\* so that a restart loop ends (CrashHistory in Running).  What is known of the crashes goes
\* only with a server that is evicted or idle, and with a restart that cannot even start.
CrashesRemembered ==
  \A k \in Keys :
    /\ slot[k].st = "running" => past[slot[k].server] = recent[k]
    /\ slot[k].st = "crashed" => slot[k].crashes = recent[k]
    /\ recent[k] >= GiveUp => slot[k].st = "crashed" /\ slot[k].retry = "never"

\* A notification about file f.
Tells(m, f) == m.op \in {"open", "change", "close"} /\ m.file = f

\* A server that has text `had` of file f has text t once it has read n messages of queue q.
Reads(had, q, n, f, t) ==
  \/ t = had /\ \A k \in 1 .. n : ~Tells(q[k], f)
  \/ \E k \in 1 .. n : /\ Tells(q[k], f) /\ q[k].text = t
                       /\ \A j \in (k + 1) .. n : ~Tells(q[j], f)

\* A manager's entry says that its server has text t of file f.
Knows(docs, f, t) ==
  IF \E n \in DOMAIN docs : docs[n].file = f
  THEN \A n \in DOMAIN docs : docs[n].file = f => docs[n].text = t
  ELSE t = Shut

\* What the manager believes a server has open is what it will have once it reads its queue:
\* texts, and the documents that were closed (sync, and enqueue that never drops one).
KnownIsSynced ==
  \A i \in Servers :
    proc[i] = "up" /\ i \notin exited /\ ~Locked(i) =>
      \A f \in Files : \E t \in Texts \cup {Shut} :
        Knows(known[i], f, t) /\ Reads(copy[i][f], out[i], Len(out[i]), f, t)

\* An answer comes from the text of the lookup that asked, or from one a later lookup sent:
\* never from an older one.  The document is closed only if later lookups made it go (find).
FreshAnswer == \A l \in Lookups : answer[l] # "none" => answer[l] \in since[l]

\* A key is not left Starting: whoever claimed it still has to adopt a server or to give the
\* key back, unless shutdown_all has drained the map (ensure, its two sections).
StartingAttended ==
  \A k \in Keys : slot[k].st = "starting" =>
    \E l \in Lookups : Key(l) = k /\ pc[l] \in {"start", "adopt"}

\* Every server, every key and every place in the budget has somebody who answers for it.
ManagerOK == TypeOK /\ InPlace /\ NoServerLeft /\ WithinBudget /\ StartingAttended
=============================================================================
