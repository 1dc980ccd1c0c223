--------------------------- MODULE PromptDispatch ---------------------------
(***************************************************************************)
(* Text that the daemon types into one session on behalf of somebody else: *)
(* prompts for an agent, sent now or queued until it is idle               *)
(* (daemon/src/prompts.rs), command lines for a shell, and the one-line    *)
(* pointer to unread messages (orchestration/deliver.rs).  They compete    *)
(* with the user's keys, with the agent's own hooks, which report whether  *)
(* it is idle, and with the end and the restart of its terminal.           *)
(*                                                                         *)
(* A request runs on a thread.  It waits for the session's gate (one       *)
(* prompt at a time) and then for the writer of the terminal; what it does *)
(* under the core lock is one action, and so is each write to the PTY.     *)
(* Taking a mutex and the critical section that follows are one action: no *)
(* step of another thread distinguishes them.  A request that is refused   *)
(* outright changes nothing and is left out.                               *)
(***************************************************************************)
EXTENDS Naturals, Sequences

CONSTANTS Threads,      \* threads that run requests
          Kinds,        \* kinds of session to look at, of Agent and Shell
          Watchers,     \* whether a client may watch the session's inbox
          MaxPrompts,   \* bound: prompts and commands sent
          MaxTerms,     \* bound: terminals the session has, one after the other
          MaxEvents     \* bound: reports of hooks, inputs of the user, messages

ASSUME DispatchAssumption ==
  /\ Kinds \subseteq {"Agent", "Shell"} /\ Watchers \in BOOLEAN
  /\ MaxPrompts \in Nat /\ MaxTerms \in Nat \ {0} /\ MaxEvents \in Nat

VARIABLES
  kind,     \* SessionKind
  st,       \* SessionState; "gone" once the row was deleted
  gen,      \* terminals spawned or being spawned: the newest one's id
  term,     \* the session's terminal_id, 0 for none
  rt,       \* the terminal in the terminals map, 0 for none
  act,      \* ActivityState; only a hook reports Idle, so that is its evidence
  pending,  \* pending_prompts: the prompt that is queued, 0 for none
  pointer,  \* the ledger's PointerSlot
  h,        \* what each thread is doing
  sent,     \* the terminal each prompt was sent to
  audit,    \* prompts with a context envelope in SQLite
  pasted,   \* terminals each prompt was written to
  box,      \* the newest terminal's input since its agent last reported
  misled,   \* the last report applied was not one the newest agent made in its turn
  used      \* reports, inputs and messages so far

session == <<kind, st, gen, term, rt>>
queue   == <<pending, pointer>>
record  == <<sent, audit, pasted, box, misled>>
vars    == <<session, act, queue, h, record, used>>

Terms   == 1 .. MaxTerms
Prompts == 1 .. MaxPrompts
Policy  == {"Now", "IfIdle", "Queue"}
Activity == {"Starting", "Working", "Waiting", "Idle"}

Idle == [pc |-> "idle", p |-> 0, new |-> FALSE, term |-> 0, when |-> "Now",
         act |-> "Idle", from |-> 0, cr |-> FALSE, then |-> FALSE]

\* Places where a thread holds the gate, the writer, of h[x].term.  A session's gate
\* is made for a prompt to its terminal and removed when that ends: one for each.
Gated   == {"audit", "decide", "writer", "paste", "cr", "shell", "command"}
Writing == {"paste", "cr", "command", "line", "linecr", "key"}

TypeOK ==
  /\ kind \in Kinds
  /\ st \in {"starting", "running", "ended", "gone"}
  /\ gen \in Terms /\ term \in 0 .. gen /\ rt \in 0 .. gen
  /\ act \in Activity
  /\ pending \in 0 .. Len(sent)
  /\ pointer \in [queued : BOOLEAN, typed : BOOLEAN]
  /\ h \in [Threads ->
       [pc : Gated \cup Writing \cup {"idle", "gate", "hook", "flush", "pointer", "hint",
                                      "remember", "input", "shellgate"},
        p : 0 .. Len(sent), new : BOOLEAN, term : 0 .. gen, when : Policy, act : Activity,
        from : 0 .. gen, cr : BOOLEAN, then : BOOLEAN]]
  /\ sent \in Seq(Terms)
  /\ audit \subseteq Prompts
  /\ pasted \in [Prompts -> Seq(Terms)]
  /\ box \in [hook : Activity, p : {0} \cup Prompts,
             text : {"none", "prompt", "line", "sent", "mixed"}]
  /\ misled \in BOOLEAN
  /\ used \in 0 .. MaxEvents

Blank(state) == [hook |-> state, p |-> 0, text |-> "none"]

Init ==
  /\ kind \in Kinds
  /\ st = "running" /\ gen = 1 /\ term = 1 /\ rt = 1
  /\ act = "Starting"
  /\ pending = 0 /\ pointer = [queued |-> FALSE, typed |-> FALSE]
  /\ h = [x \in Threads |-> Idle]
  /\ sent = <<>> /\ audit = {}
  /\ pasted = [p \in Prompts |-> <<>>]
  /\ box = Blank("Starting") /\ misled = FALSE
  /\ used = 0
-----------------------------------------------------------------------------
GateFree(t)   == \A x \in Threads : ~(h[x].pc \in Gated /\ h[x].term = t)
WriterFree(t) == \A x \in Threads : ~(h[x].pc \in Writing /\ h[x].term = t)

Go(x, pc) == h' = [h EXCEPT ![x].pc = pc]
Quit(x)   == h' = [h EXCEPT ![x] = Idle]

\* The hook that became idle goes on to the pointer it found queued.
Return(x) ==
  h' = [h EXCEPT ![x] = IF @.then THEN [Idle EXCEPT !.pc = "pointer"] ELSE Idle]

\* What arrives at the child after what it was given since the last report.
Enter(t, text, p) ==
  box' = IF t = gen THEN [box EXCEPT !.text = IF @ = "none" THEN text ELSE "mixed", !.p = p]
                    ELSE box

Submit(t) == box' = IF t = gen THEN [box EXCEPT !.text = "sent"] ELSE box

\* apply_activity of an input.
AfterInput == IF act \in {"Idle", "Waiting"} THEN "Working" ELSE act

\* check_target: the session is a live agent on the terminal the prompt is for,
\* the policy allows it, and the slot holds nothing else; a new prompt finds it
\* empty, a queued one finds itself.
CheckTarget(p, new, t, when) ==
  /\ kind = "Agent" /\ st \in {"starting", "running"}
  /\ term # 0 /\ term = t
  /\ when = "IfIdle" => act = "Idle"
  /\ IF new THEN pending = 0 ELSE pending = p

Fits(x) == CheckTarget(h[x].p, h[x].new, sent[h[x].p], h[x].when)

-----------------------------------------------------------------------------
(* Prompts.                                                                *)

\* send, and the first check of deliver.
Send(x, when) ==
  /\ h[x] = Idle /\ Len(sent) < MaxPrompts
  /\ CheckTarget(0, TRUE, term, when)
  /\ sent' = Append(sent, term)
  /\ h' = [h EXCEPT ![x] = [Idle EXCEPT !.pc = "gate", !.p = Len(sent) + 1, !.new = TRUE,
                                        !.term = term, !.when = when]]
  /\ UNCHANGED <<session, act, queue, audit, pasted, box, misled, used>>

\* The gate is open: the target is checked again and the writer cloned.  A new
\* prompt may find that its caller's session is gone.
EnterGate(x) ==
  /\ h[x].pc = "gate" /\ GateFree(h[x].term)
  /\ \/ /\ Fits(x) /\ rt = term
        /\ Go(x, IF h[x].new THEN "audit" ELSE "decide")
     \/ /\ h[x].new \/ ~Fits(x) \/ rt # term
        /\ Return(x)
  /\ UNCHANGED <<session, act, queue, record, used>>

\* The envelope is inserted, outside the core lock.
Audit(x) ==
  /\ h[x].pc = "audit"
  /\ \/ audit' = audit \cup {h[x].p} /\ Go(x, IF h[x].when = "Queue" THEN "decide" ELSE "writer")
     \/ Return(x) /\ UNCHANGED audit
  /\ UNCHANGED <<session, act, queue, sent, pasted, box, misled, used>>

\* A prompt that may wait is queued unless the agent is idle.
Decide(x) ==
  /\ h[x].pc = "decide"
  /\ \/ ~Fits(x) /\ Return(x) /\ UNCHANGED pending
     \/ Fits(x) /\ act # "Idle" /\ pending' = h[x].p /\ Return(x)
     \/ Fits(x) /\ act = "Idle" /\ Go(x, "writer") /\ UNCHANGED pending
  /\ UNCHANGED <<session, act, pointer, record, used>>

\* Mutant: the slot is not emptied before the write, whose error leaves it so.
TakeWriterKeeps(x) ==
  /\ h[x].pc = "writer" /\ WriterFree(h[x].term)
  /\ IF Fits(x) /\ (act = "Idle" \/ h[x].when # "Queue") /\ rt = term
       THEN /\ act' = IF act = "Idle" THEN "Working" ELSE act
            /\ h' = [h EXCEPT ![x].pc = "paste", ![x].cr = (act = "Idle")]
       ELSE Return(x) /\ UNCHANGED act
  /\ UNCHANGED <<session, queue, record, used>>

\* The writer is taken and the target checked a last time: from here on the
\* prompt is out of the slot, and an idle agent counts as working.  Whether it is
\* to be submitted is the sender's choice and matters here for the first time.
TakeWriter(x) ==
  /\ h[x].pc = "writer" /\ WriterFree(h[x].term)
  /\ \/ /\ ~Fits(x) \/ ((act = "Idle" \/ h[x].when # "Queue") /\ rt # term)
        /\ Return(x) /\ UNCHANGED <<act, pending>>
     \/ /\ Fits(x) /\ act # "Idle" /\ h[x].when = "Queue"
        /\ pending' = h[x].p
        /\ Return(x) /\ UNCHANGED act
     \/ /\ Fits(x) /\ (act = "Idle" \/ h[x].when # "Queue") /\ rt = term
        /\ pending' = 0
        /\ act' = IF act = "Idle" THEN "Working" ELSE act
        /\ \E submit \in BOOLEAN :
             h' = [h EXCEPT ![x].pc = "paste", ![x].cr = submit /\ act = "Idle"]
  /\ UNCHANGED <<session, pointer, record, used>>

\* The paste.  One that fails may have reached the child, and is not repeated.
Paste(x) ==
  /\ h[x].pc = "paste"
  /\ \/ /\ pasted' = [pasted EXCEPT ![h[x].p] = Append(@, h[x].term)]
        /\ Enter(h[x].term, "prompt", h[x].p)
        /\ Return(x) \/ (h[x].cr /\ Go(x, "cr"))
     \/ Return(x) /\ UNCHANGED <<pasted, box>>
  /\ UNCHANGED <<session, act, queue, sent, audit, misled, used>>

\* The carriage return that submits it.
CarriageReturn(x) ==
  /\ h[x].pc = "cr"
  /\ Return(x)
  /\ Submit(h[x].term) \/ UNCHANGED box
  /\ UNCHANGED <<session, act, queue, sent, audit, pasted, misled, used>>

\* send_shell: the shell's own group has the terminal's foreground, or the
\* request is refused; the answer of the ioctl is up to the shell.
SendShell(x) ==
  /\ h[x] = Idle /\ Len(sent) < MaxPrompts
  /\ kind = "Shell" /\ st \in {"starting", "running"} /\ term # 0 /\ rt = term
  /\ sent' = Append(sent, term)
  /\ h' = [h EXCEPT ![x] = [Idle EXCEPT !.pc = "shellgate", !.p = Len(sent) + 1, !.new = TRUE,
                                        !.term = term]]
  /\ UNCHANGED <<session, act, queue, audit, pasted, box, misled, used>>

AuditShell(x) ==
  /\ h[x].pc = "shellgate" /\ GateFree(h[x].term)
  /\ \/ audit' = audit \cup {h[x].p} /\ Go(x, "shell")
     \/ Quit(x) /\ UNCHANGED audit
  /\ UNCHANGED <<session, act, queue, sent, pasted, box, misled, used>>

\* Under the writer the terminal and its foreground are checked again.
CheckShell(x) ==
  /\ h[x].pc = "shell" /\ WriterFree(h[x].term)
  /\ \/ st \in {"starting", "running"} /\ term = h[x].term /\ rt = term /\ Go(x, "command")
     \/ Quit(x)
  /\ UNCHANGED <<session, act, queue, record, used>>

\* The line and its carriage return are one write.
WriteShell(x) ==
  /\ h[x].pc = "command"
  /\ Quit(x)
  /\ \/ /\ pasted' = [pasted EXCEPT ![h[x].p] = Append(@, h[x].term)]
        /\ Enter(h[x].term, "prompt", h[x].p)
     \/ UNCHANGED <<pasted, box>>
  /\ UNCHANGED <<session, act, queue, sent, audit, misled, used>>
-----------------------------------------------------------------------------
(* Hooks.                                                                  *)

\* report_activity.  A report names the session and not the terminal: it may be one
\* that the agent of an earlier terminal made and that arrives now.  The writer of
\* the session's terminal, if it has one, orders the report with input.
Hook(x, state) ==
  /\ h[x] = Idle /\ kind = "Agent" /\ used < MaxEvents
  /\ used' = used + 1
  /\ \E from \in 1 .. gen :
       h' = [h EXCEPT ![x] = [Idle EXCEPT !.pc = "hook", !.act = state, !.from = from,
                              !.term = IF term = rt THEN term ELSE 0]]
  /\ UNCHANGED <<session, act, queue, record>>

\* The newest agent reports, and in its turn: the report waited for the writer of
\* that agent's terminal.
InTurn(x) == h[x].from = gen /\ h[x].term = gen

\* Mutant: a report does not wait for the writer.
ApplyHookUnordered(x) ==
  LET new == h[x].act
  IN  /\ h[x].pc = "hook" /\ st # "gone"
      /\ act' = new
      /\ pointer' = [pointer EXCEPT !.typed = @ /\ (new = act \/ new = "Waiting")]
      /\ box' = IF h[x].from = gen THEN Blank(new) ELSE box
      /\ misled' = ~InTurn(x)
      /\ IF new = "Idle" /\ act # "Idle"
           THEN h' = [h EXCEPT ![x] = [Idle EXCEPT !.pc = "flush", !.then = pointer.queued]]
           ELSE Quit(x)
      /\ UNCHANGED <<session, pending, sent, audit, pasted, used>>

\* Mutant: only an agent that worked becomes idle.
ApplyHookFromWorking(x) ==
  LET new == h[x].act
  IN  /\ h[x].pc = "hook" /\ (h[x].term = 0 \/ WriterFree(h[x].term)) /\ st # "gone"
      /\ act' = new
      /\ pointer' = [pointer EXCEPT !.typed = @ /\ (new = act \/ new = "Waiting")]
      /\ box' = IF h[x].from = gen THEN Blank(new) ELSE box
      /\ misled' = ~InTurn(x)
      /\ IF new = "Idle" /\ act = "Working"
           THEN h' = [h EXCEPT ![x] = [Idle EXCEPT !.pc = "flush", !.then = pointer.queued]]
           ELSE Quit(x)
      /\ UNCHANGED <<session, pending, sent, audit, pasted, used>>

\* Whoever made it, the report is taken for the newest agent's.
ApplyHook(x) ==
  LET new == h[x].act
  IN  /\ h[x].pc = "hook" /\ (h[x].term = 0 \/ WriterFree(h[x].term))
      /\ \/ st = "gone" /\ Quit(x) /\ UNCHANGED <<act, pointer, box, misled>>
         \/ /\ st # "gone"
            /\ act' = new
            /\ pointer' = [pointer EXCEPT !.typed = @ /\ (new = act \/ new = "Waiting")]
            /\ box' = IF h[x].from = gen THEN Blank(new) ELSE box
            /\ misled' = ~InTurn(x)
            /\ IF new = "Idle" /\ act # "Idle"
                 THEN h' = [h EXCEPT ![x] = [Idle EXCEPT !.pc = "flush",
                                                         !.then = pointer.queued]]
                 ELSE Quit(x)
      /\ UNCHANGED <<session, pending, sent, audit, pasted, used>>

\* deliver_pending: the queued prompt, if any, goes through the same gate.
Flush(x) ==
  /\ h[x].pc = "flush"
  /\ IF act = "Idle" /\ st # "gone" /\ pending # 0
        /\ CheckTarget(pending, FALSE, sent[pending], "Queue")
       THEN h' = [h EXCEPT ![x].pc = "gate", ![x].p = pending, ![x].term = term,
                                ![x].when = "Queue"]
       ELSE Return(x)
  /\ UNCHANGED <<session, act, queue, record, used>>
-----------------------------------------------------------------------------
(* The pointer to unread messages.  While a client watches the inbox none   *)
(* is typed; whether one does is asked every time, and up to the clients.    *)

\* consider_pointer: typed to an idle agent, remembered for one that works.
Message(x) ==
  /\ h[x] = Idle /\ kind = "Agent" /\ st # "gone" /\ used < MaxEvents
  /\ \/ act = "Idle" /\ ~pointer.typed /\ Go(x, "pointer")
     \/ act = "Working" /\ Go(x, "remember")
  /\ used' = used + 1
  /\ UNCHANGED <<session, act, queue, record>>

\* A second critical section.
Remember(x) ==
  /\ h[x].pc = "remember"
  /\ Quit(x)
  /\ pointer' = [pointer EXCEPT !.queued = TRUE]
  /\ UNCHANGED <<session, act, pending, record, used>>

\* deliver_pointer.
PreparePointer(x) ==
  /\ h[x].pc = "pointer"
  /\ \/ (Watchers \/ term = 0 \/ rt # term) /\ Quit(x)
     \/ /\ term # 0 /\ rt = term
        /\ h' = [h EXCEPT ![x] = [Idle EXCEPT !.pc = "hint", !.term = term]]
  /\ UNCHANGED <<session, act, queue, record, used>>

TakePointer(x) ==
  /\ h[x].pc = "hint" /\ WriterFree(h[x].term)
  /\ \/ /\ Watchers \/ term # h[x].term \/ (act = "Idle" /\ pointer.typed)
        /\ Quit(x) /\ UNCHANGED <<act, pointer>>
     \/ /\ term = h[x].term /\ act # "Idle"
        /\ pointer' = [pointer EXCEPT !.queued = TRUE]
        /\ Quit(x) /\ UNCHANGED act
     \/ /\ term = h[x].term /\ act = "Idle" /\ ~pointer.typed
        /\ pointer' = [queued |-> FALSE, typed |-> TRUE]
        /\ act' = "Working"
        /\ Go(x, "line")
  /\ UNCHANGED <<session, pending, record, used>>

\* The line, and its carriage return unless the line failed.
TypeLine(x) ==
  /\ h[x].pc = "line"
  /\ \/ Enter(h[x].term, "line", 0) /\ (Go(x, "linecr") \/ Quit(x))
     \/ Quit(x) /\ UNCHANGED box
  /\ UNCHANGED <<session, act, queue, sent, audit, pasted, misled, used>>

TypeReturn(x) ==
  /\ h[x].pc = "linecr"
  /\ Quit(x)
  /\ Submit(h[x].term) \/ UNCHANGED box
  /\ UNCHANGED <<session, act, queue, sent, audit, pasted, misled, used>>

-----------------------------------------------------------------------------
(* The user's keys, and the life of the terminal.                          *)

\* write_terminal_input.
Key(x) ==
  /\ h[x] = Idle /\ rt # 0 /\ used < MaxEvents
  /\ used' = used + 1
  /\ h' = [h EXCEPT ![x] = [Idle EXCEPT !.pc = "input", !.term = rt]]
  /\ UNCHANGED <<session, act, queue, record>>

\* note_user_input under the writer, before the bytes go out.
NoteInput(x) ==
  /\ h[x].pc = "input" /\ WriterFree(h[x].term)
  /\ Go(x, "key")
  /\ IF rt = h[x].term /\ st # "gone" /\ act # AfterInput
       THEN act' = AfterInput /\ pointer' = [pointer EXCEPT !.typed = FALSE]
       ELSE UNCHANGED <<act, pointer>>
  /\ UNCHANGED <<session, pending, record, used>>

WriteInput(x) ==
  /\ h[x].pc = "key"
  /\ Quit(x)
  /\ Enter(h[x].term, "mixed", 0) \/ UNCHANGED box
  /\ UNCHANGED <<session, act, queue, sent, audit, pasted, misled, used>>

\* set_session_state, remove_session_cache: the slot, and the gate, go.
DropQueue == pending' = 0

\* on_terminal_exited, first lock.
RuntimeGone ==
  /\ rt # 0
  /\ rt' = 0
  /\ UNCHANGED <<kind, st, gen, term, act, queue, h, record, used>>

\* on_terminal_exited, second lock.
RecordExit ==
  /\ st = "running" /\ rt = 0
  /\ st' = "ended" /\ term' = 0
  /\ DropQueue
  /\ UNCHANGED <<kind, gen, rt, act, pointer, h, record, used>>

\* restart_session; the activity starts over.
Restart ==
  /\ st = "ended" /\ gen < MaxTerms
  /\ st' = "starting" /\ gen' = gen + 1
  /\ act' = "Starting" /\ box' = Blank("Starting") /\ misled' = FALSE
  /\ DropQueue
  /\ UNCHANGED <<kind, term, rt, pointer, h, sent, audit, pasted, used>>

\* spawn_terminal: the new terminal is installed, or its spawn fails.
Install ==
  /\ st = "starting"
  /\ \/ /\ st' = "running" /\ term' = gen /\ rt' = gen
        /\ UNCHANGED pending
     \/ st' = "ended" /\ DropQueue /\ UNCHANGED <<term, rt>>
  /\ UNCHANGED <<kind, gen, act, pointer, h, record, used>>

\* delete_session: its runtime, if any, stays until its end of file.
Delete ==
  /\ st # "gone"
  /\ st' = "gone" /\ term' = 0
  /\ DropQueue
  /\ pointer' = [queued |-> FALSE, typed |-> FALSE]
  /\ UNCHANGED <<kind, gen, rt, act, h, record, used>>
-----------------------------------------------------------------------------
Step(x) ==
  \/ EnterGate(x) \/ Audit(x) \/ Decide(x) \/ TakeWriter(x) \/ Paste(x) \/ CarriageReturn(x)
  \/ AuditShell(x) \/ CheckShell(x) \/ WriteShell(x)
  \/ ApplyHook(x) \/ Flush(x)
  \/ Remember(x) \/ PreparePointer(x) \/ TakePointer(x) \/ TypeLine(x) \/ TypeReturn(x)
  \/ NoteInput(x) \/ WriteInput(x)

Next ==
  \/ \E x \in Threads :
       \/ \E when \in Policy : Send(x, when)
       \/ SendShell(x) \/ Message(x) \/ Key(x)
       \/ \E state \in Activity \ {"Starting"} : Hook(x, state)
       \/ Step(x)
  \/ RuntimeGone \/ RecordExit \/ Restart \/ Install \/ Delete

Spec == Init /\ [][Next]_vars

\* Every thread that has the processor goes on, every write to a PTY returns, and
\* an end of file and a spawn come to their end.
FairSpec ==
  /\ Spec
  /\ \A x \in Threads : WF_vars(Step(x))
  /\ WF_vars(RecordExit) /\ WF_vars(Install)
-----------------------------------------------------------------------------
(* Properties.                                                             *)

\* When the carriage return of a prompt or a pointer is about to be written, the
\* terminal was given nothing else since its agent reported, and what it reported
\* was Idle: no key, no other prompt and no hook slips between the check, the
\* paste and the return, and one idle is submitted to once (deliver,
\* deliver_pointer, write_terminal_input, report_activity).  The exception is an
\* activity that says nothing of the newest agent's input: the last report applied
\* was made by the agent of an earlier terminal, or began before this one was
\* installed.  It lasts until the newest agent reports in its turn.
SubmitsItsOwn ==
  \A x \in Threads :
    h[x].pc \in {"cr", "linecr"} /\ rt = h[x].term /\ term = h[x].term /\ ~misled =>
      box = [hook |-> "Idle", p |-> h[x].p,
             text |-> IF h[x].pc = "cr" THEN "prompt" ELSE "line"]

\* A prompt or a command is typed at most once, and only into the terminal that
\* its sender saw, whatever fails, is queued, exits or restarts in between
\* (check_target, deliver, deliver_pending, set_session_state).
TypedOnce ==
  \A p \in DOMAIN sent : pasted[p] \in {<<>>, <<sent[p]>>}

\* What is typed, or waits to be, has its envelope (deliver, send_shell).
Audited ==
  \A p \in Prompts : pasted[p] # <<>> \/ pending = p => p \in audit

\* Nothing is typed twice, elsewhere than it was meant or without a record of it.
PromptsOK == TypeOK /\ TypedOnce /\ Audited

\* A prompt in the slot does not stay there while its agent is idle: the hook that
\* makes it idle delivers it, whoever queued it meanwhile (deliver,
\* report_activity, deliver_pending).
QueuedPromptGoes ==
  (pending # 0 /\ act = "Idle") ~> (pending = 0 \/ act # "Idle")
=============================================================================
