---------------------------- MODULE PromptProofs -----------------------------
(***************************************************************************)
(* What is typed into a session, for any threads, prompts and terminals:   *)
(* nothing twice, nothing into another terminal than its sender saw, and   *)
(* nothing without its envelope.  It rests on the gate of a terminal and   *)
(* on the slot: a prompt is with the one thread that sent it, or in the    *)
(* slot, or with the one thread past the gate that took it out.  What is   *)
(* submitted to an idle agent is that prompt, or that pointer, and nothing *)
(* else; that rests on the writer of the terminal, which hooks wait for,   *)
(* and is claimed while the newest agent was the last to report.           *)
(***************************************************************************)
EXTENDS PromptDispatch, SequenceTheorems, TLAPS

\* Places where a thread has a prompt that it may still type, and where it has one at all.
Carry == {"gate", "audit", "decide", "writer", "paste", "shellgate", "shell", "command"}
Holds == Carry \cup {"cr"}

\* Places past the envelope, and those of a command line.
Recorded == {"decide", "writer", "paste", "cr", "shell", "command"}
OfShell  == {"shellgate", "shell", "command"}

Places == Gated \cup Writing \cup {"idle", "gate", "hook", "flush", "pointer", "hint",
                                   "remember", "input", "shellgate"}

\* The prompt of a thread was sent to the terminal it is at.
Meant == \A x \in Threads :
  /\ h[x].pc \in Holds => h[x].p \in DOMAIN sent /\ h[x].term = sent[h[x].p]
  /\ h[x].pc \in Recorded => h[x].p \in audit
  /\ h[x].pc = "flush" => ~h[x].new
  /\ h[x].pc \in OfShell => h[x].new

\* A prompt that was just sent is with one thread only, and neither queued nor typed.
Fresh == \A x \in Threads : h[x].pc \in Carry /\ h[x].new =>
  /\ pasted[h[x].p] = <<>> /\ pending # h[x].p
  /\ \A y \in Threads \ {x} : h[y].pc \in Carry => h[y].p # h[x].p

\* One thread past the gate of a terminal.
Alone == \A x, y \in Threads :
  h[x].pc \in Gated /\ h[y].pc \in Gated /\ h[x].term = h[y].term => x = y

\* A prompt about to be typed is out of the slot; what is in the slot was not typed.
Taken == \A x \in Threads : h[x].pc \in {"paste", "command"} =>
  pasted[h[x].p] = <<>> /\ pending # h[x].p

Waiting == pending # 0 => pasted[pending] = <<>>

\* Prompts that were not sent yet.
Unsent == Len(sent) <= MaxPrompts /\ \A p \in Prompts \ DOMAIN sent : pasted[p] = <<>>

IInv == TypeOK /\ TypedOnce /\ Audited /\ Meant /\ Fresh /\ Alone /\ Taken /\ Waiting /\ Unsent

-----------------------------------------------------------------------------
(* What a step of one thread does to the prompts.                          *)

LEMMA Distinct == 0 \notin Terms /\ 0 \notin Prompts
BY DEF Terms, Prompts

\* The sequence of prompts: a prompt is one that was sent.
LEMMA SentPrompts ==
  ASSUME IInv
  PROVE  /\ Len(sent) \in Nat /\ DOMAIN sent = 1 .. Len(sent) /\ DOMAIN sent \subseteq Prompts
         /\ \A p \in DOMAIN sent : sent[p] \in Terms
         /\ pending # 0 => pending \in DOMAIN sent
         /\ pasted \in [Prompts -> Seq(Terms)]
<1>1. Len(sent) \in Nat /\ DOMAIN sent = 1 .. Len(sent) /\ Len(sent) <= MaxPrompts
      /\ \A p \in DOMAIN sent : sent[p] \in Terms
  BY LenProperties, ElementOfSeq DEF IInv, TypeOK, Unsent
<1> QED
  BY <1>1, DispatchAssumption DEF IInv, TypeOK, Prompts

\* Nobody else moves, and no prompt is sent.
Moved(x) == \A y \in Threads \ {x} : h'[y] = h[y]

\* The prompt of the thread that moved is the one it had, or the one in the slot.
Kept(x) ==
  /\ h'[x].pc \in Holds => h'[x].p \in DOMAIN sent /\ h'[x].term = sent[h'[x].p]
  /\ h'[x].pc \in Recorded => h'[x].p \in audit'
  /\ h'[x].pc = "flush" => ~h'[x].new
  /\ h'[x].pc \in OfShell => h'[x].new
  /\ h'[x].pc \in Carry =>
       \/ h[x].pc \in Carry /\ h'[x].p = h[x].p /\ h'[x].new = h[x].new
       \/ h'[x].p = pending /\ ~h'[x].new
  /\ h'[x].pc \in Gated =>
       \/ h[x].pc \in Gated /\ h'[x].term = h[x].term
       \/ GateFree(h'[x].term)
  /\ h'[x].pc \in {"paste", "command"} => pasted'[h'[x].p] = <<>> /\ pending' # h'[x].p

\* The slot stays, is emptied, or takes the prompt of a thread past the gate.
Slotted(x) ==
  \/ pending' \in {0, pending}
  \/ /\ h[x].pc \in {"decide", "writer"} /\ h'[x].pc \notin Carry
     /\ pending' = h[x].p /\ (~h[x].new => pending = h[x].p)

\* A prompt is typed by the thread that holds it, which then holds it no more.
Typed(x) ==
  \/ pasted' = pasted
  \/ /\ h[x].pc \in {"paste", "command"} /\ h'[x].pc \notin Carry
     /\ pasted' = [pasted EXCEPT ![h[x].p] = Append(@, h[x].term)]

\* Two threads past the gate with one prompt are one.
LEMMA OnePast ==
  ASSUME IInv, NEW x \in Threads, NEW y \in Threads, h[x].pc \in Gated, h[y].pc \in Gated, h[x].p = h[y].p,
         h[x].pc \in Holds, h[y].pc \in Holds
  PROVE  x = y
BY DEF IInv, Meant, Alone

LEMMA OneMoves ==
  ASSUME IInv, TypeOK', NEW x \in Threads, Moved(x), Kept(x), Slotted(x), Typed(x),
         sent' = sent, audit \subseteq audit'
  PROVE  IInv'
<1>1. Unsent' /\ TypedOnce'
  <2>1. CASE pasted' = pasted
    BY <2>1 DEF IInv, Unsent, TypedOnce
  <2>2. CASE pasted' # pasted
    <3>1. h[x].pc \in {"paste", "command"} /\ pasted' = [pasted EXCEPT ![h[x].p] = Append(@, h[x].term)]
      BY <2>2 DEF Typed
    <3>2. h[x].p \in DOMAIN sent /\ h[x].term = sent[h[x].p] /\ pasted[h[x].p] = <<>> /\ h[x].p \in Prompts
      BY <3>1, SentPrompts DEF IInv, Meant, Taken, Holds, Carry
    <3>3. Append(<<>>, h[x].term) = <<h[x].term>>
      OBVIOUS
    <3>4. pasted'[h[x].p] = <<sent[h[x].p]>> /\ \A p \in Prompts \ {h[x].p} : pasted'[p] = pasted[p]
      BY <3>1, <3>2, <3>3, SentPrompts
    <3> QED
      BY <3>2, <3>4, SentPrompts DEF IInv, Unsent, TypedOnce
  <2> QED
    BY <2>1, <2>2
<1>2. \A p \in Prompts : p # h[x].p \/ h[x].pc \notin {"paste", "command"} => pasted'[p] = pasted[p]
  BY SentPrompts DEF Typed
<1>3. Meant'
  <2> SUFFICES ASSUME NEW y \in Threads
               PROVE  /\ h'[y].pc \in Holds => h'[y].p \in DOMAIN sent /\ h'[y].term = sent[h'[y].p]
                      /\ h'[y].pc \in Recorded => h'[y].p \in audit'
                      /\ h'[y].pc = "flush" => ~h'[y].new
                      /\ h'[y].pc \in OfShell => h'[y].new
    BY DEF Meant
  <2>1. CASE y = x
    BY <2>1 DEF Kept
  <2>2. CASE y # x
    BY <2>2 DEF Moved, IInv, Meant
  <2> QED
    BY <2>1, <2>2
<1>4. Alone'
  BY DEF Alone, IInv, Moved, Kept, GateFree
<1>5. Audited'
  <2>1. h[x].pc \in {"decide", "writer", "paste", "command"} => h[x].p \in audit
    BY DEF IInv, Meant, Recorded
  <2>2. pending' # pending /\ pending' # 0 => pending' \in audit
    BY <2>1 DEF Slotted
  <2> QED
    BY <1>2, <2>1, <2>2, Distinct DEF IInv, Audited
<1>6. ASSUME NEW y \in Threads, h[y].pc \in Carry, h[y].p # h[x].p \/ h[x].pc \notin {"paste", "command"}
      PROVE  pasted'[h[y].p] = pasted[h[y].p]
  BY <1>2, <1>6, SentPrompts DEF IInv, Meant, Holds
<1>7. Waiting'
  <2> SUFFICES ASSUME pending' # 0 PROVE pasted'[pending'] = <<>>
    BY DEF Waiting
  <2>1. CASE pending' = pending
    <3>1. h[x].pc \in {"paste", "command"} => h[x].p # pending
      BY DEF IInv, Taken
    <3> QED
      BY <1>2, <2>1, <3>1, SentPrompts DEF IInv, Waiting
  <2>2. CASE pending' # pending
    <3>1. h[x].pc \in {"decide", "writer"} /\ pending' = h[x].p /\ (~h[x].new => pending = h[x].p)
      BY <2>2 DEF Slotted
    <3>2. pasted[h[x].p] = <<>>
      BY <2>2, <3>1 DEF IInv, Fresh, Carry
    <3> QED
      BY <1>6, <3>1, <3>2 DEF Carry
  <2> QED
    BY <2>1, <2>2
<1>8. Taken'
  <2> SUFFICES ASSUME NEW y \in Threads, h'[y].pc \in {"paste", "command"}
               PROVE  pasted'[h'[y].p] = <<>> /\ pending' # h'[y].p
    BY DEF Taken
  <2>1. CASE y = x
    BY <2>1 DEF Kept
  <2>2. CASE y # x
    <3>1. h'[y] = h[y] /\ h[y].pc \in Gated /\ h[y].pc \in Carry /\ h[y].p # 0
          /\ pasted[h[y].p] = <<>> /\ pending # h[y].p
      BY <2>2, SentPrompts DEF Moved, IInv, Taken, Meant, Gated, Carry, Holds
    <3>2. h[x].pc \in {"decide", "writer", "paste", "command"} => h[x].p # h[y].p
      BY <2>2, <3>1, OnePast DEF Gated, Holds, Carry
    <3> QED
      BY <1>6, <3>1, <3>2 DEF Slotted
  <2> QED
    BY <2>1, <2>2
<1>9. Fresh'
  <2> SUFFICES ASSUME NEW y \in Threads, h'[y].pc \in Carry, h'[y].new
               PROVE  /\ pasted'[h'[y].p] = <<>> /\ pending' # h'[y].p
                      /\ \A z \in Threads \ {y} : h'[z].pc \in Carry => h'[z].p # h'[y].p
    BY DEF Fresh
  <2>1. h[y].pc \in Carry /\ h[y].new /\ h[y].p = h'[y].p
    BY DEF Moved, Kept
  <2>2. /\ pasted[h[y].p] = <<>> /\ pending # h[y].p /\ h[y].p # 0
        /\ \A z \in Threads \ {y} : h[z].pc \in Carry => h[z].p # h[y].p
    BY <2>1, SentPrompts DEF IInv, Fresh, Meant, Holds
  <2>3. \A z \in Threads \ {y} : h'[z].pc \in Carry => h'[z].p # h[y].p
    BY <2>2 DEF Moved, Kept
  <2>4. h[x].pc \in {"paste", "command"} /\ pasted' # pasted => h[x].p # h[y].p
    BY <2>1, <2>2 DEF Typed, Carry, Moved
  <2>5. pasted'[h[y].p] = <<>>
    BY <1>6, <2>1, <2>2, <2>4
  <2>6. pending' # h[y].p
    <3>1. CASE x = y
      BY <2>2, <3>1 DEF Slotted
    <3>2. CASE x # y
      BY <2>2, <3>2 DEF Slotted, Carry
    <3> QED
      BY <3>1, <3>2
  <2> QED
    BY <2>1, <2>3, <2>5, <2>6
<1> QED
  BY <1>1, <1>3, <1>4, <1>5, <1>7, <1>8, <1>9 DEF IInv

-----------------------------------------------------------------------------
(* Types.                                                                  *)

Jobs == [pc : Places, p : 0 .. Len(sent), new : BOOLEAN, term : 0 .. gen, when : Policy,
         act : Activity, from : 0 .. gen, cr : BOOLEAN, then : BOOLEAN]
Boxes == [hook : Activity, p : {0} \cup Prompts, text : {"none", "prompt", "line", "sent", "mixed"}]
Pointers == [queued : BOOLEAN, typed : BOOLEAN]

LEMMA Typing ==
  ASSUME IInv
  PROVE  /\ h \in [Threads -> Jobs] /\ box \in Boxes /\ pointer \in Pointers
         /\ act \in Activity /\ gen \in Nat \ {0} /\ Len(sent) \in Nat
         /\ 0 .. Len(sent) \subseteq {0} \cup Prompts
         /\ Idle \in Jobs /\ [Idle EXCEPT !.pc = "pointer"] \in Jobs
<1>1. h \in [Threads -> Jobs] /\ box \in Boxes /\ pointer \in Pointers /\ act \in Activity
  BY DEF IInv, TypeOK, Jobs, Boxes, Pointers, Places
<1>2. gen \in Nat \ {0} /\ Len(sent) \in Nat /\ 0 .. Len(sent) \subseteq {0} \cup Prompts
  BY SentPrompts, DispatchAssumption DEF IInv, TypeOK, Terms, Unsent, Prompts
<1>3. Idle \in Jobs /\ [Idle EXCEPT !.pc = "pointer"] \in Jobs
  <2>1. "idle" \in Places /\ "pointer" \in Places /\ "Now" \in Policy /\ "Idle" \in Activity
        /\ 0 \in 0 .. gen /\ 0 \in 0 .. Len(sent)
    BY <1>2 DEF Places, Policy, Activity
  <2>2. Idle \in Jobs
    BY <2>1 DEF Jobs, Idle
  <2>3. [Idle EXCEPT !.pc = "pointer"] \in Jobs
    BY <2>1, <2>2 DEF Jobs
  <2> QED
    BY <2>2, <2>3
<1> QED
  BY <1>1, <1>2, <1>3

\* What a step that leaves the session alone has to show.
LEMMA StepTypes ==
  ASSUME IInv, UNCHANGED <<session, sent>>, h' \in [Threads -> Jobs], act' \in Activity,
         pending' \in 0 .. Len(sent), pointer' \in Pointers, audit' \subseteq Prompts,
         pasted' \in [Prompts -> Seq(Terms)], box' \in Boxes, misled' \in BOOLEAN,
         used' \in 0 .. MaxEvents
  PROVE  TypeOK'
BY DEF IInv, TypeOK, session, Jobs, Boxes, Pointers, Places

\* Text that arrives at the child.
LEMMA BoxTypes ==
  ASSUME IInv, NEW t
  PROVE  /\ \A text \in {"prompt", "line", "mixed"} : \A p \in {0} \cup Prompts : Enter(t, text, p) => box' \in Boxes
         /\ Submit(t) => box' \in Boxes
         /\ \A a \in Activity : Blank(a) \in Boxes
BY Typing DEF Enter, Submit, Blank, Boxes

\* A thread that goes to a place where it has no prompt.
LEMMA Quiet ==
  ASSUME IInv, NEW x \in Threads, NEW job \in Jobs, h' = [h EXCEPT ![x] = job],
         job.pc \notin Holds, job.pc = "flush" => ~job.new,
         UNCHANGED <<session, pending, sent, audit, pasted>>, act' \in Activity,
         pointer' \in Pointers, box' \in Boxes, misled' \in BOOLEAN, used' \in 0 .. MaxEvents
  PROVE  IInv'
<1>1. /\ h' \in [Threads -> Jobs] /\ h'[x] = job /\ Moved(x)
  BY Typing DEF Moved
<1>2. TypeOK'
  BY <1>1, StepTypes DEF IInv, TypeOK
<1>3. Kept(x) /\ Slotted(x) /\ Typed(x)
  BY <1>1 DEF Kept, Slotted, Typed, Holds, Carry, Recorded, OfShell, Gated
<1> QED
  BY <1>1, <1>2, <1>3, OneMoves

\* A prompt's thread that ends, or goes on to the pointer.
LEMMA ReturnJobs ==
  ASSUME IInv, NEW x \in Threads, Return(x) \/ Quit(x)
  PROVE  /\ h' \in [Threads -> Jobs] /\ Moved(x) /\ h'[x].pc \in {"idle", "pointer"}
<1>1. PICK job \in {Idle, [Idle EXCEPT !.pc = "pointer"]} : h' = [h EXCEPT ![x] = job]
  <2>1. h' = [h EXCEPT ![x] = IF h[x].then THEN [Idle EXCEPT !.pc = "pointer"] ELSE Idle]
        \/ h' = [h EXCEPT ![x] = Idle]
    BY Typing DEF Return, Quit
  <2>2. CASE h[x].then
    BY <2>1, <2>2
  <2>3. CASE ~h[x].then
    BY <2>1, <2>3
  <2> QED
    BY <2>2, <2>3
<1>2. job \in Jobs /\ job.pc \in {"idle", "pointer"}
  <2>1. Idle.pc = "idle" /\ [Idle EXCEPT !.pc = "pointer"].pc = "pointer"
    BY DEF Idle
  <2> QED
    BY <2>1, Typing
<1> QED
  BY <1>1, <1>2, Typing DEF Moved

\* A thread that goes from one place to the next.
LEMMA GoJobs ==
  ASSUME IInv, NEW x \in Threads, NEW place \in Places, Go(x, place)
  PROVE  /\ h' \in [Threads -> Jobs] /\ Moved(x)
         /\ h'[x].pc = place /\ h'[x].p = h[x].p /\ h'[x].new = h[x].new /\ h'[x].term = h[x].term
         /\ h'[x] \in Jobs /\ h' = [h EXCEPT ![x] = h'[x]]
<1>1. h[x] \in Jobs
  BY Typing
<1>2. [h[x] EXCEPT !.pc = place] \in Jobs
  BY <1>1 DEF Jobs
<1> QED
  BY <1>1, <1>2, Typing DEF Go, Moved, Jobs

-----------------------------------------------------------------------------
(* The steps.                                                              *)

\* Prompts.
LEMMA PromptSteps ==
  ASSUME IInv, NEW x \in Threads,
         \/ EnterGate(x) \/ Audit(x) \/ Decide(x) \/ TakeWriter(x) \/ Paste(x) \/ CarriageReturn(x)
  PROVE  IInv'
<1> USE DEF session, queue, record
<1>0. h[x] \in Jobs /\ h[x].p \in {0} \cup Prompts
      /\ used \in 0 .. MaxEvents /\ misled \in BOOLEAN /\ audit \subseteq Prompts
      /\ pasted \in [Prompts -> Seq(Terms)] /\ pending \in 0 .. Len(sent)
  BY Typing DEF Jobs, IInv, TypeOK
<1>1. CASE EnterGate(x)
  <2>1. ASSUME Return(x) PROVE IInv'
    <3>1. TypeOK'
      BY <1>0, <1>1, <2>1, ReturnJobs, Typing, StepTypes DEF EnterGate
    <3>2. Moved(x) /\ Kept(x) /\ Slotted(x) /\ Typed(x)
      BY <1>1, <2>1, ReturnJobs DEF EnterGate, Kept, Slotted, Typed, Holds, Carry, Recorded, OfShell, Gated
    <3> QED
      BY <1>1, <3>1, <3>2, OneMoves DEF EnterGate
  <2>2. ASSUME Fits(x), NEW place \in {"audit", "decide"}, Go(x, place), place = "audit" <=> h[x].new
        PROVE  IInv'
    <3>1. place \in Places
      BY DEF Places, Gated
    <3>2. TypeOK'
      BY <1>0, <1>1, <2>2, <3>1, GoJobs, Typing, StepTypes DEF EnterGate
    <3>3. h[x].p \in DOMAIN sent /\ h[x].term = sent[h[x].p] /\ h[x].p \in Prompts
      BY <1>1, SentPrompts DEF EnterGate, IInv, Meant, Holds, Carry
    <3>4. ~h[x].new => h[x].p \in audit
      BY <2>2, <3>3 DEF Fits, CheckTarget, IInv, Audited
    <3>5. Moved(x) /\ Kept(x) /\ Slotted(x) /\ Typed(x)
      BY <1>1, <2>2, <3>1, <3>3, <3>4, GoJobs
         DEF EnterGate, Kept, Slotted, Typed, Holds, Carry, Recorded, OfShell, Gated
    <3> QED
      BY <1>1, <3>2, <3>5, OneMoves DEF EnterGate
  <2>3. h[x].new \in BOOLEAN
    BY <1>0 DEF Jobs
  <2> QED
    BY <1>1, <2>1, <2>2, <2>3 DEF EnterGate
<1>2. CASE Audit(x)
  <2>1. h[x].p \in DOMAIN sent /\ h[x].term = sent[h[x].p] /\ h[x].p \in Prompts /\ h[x].pc = "audit"
    BY <1>2, SentPrompts DEF Audit, IInv, Meant, Holds, Carry
  <2>2. CASE Return(x) /\ UNCHANGED audit
    <3>1. TypeOK'
      BY <1>0, <1>2, <2>2, ReturnJobs, Typing, StepTypes DEF Audit
    <3>2. Moved(x) /\ Kept(x) /\ Slotted(x) /\ Typed(x)
      BY <1>2, <2>2, ReturnJobs DEF Audit, Kept, Slotted, Typed, Holds, Carry, Recorded, OfShell, Gated
    <3> QED
      BY <1>2, <2>2, <3>1, <3>2, OneMoves DEF Audit
  <2>3. ASSUME NEW place \in {"decide", "writer"}, Go(x, place), audit' = audit \cup {h[x].p} PROVE IInv'
    <3>1. place \in Places
      BY DEF Places, Gated
    <3>2. TypeOK'
      BY <1>0, <1>2, <2>1, <2>3, <3>1, GoJobs, Typing, StepTypes DEF Audit
    <3>3. Moved(x) /\ Kept(x) /\ Slotted(x) /\ Typed(x)
      BY <1>2, <2>1, <2>3, <3>1, GoJobs
         DEF Audit, Kept, Slotted, Typed, Holds, Carry, Recorded, OfShell, Gated
    <3> QED
      BY <1>2, <2>3, <3>2, <3>3, OneMoves DEF Audit
  <2> QED
    BY <1>2, <2>2, <2>3 DEF Audit
<1>3. CASE Decide(x)
  <2>1. h[x].p \in DOMAIN sent /\ h[x].term = sent[h[x].p] /\ h[x].p \in Prompts /\ h[x].p \in audit
        /\ h[x].pc = "decide" /\ h[x].p \in 0 .. Len(sent)
    BY <1>0, <1>3, SentPrompts DEF Decide, IInv, Meant, Holds, Carry, Recorded, Jobs
  <2>2. CASE Return(x) /\ (UNCHANGED pending \/ (Fits(x) /\ pending' = h[x].p))
    <3>1. TypeOK'
      BY <1>0, <1>3, <2>1, <2>2, ReturnJobs, Typing, StepTypes DEF Decide
    <3>2. Moved(x) /\ Kept(x) /\ Slotted(x) /\ Typed(x)
      BY <1>3, <2>1, <2>2, ReturnJobs
         DEF Decide, Kept, Slotted, Typed, Holds, Carry, Recorded, OfShell, Gated, Fits, CheckTarget
    <3> QED
      BY <1>3, <3>1, <3>2, OneMoves DEF Decide
  <2>3. CASE Go(x, "writer") /\ UNCHANGED pending
    <3>1. "writer" \in Places
      BY DEF Places, Gated
    <3>2. TypeOK'
      BY <1>0, <1>3, <2>3, <3>1, GoJobs, Typing, StepTypes DEF Decide
    <3>3. Moved(x) /\ Kept(x) /\ Slotted(x) /\ Typed(x)
      BY <1>3, <2>1, <2>3, <3>1, GoJobs
         DEF Decide, Kept, Slotted, Typed, Holds, Carry, Recorded, OfShell, Gated
    <3> QED
      BY <1>3, <3>2, <3>3, OneMoves DEF Decide
  <2> QED
    BY <1>3, <2>2, <2>3 DEF Decide
<1>4. CASE TakeWriter(x)
  <2>1. h[x].p \in DOMAIN sent /\ h[x].term = sent[h[x].p] /\ h[x].p \in Prompts /\ h[x].p \in audit
        /\ h[x].pc = "writer" /\ h[x].p \in 0 .. Len(sent) /\ h[x].p # 0
    BY <1>0, <1>4, SentPrompts, Distinct DEF TakeWriter, IInv, Meant, Holds, Carry, Recorded, Jobs
  <2>2. CASE Return(x) /\ UNCHANGED act /\ (UNCHANGED pending \/ (Fits(x) /\ pending' = h[x].p))
    <3>1. TypeOK'
      BY <1>0, <1>4, <2>1, <2>2, ReturnJobs, Typing, StepTypes DEF TakeWriter
    <3>2. Moved(x) /\ Kept(x) /\ Slotted(x) /\ Typed(x)
      BY <1>4, <2>1, <2>2, ReturnJobs
         DEF TakeWriter, Kept, Slotted, Typed, Holds, Carry, Recorded, OfShell, Gated, Fits, CheckTarget
    <3> QED
      BY <1>4, <3>1, <3>2, OneMoves DEF TakeWriter
  <2>3. ASSUME Fits(x), pending' = 0, act' = (IF act = "Idle" THEN "Working" ELSE act),
               NEW submit \in BOOLEAN, h' = [h EXCEPT ![x].pc = "paste", ![x].cr = submit /\ act = "Idle"]
        PROVE  IInv'
    <3> DEFINE job == [h[x] EXCEPT !.pc = "paste", !.cr = submit /\ act = "Idle"]
    <3>1. h' = [h EXCEPT ![x] = job]
      BY <2>3
    <3>2. job \in Jobs
      <4>1. "paste" \in Places /\ (submit /\ act = "Idle") \in BOOLEAN
        BY DEF Places, Gated
      <4> QED
        BY <1>0, <4>1 DEF Jobs
    <3>3. job.pc = "paste" /\ job.p = h[x].p /\ job.new = h[x].new /\ job.term = h[x].term
      BY <1>0 DEF Jobs
    <3> HIDE DEF job
    <3>4. h'[x] = job /\ h' \in [Threads -> Jobs] /\ Moved(x)
      BY <3>1, <3>2, Typing DEF Moved
    <3>5. act' \in Activity
      BY <2>3, Typing DEF Activity
    <3>0. UNCHANGED <<kind, st, gen, term, rt, pointer, sent, audit, pasted, box, misled, used>>
          /\ 0 \in 0 .. Len(sent)
      BY <1>4, Typing DEF TakeWriter
    <3>6. TypeOK'
      BY <1>0, <2>3, <3>0, <3>4, <3>5, Typing, StepTypes
    <3>7. pasted[h[x].p] = <<>>
      BY <2>1, <2>3 DEF Fits, CheckTarget, IInv, Fresh, Waiting, Carry
    <3>8. Kept(x) /\ Slotted(x) /\ Typed(x)
      BY <2>1, <2>3, <3>0, <3>3, <3>4, <3>7
         DEF Kept, Slotted, Typed, Holds, Carry, Recorded, OfShell, Gated
    <3> QED
      BY <3>0, <3>4, <3>6, <3>8, OneMoves
  <2> QED
    BY <1>4, <2>2, <2>3 DEF TakeWriter
<1>5. CASE Paste(x)
  <2>1. h[x].p \in DOMAIN sent /\ h[x].term = sent[h[x].p] /\ h[x].p \in Prompts /\ h[x].p \in audit
        /\ h[x].pc = "paste" /\ h[x].term \in Terms
    BY <1>5, SentPrompts DEF Paste, IInv, Meant, Holds, Carry, Recorded
  <2>2. Append(pasted[h[x].p], h[x].term) \in Seq(Terms)
    BY <1>0, <2>1, AppendProperties
  <2>3. box' \in Boxes /\ pasted' \in [Prompts -> Seq(Terms)]
        /\ (pasted' = pasted \/ pasted' = [pasted EXCEPT ![h[x].p] = Append(@, h[x].term)])
    BY <1>0, <1>5, <2>1, <2>2, BoxTypes, Typing DEF Paste
  <2>4. CASE Return(x)
    <3>1. TypeOK'
      BY <1>0, <1>5, <2>3, <2>4, ReturnJobs, Typing, StepTypes DEF Paste
    <3>2. Moved(x) /\ Kept(x) /\ Slotted(x) /\ Typed(x)
      BY <1>5, <2>1, <2>3, <2>4, ReturnJobs
         DEF Paste, Kept, Slotted, Typed, Holds, Carry, Recorded, OfShell, Gated
    <3> QED
      BY <1>5, <3>1, <3>2, OneMoves DEF Paste
  <2>5. CASE Go(x, "cr")
    <3>1. "cr" \in Places
      BY DEF Places, Gated
    <3>2. TypeOK'
      BY <1>0, <1>5, <2>3, <2>5, <3>1, GoJobs, Typing, StepTypes DEF Paste
    <3>3. Moved(x) /\ Kept(x) /\ Slotted(x) /\ Typed(x)
      BY <1>5, <2>1, <2>3, <2>5, <3>1, GoJobs
         DEF Paste, Kept, Slotted, Typed, Holds, Carry, Recorded, OfShell, Gated
    <3> QED
      BY <1>5, <3>2, <3>3, OneMoves DEF Paste
  <2> QED
    BY <1>5, <2>4, <2>5 DEF Paste
<1>6. CASE CarriageReturn(x)
  <2>1. box' \in Boxes
    BY <1>6, BoxTypes, Typing DEF CarriageReturn
  <2>2. TypeOK'
    BY <1>0, <1>6, <2>1, ReturnJobs, Typing, StepTypes DEF CarriageReturn
  <2>3. Moved(x) /\ Kept(x) /\ Slotted(x) /\ Typed(x)
    BY <1>6, ReturnJobs DEF CarriageReturn, Kept, Slotted, Typed, Holds, Carry, Recorded, OfShell, Gated
  <2> QED
    BY <1>6, <2>2, <2>3, OneMoves DEF CarriageReturn
<1> QED
  BY <1>1, <1>2, <1>3, <1>4, <1>5, <1>6

\* Command lines.
LEMMA ShellSteps ==
  ASSUME IInv, NEW x \in Threads, AuditShell(x) \/ CheckShell(x) \/ WriteShell(x)
  PROVE  IInv'
<1> USE DEF session, queue, record
<1>0. h[x] \in Jobs /\ h[x].p \in {0} \cup Prompts
      /\ used \in 0 .. MaxEvents /\ misled \in BOOLEAN /\ audit \subseteq Prompts
      /\ pasted \in [Prompts -> Seq(Terms)] /\ pending \in 0 .. Len(sent)
  BY Typing DEF Jobs, IInv, TypeOK
<1>1. /\ h[x].p \in DOMAIN sent /\ h[x].term = sent[h[x].p] /\ h[x].p \in Prompts /\ h[x].new
      /\ h[x].term \in Terms /\ pasted[h[x].p] = <<>> /\ pending # h[x].p
      /\ h[x].pc # "shellgate" => h[x].p \in audit
  BY SentPrompts DEF AuditShell, CheckShell, WriteShell, IInv, Meant, Fresh, Holds, Carry, Recorded, OfShell
<1>2. ASSUME Quit(x), UNCHANGED <<session, act, queue, sent, audit, pasted, box, misled, used>> PROVE IInv'
  BY <1>2, Typing, Quiet DEF Quit, Idle, Holds, Carry, IInv, TypeOK
<1>3. CASE AuditShell(x)
  <2>1. CASE Go(x, "shell") /\ audit' = audit \cup {h[x].p}
    <3>1. "shell" \in Places
      BY DEF Places, Gated
    <3>2. TypeOK'
      BY <1>0, <1>1, <1>3, <2>1, <3>1, GoJobs, Typing, StepTypes DEF AuditShell
    <3>3. Moved(x) /\ Kept(x) /\ Slotted(x) /\ Typed(x)
      BY <1>1, <1>3, <2>1, <3>1, GoJobs
         DEF AuditShell, Kept, Slotted, Typed, Holds, Carry, Recorded, OfShell, Gated
    <3> QED
      BY <1>3, <2>1, <3>2, <3>3, OneMoves DEF AuditShell
  <2> QED
    BY <1>2, <1>3, <2>1 DEF AuditShell
<1>4. CASE CheckShell(x)
  <2>1. CASE Go(x, "command")
    <3>1. "command" \in Places
      BY DEF Places, Gated
    <3>2. TypeOK'
      BY <1>0, <1>4, <2>1, <3>1, GoJobs, Typing, StepTypes DEF CheckShell
    <3>3. Moved(x) /\ Kept(x) /\ Slotted(x) /\ Typed(x)
      BY <1>1, <1>4, <2>1, <3>1, GoJobs
         DEF CheckShell, Kept, Slotted, Typed, Holds, Carry, Recorded, OfShell, Gated
    <3> QED
      BY <1>4, <3>2, <3>3, OneMoves DEF CheckShell
  <2> QED
    BY <1>2, <1>4, <2>1 DEF CheckShell
<1>5. CASE WriteShell(x)
  <2>1. Append(pasted[h[x].p], h[x].term) \in Seq(Terms)
    BY <1>0, <1>1, AppendProperties
  <2>2. box' \in Boxes /\ pasted' \in [Prompts -> Seq(Terms)]
        /\ (pasted' = pasted \/ pasted' = [pasted EXCEPT ![h[x].p] = Append(@, h[x].term)])
    BY <1>0, <1>1, <1>5, <2>1, BoxTypes, Typing DEF WriteShell
  <2>3. TypeOK'
    BY <1>0, <1>5, <2>2, ReturnJobs, Typing, StepTypes DEF WriteShell
  <2>4. Moved(x) /\ Kept(x) /\ Slotted(x) /\ Typed(x)
    BY <1>1, <1>5, <2>2, ReturnJobs
       DEF WriteShell, Kept, Slotted, Typed, Holds, Carry, Recorded, OfShell, Gated
  <2> QED
    BY <1>5, <2>3, <2>4, OneMoves DEF WriteShell
<1> QED
  BY <1>3, <1>4, <1>5

\* Reports of hooks.
LEMMA HookSteps ==
  ASSUME IInv, NEW x \in Threads,
         \/ \E state \in Activity \ {"Starting"} : Hook(x, state)
         \/ ApplyHook(x) \/ Flush(x)
  PROVE  IInv'
<1> USE DEF session, queue, record
<1>0. h[x] \in Jobs /\ used \in 0 .. MaxEvents /\ MaxEvents \in Nat /\ misled \in BOOLEAN
      /\ audit \subseteq Prompts /\ pasted \in [Prompts -> Seq(Terms)] /\ pending \in 0 .. Len(sent)
      /\ gen \in Nat /\ term \in 0 .. gen /\ 0 \in 0 .. gen /\ 0 \in 0 .. Len(sent)
  BY Typing, DispatchAssumption DEF IInv, TypeOK
<1>1. ASSUME NEW state \in Activity \ {"Starting"}, Hook(x, state) PROVE IInv'
  <2>0. PICK from \in 1 .. gen :
          h' = [h EXCEPT ![x] = [Idle EXCEPT !.pc = "hook", !.act = state, !.from = from,
                                             !.term = IF term = rt THEN term ELSE 0]]
    BY <1>1 DEF Hook
  <2> DEFINE job == [Idle EXCEPT !.pc = "hook", !.act = state, !.from = from,
                                 !.term = IF term = rt THEN term ELSE 0]
  <2>1. job \in Jobs /\ job.pc = "hook"
    <3>1. "hook" \in Places /\ from \in 0 .. gen /\ (IF term = rt THEN term ELSE 0) \in 0 .. gen
      BY <1>0 DEF Places
    <3> QED
      BY <3>1, Typing DEF Jobs, Idle
  <2>2. h' = [h EXCEPT ![x] = job] /\ used < MaxEvents /\ used' = used + 1
    BY <1>1, <2>0 DEF Hook
  <2>3. used' \in 0 .. MaxEvents
    BY <1>0, <2>2
  <2> HIDE DEF job
  <2> QED
    BY <1>0, <1>1, <2>1, <2>2, <2>3, Typing, Quiet DEF Hook, Holds, Carry
<1>2. CASE ApplyHook(x)
  <2>1. h[x].act \in Activity
    BY <1>0 DEF Jobs
  <2>2. act' \in Activity /\ pointer' \in Pointers /\ box' \in Boxes /\ misled' \in BOOLEAN
    <3>1. CASE UNCHANGED <<act, pointer, box, misled>>
      BY <1>0, <3>1, Typing
    <3>2. CASE /\ act' = h[x].act
               /\ pointer' = [pointer EXCEPT !.typed = @ /\ (h[x].act = act \/ h[x].act = "Waiting")]
               /\ box' = IF h[x].from = gen THEN Blank(h[x].act) ELSE box
               /\ misled' = ~InTurn(x)
      <4>1. pointer' \in Pointers
        BY <3>2, Typing DEF Pointers
      <4>2. box' \in Boxes
        BY <2>1, <3>2, BoxTypes, Typing
      <4> QED
        BY <1>0, <2>1, <3>2, <4>1, <4>2 DEF InTurn
    <3> QED
      BY <1>2, <3>1, <3>2 DEF ApplyHook
  <2>3. \E job \in Jobs : /\ h' = [h EXCEPT ![x] = job]
                          /\ job.pc \in {"idle", "flush"} /\ ~job.new
    <3>1. CASE Quit(x)
      BY <3>1, Typing DEF Quit, Idle
    <3>2. CASE h' = [h EXCEPT ![x] = [Idle EXCEPT !.pc = "flush", !.then = pointer.queued]]
      <4> DEFINE job == [Idle EXCEPT !.pc = "flush", !.then = pointer.queued]
      <4>1. "flush" \in Places /\ pointer.queued \in BOOLEAN
        BY Typing DEF Places, Pointers
      <4>2. job \in Jobs /\ job.pc = "flush" /\ ~job.new
        BY <4>1, Typing DEF Jobs, Idle
      <4> QED
        BY <3>2, <4>2
    <3> QED
      BY <1>2, <3>1, <3>2 DEF ApplyHook
  <2>4. UNCHANGED <<session, pending, sent, audit, pasted, used>>
    BY <1>2 DEF ApplyHook
  <2> QED
    BY <1>0, <2>2, <2>3, <2>4, Quiet DEF Holds, Carry
<1>3. CASE Flush(x)
  <2>0. ~h[x].new /\ h[x].pc = "flush" /\ UNCHANGED <<session, act, queue, record, used>>
    BY <1>3 DEF Flush, IInv, Meant
  <2>1. CASE Return(x)
    <3>1. TypeOK'
      BY <1>0, <2>0, <2>1, ReturnJobs, Typing, StepTypes
    <3>2. Moved(x) /\ Kept(x) /\ Slotted(x) /\ Typed(x)
      BY <2>0, <2>1, ReturnJobs DEF Kept, Slotted, Typed, Holds, Carry, Recorded, OfShell, Gated
    <3> QED
      BY <2>0, <3>1, <3>2, OneMoves
  <2>2. CASE /\ pending # 0 /\ CheckTarget(pending, FALSE, sent[pending], "Queue")
             /\ h' = [h EXCEPT ![x].pc = "gate", ![x].p = pending, ![x].term = term, ![x].when = "Queue"]
    <3> DEFINE job == [h[x] EXCEPT !.pc = "gate", !.p = pending, !.term = term, !.when = "Queue"]
    <3>1. job \in Jobs
      <4>1. "gate" \in Places /\ "Queue" \in Policy
        BY DEF Places, Policy
      <4> QED
        BY <1>0, <4>1 DEF Jobs
    <3>2. job.pc = "gate" /\ job.p = pending /\ job.term = term /\ job.new = h[x].new
      BY <1>0 DEF Jobs
    <3>3. h' = [h EXCEPT ![x] = job]
      BY <2>2
    <3> HIDE DEF job
    <3>4. h'[x] = job /\ h' \in [Threads -> Jobs] /\ Moved(x)
      BY <3>1, <3>3, Typing DEF Moved
    <3>5. pending \in DOMAIN sent /\ term = sent[pending]
      BY <2>2, SentPrompts DEF CheckTarget
    <3>6. TypeOK'
      BY <1>0, <2>0, <3>4, Typing, StepTypes
    <3>7. Kept(x) /\ Slotted(x) /\ Typed(x)
      BY <2>0, <3>2, <3>4, <3>5 DEF Kept, Slotted, Typed, Holds, Carry, Recorded, OfShell, Gated
    <3> QED
      BY <2>0, <3>4, <3>6, <3>7, OneMoves
  <2> QED
    BY <1>3, <2>1, <2>2 DEF Flush
<1> QED
  BY <1>1, <1>2, <1>3

\* Pointers to messages, and the user's keys.
LEMMA LineSteps ==
  ASSUME IInv, NEW x \in Threads,
         \/ Message(x) \/ Remember(x) \/ PreparePointer(x) \/ TakePointer(x) \/ TypeLine(x) \/ TypeReturn(x)
         \/ Key(x) \/ NoteInput(x) \/ WriteInput(x)
  PROVE  IInv'
<1> USE DEF session, queue, record
<1>0. h[x] \in Jobs /\ used \in 0 .. MaxEvents /\ MaxEvents \in Nat /\ misled \in BOOLEAN
      /\ gen \in Nat /\ term \in 0 .. gen /\ rt \in 0 .. gen /\ "Working" \in Activity
  BY Typing, DispatchAssumption DEF IInv, TypeOK, Activity
<1>1. ASSUME NEW job \in Jobs, job.pc \notin Holds, job.pc # "flush", h' = [h EXCEPT ![x] = job],
             UNCHANGED <<session, pending, sent, audit, pasted, misled>>, act' \in Activity,
             pointer' \in Pointers, box' \in Boxes, used' \in 0 .. MaxEvents
      PROVE  IInv'
  BY <1>0, <1>1, Quiet
<1>2. \A place \in {"remember", "pointer", "line", "linecr", "key", "hint", "input"} :
        place \in Places /\ place \notin Holds /\ place # "flush"
  BY DEF Places, Holds, Carry, Gated, Writing
<1>3. ASSUME NEW place \in {"remember", "pointer", "line", "linecr", "key"}, Go(x, place),
             UNCHANGED <<session, pending, sent, audit, pasted, misled>>, act' \in Activity,
             pointer' \in Pointers, box' \in Boxes, used' \in 0 .. MaxEvents
      PROVE  IInv'
  BY <1>1, <1>2, <1>3, GoJobs
<1>4. ASSUME Quit(x),
             UNCHANGED <<session, pending, sent, audit, pasted, misled>>, act' \in Activity,
             pointer' \in Pointers, box' \in Boxes, used' \in 0 .. MaxEvents
      PROVE  IInv'
  <2>1. Idle.pc = "idle" /\ "idle" \notin Holds
    BY DEF Idle, Holds, Carry
  <2> QED
    BY <1>1, <1>4, <2>1, Typing DEF Quit
<1>5. ASSUME NEW place \in {"hint", "input"}, NEW t \in 0 .. gen,
             h' = [h EXCEPT ![x] = [Idle EXCEPT !.pc = place, !.term = t]],
             UNCHANGED <<session, pending, sent, audit, pasted, misled>>, act' \in Activity,
             pointer' \in Pointers, box' \in Boxes, used' \in 0 .. MaxEvents
      PROVE  IInv'
  <2>1. [Idle EXCEPT !.pc = place, !.term = t] \in Jobs /\ [Idle EXCEPT !.pc = place, !.term = t].pc = place
    BY <1>2, Typing DEF Jobs, Idle
  <2> QED
    BY <1>1, <1>2, <1>5, <2>1
<1>6. CASE Message(x)
  <2>1. UNCHANGED <<session, act, queue, record>> /\ used < MaxEvents /\ used' = used + 1
        /\ (Go(x, "pointer") \/ Go(x, "remember"))
    BY <1>6 DEF Message
  <2>2. used' \in 0 .. MaxEvents
    BY <1>0, <2>1
  <2> QED
    BY <1>3, <2>1, <2>2, Typing
<1>7. CASE Remember(x)
  <2>1. pointer' \in Pointers
    BY <1>7, Typing DEF Remember, Pointers
  <2> QED
    BY <1>0, <1>4, <1>7, <2>1, Typing DEF Remember
<1>8. CASE PreparePointer(x)
  BY <1>0, <1>4, <1>5, <1>8, Typing DEF PreparePointer
<1>9. CASE TakePointer(x)
  <2>1. pointer' \in Pointers /\ act' \in Activity
    <3>1. pointer' \in {pointer, [pointer EXCEPT !.queued = TRUE], [queued |-> FALSE, typed |-> TRUE]}
          /\ act' \in {act, "Working"}
      BY <1>9 DEF TakePointer
    <3>2. [pointer EXCEPT !.queued = TRUE] \in Pointers /\ [queued |-> FALSE, typed |-> TRUE] \in Pointers
      BY Typing DEF Pointers
    <3> QED
      BY <1>0, <3>1, <3>2, Typing
  <2> QED
    BY <1>0, <1>3, <1>4, <1>9, <2>1, Typing DEF TakePointer
<1>10. CASE TypeLine(x)
  BY <1>0, <1>3, <1>4, <1>10, BoxTypes, Typing DEF TypeLine
<1>11. CASE TypeReturn(x)
  BY <1>0, <1>4, <1>11, BoxTypes, Typing DEF TypeReturn
<1>12. CASE Key(x)
  <2>1. UNCHANGED <<session, act, queue, record>> /\ used < MaxEvents /\ used' = used + 1
        /\ h' = [h EXCEPT ![x] = [Idle EXCEPT !.pc = "input", !.term = rt]]
    BY <1>12 DEF Key
  <2>2. used' \in 0 .. MaxEvents
    BY <1>0, <2>1
  <2> QED
    BY <1>0, <1>5, <2>1, <2>2, Typing
<1>13. CASE NoteInput(x)
  <2>1. pointer' \in Pointers /\ act' \in Activity
    <3>1. pointer' \in {pointer, [pointer EXCEPT !.typed = FALSE]} /\ act' \in {act, "Working"}
      BY <1>13 DEF NoteInput, AfterInput
    <3> QED
      BY <1>0, <3>1, Typing DEF Pointers
  <2> QED
    BY <1>0, <1>3, <1>13, <2>1, Typing DEF NoteInput
<1>14. CASE WriteInput(x)
  BY <1>0, <1>4, <1>14, BoxTypes, Typing DEF WriteInput
<1> QED
  BY <1>6, <1>7, <1>8, <1>9, <1>10, <1>11, <1>12, <1>13, <1>14

\* A prompt or a command is sent: it is the next one, with the thread that sent it.
LEMMA SendSteps ==
  ASSUME IInv, NEW x \in Threads, SendShell(x) \/ \E when \in Policy : Send(x, when)
  PROVE  IInv'
<1> USE DEF session, queue, record
<1> DEFINE n == Len(sent) + 1
           Wide == [pc : Places, p : 0 .. n, new : BOOLEAN, term : 0 .. gen, when : Policy,
                    act : Activity, from : 0 .. gen, cr : BOOLEAN, then : BOOLEAN]
<1>1. PICK job : /\ h' = [h EXCEPT ![x] = job] /\ job.pc \in {"gate", "shellgate"} /\ job.new
                 /\ job.p = n /\ job.term = term /\ job \in Wide
  <2>1. "Now" \in Policy /\ "gate" \in Places /\ "shellgate" \in Places /\ "Idle" \in Activity
        /\ "idle" \in Places /\ n \in 0 .. n /\ 0 \in 0 .. n /\ term \in 0 .. gen /\ 0 \in 0 .. gen
    BY Typing DEF Policy, Places, Activity, IInv, TypeOK
  <2>2. ASSUME NEW when \in Policy, Send(x, when)
        PROVE  h' = [h EXCEPT ![x] = [Idle EXCEPT !.pc = "gate", !.p = n, !.new = TRUE,
                                                  !.term = term, !.when = when]]
    BY <2>2 DEF Send
  <2>3. ASSUME SendShell(x)
        PROVE  h' = [h EXCEPT ![x] = [Idle EXCEPT !.pc = "shellgate", !.p = n, !.new = TRUE, !.term = term]]
    BY <2>3 DEF SendShell
  <2>0. Idle \in Wide
    <3> HIDE DEF n
    <3> QED
      BY <2>1 DEF Idle, Wide
  <2> HIDE DEF n, Wide
  <2>4. ASSUME NEW when \in Policy, Send(x, when)
        PROVE  \E job : /\ h' = [h EXCEPT ![x] = job] /\ job.pc \in {"gate", "shellgate"} /\ job.new
                        /\ job.p = n /\ job.term = term /\ job \in Wide
    <3> DEFINE job == [Idle EXCEPT !.pc = "gate", !.p = n, !.new = TRUE, !.term = term, !.when = when]
    <3>1. job \in Wide /\ job.pc \in {"gate", "shellgate"} /\ job.new /\ job.p = n /\ job.term = term
      BY <2>0, <2>1 DEF Wide
    <3> HIDE DEF job
    <3>2. h' = [h EXCEPT ![x] = job]
      BY <2>2, <2>4 DEF job
    <3> QED
      BY <3>1, <3>2
  <2>5. ASSUME SendShell(x)
        PROVE  \E job : /\ h' = [h EXCEPT ![x] = job] /\ job.pc \in {"gate", "shellgate"} /\ job.new
                        /\ job.p = n /\ job.term = term /\ job \in Wide
    <3> DEFINE job == [Idle EXCEPT !.pc = "shellgate", !.p = n, !.new = TRUE, !.term = term]
    <3>1. job \in Wide /\ job.pc \in {"gate", "shellgate"} /\ job.new /\ job.p = n /\ job.term = term
      BY <2>0, <2>1 DEF Wide
    <3> HIDE DEF job
    <3>2. h' = [h EXCEPT ![x] = job]
      BY <2>3, <2>5 DEF job
    <3> QED
      BY <3>1, <3>2
  <2> QED
    BY <2>4, <2>5
<1>2. /\ sent' = Append(sent, term) /\ Len(sent) < MaxPrompts /\ term # 0
      /\ UNCHANGED <<session, act, queue, audit, pasted, box, misled, used>>
  BY DEF Send, SendShell, CheckTarget
<1>3. /\ n \in Nat /\ n \in Prompts /\ n \notin DOMAIN sent /\ gen \in 1 .. MaxTerms
      /\ term \in Terms /\ term \in 0 .. gen /\ Len(sent) \in Nat /\ DOMAIN sent = 1 .. Len(sent)
      /\ sent \in Seq(Terms)
  <2>1. /\ Len(sent) \in Nat /\ DOMAIN sent = 1 .. Len(sent) /\ sent \in Seq(Terms)
        /\ gen \in 1 .. MaxTerms /\ term \in 0 .. gen /\ MaxTerms \in Nat /\ MaxPrompts \in Nat
    BY SentPrompts, DispatchAssumption DEF IInv, TypeOK, Terms
  <2>2. term \in 1 .. MaxTerms
    BY <1>2, <2>1
  <2>3. n \in Nat /\ n \in 1 .. MaxPrompts /\ n \notin 1 .. Len(sent)
    BY <1>2, <2>1
  <2> QED
    BY <2>1, <2>2, <2>3 DEF Prompts, Terms
<1>4. /\ sent' \in Seq(Terms) /\ Len(sent') = n /\ sent'[n] = term /\ DOMAIN sent' = 1 .. n
      /\ \A p \in DOMAIN sent : sent'[p] = sent[p]
  <2>1. Append(sent, term) \in Seq(Terms) /\ Len(Append(sent, term)) = Len(sent) + 1
        /\ Append(sent, term)[Len(sent) + 1] = term
        /\ \A p \in 1 .. Len(sent) : Append(sent, term)[p] = sent[p]
    BY <1>3, AppendProperties
  <2> QED
    BY <1>2, <1>3, <2>1, LenProperties
<1> HIDE DEF n
<1>5. DOMAIN sent \subseteq DOMAIN sent' /\ \A p \in DOMAIN sent' : p = n \/ p \in DOMAIN sent
  <2>1. n = Len(sent) + 1
    BY DEF n
  <2> QED
    BY <1>3, <1>4, <2>1
<1>6. pasted[n] = <<>> /\ pending # n /\ n # 0 /\ \A y \in Threads : h[y].pc \in Holds => h[y].p # n
  BY <1>3, SentPrompts, Distinct DEF IInv, Unsent, Meant
<1>7. h \in [Threads -> Jobs] /\ h'[x] = job /\ \A y \in Threads \ {x} : h'[y] = h[y]
  BY <1>1, Typing
<1>8. TypeOK'
  <2>1. 0 .. Len(sent) \subseteq 0 .. n
    BY <1>3 DEF n
  <2>2. h' \in [Threads -> Wide]
    <3>1. \A y \in Threads : h[y] \in Wide
      BY <1>7, <2>1 DEF Jobs
    <3> QED
      BY <1>1, <1>7, <3>1
  <2> QED
    BY <1>2, <1>4, <2>1, <2>2 DEF IInv, TypeOK, Places
<1>9. Meant'
  <2> SUFFICES ASSUME NEW y \in Threads
               PROVE  /\ h'[y].pc \in Holds => h'[y].p \in DOMAIN sent' /\ h'[y].term = sent'[h'[y].p]
                      /\ h'[y].pc \in Recorded => h'[y].p \in audit'
                      /\ h'[y].pc = "flush" => ~h'[y].new
                      /\ h'[y].pc \in OfShell => h'[y].new
    BY DEF Meant
  <2>1. CASE y = x
    <3>1. n \in 1 .. n
      BY <1>3, <1>6
    <3> QED
      BY <1>1, <1>4, <1>7, <2>1, <3>1 DEF Recorded
  <2>2. CASE y # x
    BY <1>2, <1>4, <1>5, <1>7, <2>2 DEF IInv, Meant
  <2> QED
    BY <2>1, <2>2
<1>10. Fresh'
  BY <1>1, <1>2, <1>6, <1>7 DEF IInv, Fresh, Holds
<1>11. Alone'
  BY <1>1, <1>7 DEF IInv, Alone, Gated
<1>12. Taken' /\ Waiting' /\ Audited'
  BY <1>1, <1>2, <1>7 DEF IInv, Taken, Waiting, Audited
<1>13. Unsent' /\ TypedOnce'
  <2>1. Len(sent') <= MaxPrompts
    BY <1>2, <1>3, <1>4, DispatchAssumption DEF n
  <2> QED
    BY <1>2, <1>4, <1>5, <1>6, <2>1 DEF IInv, Unsent, TypedOnce
<1> QED
  BY <1>8, <1>9, <1>10, <1>11, <1>12, <1>13 DEF IInv

\* The life of the terminal: the slot stays or is emptied.
LEMMA LifeSteps ==
  ASSUME IInv, RuntimeGone \/ RecordExit \/ Restart \/ Install \/ Delete
  PROVE  IInv'
<1> USE DEF session, queue, record
<1>1. UNCHANGED <<h, sent, audit, pasted, used, kind>> /\ pending' \in {0, pending}
  BY DEF RuntimeGone, RecordExit, Restart, Install, Delete, DropQueue
<1>2. h \in [Threads -> Jobs] /\ gen \in 1 .. MaxTerms /\ term \in 0 .. gen /\ rt \in 0 .. gen
      /\ MaxTerms \in Nat /\ pending \in 0 .. Len(sent) /\ Len(sent) \in Nat
  BY Typing, DispatchAssumption DEF IInv, TypeOK, Terms
<1>3. gen' \in 1 .. MaxTerms /\ gen' >= gen /\ term' \in 0 .. gen' /\ rt' \in 0 .. gen'
      /\ st' \in {"starting", "running", "ended", "gone"}
  <2>1. CASE Restart
    BY <1>2, <2>1 DEF Restart
  <2>2. CASE ~Restart
    BY <1>2, <2>2 DEF RuntimeGone, RecordExit, Install, Delete, IInv, TypeOK
  <2> QED
    BY <2>1, <2>2
<1>4. act' \in Activity /\ pointer' \in Pointers /\ box' \in Boxes /\ misled' \in BOOLEAN
  <2>1. "Starting" \in Activity /\ [queued |-> FALSE, typed |-> FALSE] \in Pointers /\ misled \in BOOLEAN
    BY DEF Activity, Pointers, IInv, TypeOK
  <2>2. /\ act' \in {act, "Starting"} /\ pointer' \in {pointer, [queued |-> FALSE, typed |-> FALSE]}
        /\ box' \in {box, Blank("Starting")} /\ misled' \in {misled, FALSE}
    BY DEF RuntimeGone, RecordExit, Restart, Install, Delete
  <2> QED
    BY <2>1, <2>2, BoxTypes, Typing
<1>5. TypeOK'
  <2>1. \A y \in Threads : h[y] \in [pc : Places, p : 0 .. Len(sent), new : BOOLEAN, term : 0 .. gen',
                                     when : Policy, act : Activity, from : 0 .. gen', cr : BOOLEAN, then : BOOLEAN]
    <3>1. 0 .. gen \subseteq 0 .. gen'
      BY <1>2, <1>3
    <3> QED
      BY <1>2, <3>1 DEF Jobs
  <2>2. h' \in [Threads -> [pc : Places, p : 0 .. Len(sent), new : BOOLEAN, term : 0 .. gen',
                            when : Policy, act : Activity, from : 0 .. gen', cr : BOOLEAN, then : BOOLEAN]]
    BY <1>1, <1>2, <2>1
  <2> QED
    BY <1>1, <1>2, <1>3, <1>4, <2>2 DEF IInv, TypeOK, Places, Boxes, Pointers, Terms
<1>6. \A y \in Threads : h[y].pc \in Holds => h[y].p # 0
  BY SentPrompts DEF IInv, Meant
<1>7. Meant' /\ Alone' /\ Unsent' /\ TypedOnce'
  BY <1>1 DEF IInv, Meant, Alone, Unsent, TypedOnce
<1>8. Fresh' /\ Taken'
  BY <1>1, <1>6 DEF IInv, Fresh, Taken, Holds, Carry
<1>9. Waiting' /\ Audited'
  BY <1>1, Distinct DEF IInv, Waiting, Audited
<1> QED
  BY <1>5, <1>7, <1>8, <1>9 DEF IInv

-----------------------------------------------------------------------------
(* What is submitted: the input of a terminal since its agent reported.    *)

\* A session's terminal is its newest, and while it starts or has ended it has none; no
\* thread is at the terminal that is being spawned.
Living ==
  /\ term \in {0, gen} /\ rt \in {0, gen}
  /\ st # "running" => term = 0
  /\ st \in {"starting", "ended"} => rt = 0
  /\ st = "starting" => \A x \in Threads : h[x].term # gen

\* A shell has no hooks, so it is never idle.
Reporting ==
  /\ kind = "Shell" => act # "Idle"
  /\ \A x \in Threads :
       /\ h[x].pc \in {"shellgate", "shell"} => kind = "Shell"
       /\ h[x].pc = "hook" => kind = "Agent"

\* One writer of a terminal.
Sole == \A x, y \in Threads :
  h[x].pc \in Writing /\ h[y].pc \in Writing /\ h[x].term = h[y].term => x = y

\* The newest terminal is installed, and its agent reported last and in its turn.
Clear == term = gen /\ rt = gen /\ ~misled

\* An agent that is idle was given nothing since it said so, and nobody writes to it.
Resting ==
  /\ st = "starting" /\ ~misled => act # "Idle"
  /\ Clear /\ act = "Idle" => box = Blank("Idle") /\ WriterFree(gen)

\* What is in the input while a thread composes what it will submit.
Composing == \A x \in Threads :
  /\ h[x].pc \in {"hint", "line", "linecr"} => h[x].p = 0 /\ h[x].term # 0
  /\ Clear /\ h[x].term = gen =>
       /\ h[x].pc = "line" \/ (h[x].pc = "paste" /\ h[x].cr) => box = Blank("Idle")
       /\ h[x].pc = "cr" => box = [hook |-> "Idle", p |-> h[x].p, text |-> "prompt"]
       /\ h[x].pc = "linecr" => box = [hook |-> "Idle", p |-> 0, text |-> "line"]

Own == Living /\ Reporting /\ Sole /\ Resting /\ Composing

\* Where the thread that moved has got to.
Placed(x) ==
  /\ st = "starting" => h'[x].term # gen
  /\ h'[x].pc \in {"shellgate", "shell"} => kind = "Shell"
  /\ h'[x].pc = "hook" => kind = "Agent"
  /\ h'[x].pc \in Writing => \/ h[x].pc \in Writing /\ h'[x].term = h[x].term
                             \/ WriterFree(h'[x].term)
  /\ h'[x].pc \in {"hint", "line", "linecr"} => h'[x].p = 0 /\ h'[x].term # 0

\* It was the newest agent's report, and nobody writes to that agent's terminal.
Heard(x) ==
  /\ kind = "Agent" /\ st # "starting" /\ WriterFree(gen)
  /\ box' = Blank(act') /\ h'[x].pc \notin Writing

\* What it did to the input of the newest terminal, and to the activity of its agent.
Touched(x) ==
  /\ misled => misled' \/ Heard(x)
  /\ kind = "Shell" => act' \in {act, "Working"}
  /\ \/ box' = box
     \/ h[x].pc \in Writing /\ h[x].term = gen
     \/ misled' \/ WriterFree(gen)
  /\ \/ act' # "Idle" \/ misled'
     \/ /\ act = "Idle"
        /\ \/ h[x].pc \in Writing /\ h[x].term = gen
           \/ ~Clear \/ (box' = box /\ ~(h'[x].pc \in Writing /\ h'[x].term = gen))
     \/ Heard(x)

\* What it composed.
Composed(x) ==
  Clear /\ ~misled' /\ h'[x].term = gen =>
    /\ h'[x].pc = "line" \/ (h'[x].pc = "paste" /\ h'[x].cr) => box' = Blank("Idle")
    /\ h'[x].pc = "cr" => box' = [hook |-> "Idle", p |-> h'[x].p, text |-> "prompt"]
    /\ h'[x].pc = "linecr" => box' = [hook |-> "Idle", p |-> 0, text |-> "line"]

LEMMA OneWrites ==
  ASSUME Own, NEW x \in Threads, Moved(x), UNCHANGED session, Placed(x), Touched(x), Composed(x)
  PROVE  Own'
<1> USE DEF session
<1>1. Living'
  BY DEF Own, Living, Moved, Placed
<1>2. Sole'
  BY DEF Own, Sole, Moved, Placed, WriterFree
<1>3. Reporting'
  BY DEF Own, Reporting, Moved, Placed, Touched, Resting, Heard
<1>4. Resting'
  <2>1. st = "starting" /\ ~misled' => act' # "Idle"
    BY DEF Own, Resting, Touched, Heard
  <2>2. ASSUME Clear', act' = "Idle" PROVE box' = Blank("Idle") /\ WriterFree(gen)'
    <3>1. Heard(x) \/ (Clear /\ ~misled')
      BY <2>2 DEF Clear, Touched
    <3>2. CASE act = "Idle" /\ ~(h[x].pc \in Writing /\ h[x].term = gen)
               /\ box' = box /\ ~(h'[x].pc \in Writing /\ h'[x].term = gen) /\ Clear
      BY <3>1, <3>2 DEF Own, Resting, WriterFree, Moved
    <3>3. CASE act = "Idle" /\ h[x].pc \in Writing /\ h[x].term = gen /\ Clear
      BY <3>3 DEF Own, Resting, WriterFree
    <3>4. CASE Heard(x)
      BY <2>2, <3>4 DEF Heard, WriterFree, Moved
    <3> QED
      BY <2>2, <3>1, <3>2, <3>3, <3>4 DEF Touched
  <2> QED
    BY <2>1, <2>2 DEF Resting
<1>5. Composing'
  <2> SUFFICES ASSUME NEW y \in Threads
               PROVE  /\ h'[y].pc \in {"hint", "line", "linecr"} => h'[y].p = 0 /\ h'[y].term # 0
                      /\ Clear' /\ h'[y].term = gen =>
                           /\ h'[y].pc = "line" \/ (h'[y].pc = "paste" /\ h'[y].cr) => box' = Blank("Idle")
                           /\ h'[y].pc = "cr" => box' = [hook |-> "Idle", p |-> h'[y].p, text |-> "prompt"]
                           /\ h'[y].pc = "linecr" => box' = [hook |-> "Idle", p |-> 0, text |-> "line"]
    BY DEF Composing, Blank
  <2>1. CASE y = x
    BY <2>1 DEF Placed, Composed, Clear, Touched, Heard, Writing
  <2>2. CASE y # x
    <3>1. h'[y] = h[y] /\ (h[y].pc \in {"hint", "line", "linecr"} => h[y].p = 0 /\ h[y].term # 0)
      BY <2>2 DEF Moved, Own, Composing
    <3>2. ASSUME Clear', h[y].term = gen, h[y].pc \in {"line", "paste", "cr", "linecr"} PROVE box' = box /\ Clear
      <4>1. h[y].pc \in Writing
        BY <3>2 DEF Writing
      <4>2. ~WriterFree(gen) /\ ~(h[x].pc \in Writing /\ h[x].term = gen)
        BY <2>2, <3>2, <4>1 DEF WriterFree, Own, Sole
      <4> QED
        BY <3>2, <4>2 DEF Clear, Touched, Heard
    <3> QED
      BY <3>1, <3>2 DEF Own, Composing
  <2> QED
    BY <2>1, <2>2
<1> QED
  BY <1>1, <1>2, <1>3, <1>4, <1>5 DEF Own

\* A thread that goes where it neither writes nor reports.
LEMMA Aside ==
  ASSUME Own, NEW x \in Threads, Moved(x), UNCHANGED <<session, act, box, misled>>,
         h'[x].pc \notin Writing \cup {"hint", "hook", "shellgate", "shell"},
         st = "starting" => h'[x].term # gen
  PROVE  Own'
<1>1. Placed(x) /\ Touched(x) /\ Composed(x)
  BY DEF Placed, Touched, Composed, Writing
<1> QED
  BY <1>1, OneWrites

\* A thread that wrote, or did not, and is done.
LEMMA Back ==
  ASSUME IInv, NEW x \in Threads, Return(x) \/ Quit(x)
  PROVE  Moved(x) /\ h'[x].pc \in {"idle", "pointer"} /\ h'[x].term = 0 /\ gen # 0
<1>1. h' = [h EXCEPT ![x] = Idle] \/ h' = [h EXCEPT ![x] = [Idle EXCEPT !.pc = "pointer"]]
  BY DEF Return, Quit
<1> QED
  BY <1>1, Typing, ReturnJobs DEF Idle

LEMMA Finished ==
  ASSUME IInv, Own, NEW x \in Threads, Return(x) \/ Quit(x), UNCHANGED <<session, act, misled>>,
         box' = box \/ (h[x].pc \in Writing /\ h[x].term = gen)
  PROVE  Own'
<1>1. Moved(x) /\ h'[x].pc \in {"idle", "pointer"} /\ h'[x].term = 0 /\ gen # 0
  BY Back
<1>2. Placed(x) /\ Touched(x) /\ Composed(x)
  BY <1>1 DEF Placed, Touched, Composed, Writing
<1> QED
  BY <1>1, <1>2, OneWrites

\* Prompts.
LEMMA OwnPrompts ==
  ASSUME IInv, Own, NEW x \in Threads,
         \/ EnterGate(x) \/ Audit(x) \/ Decide(x) \/ TakeWriter(x) \/ Paste(x) \/ CarriageReturn(x)
  PROVE  Own'
<1> USE DEF session, queue, record
<1>0. h[x] \in Jobs /\ gen # 0 /\ h[x].p \in {0} \cup Prompts /\ (st = "starting" => h[x].term # gen)
  BY Typing DEF Jobs, Own, Living
<1>1. ASSUME NEW place \in {"audit", "decide", "writer"}, Go(x, place), UNCHANGED <<session, act, box, misled>>
      PROVE  Own'
  <2>1. place \in Places /\ place \notin Writing \cup {"hint", "hook", "shellgate", "shell"}
    BY DEF Places, Gated, Writing
  <2> QED
    BY <1>0, <1>1, <2>1, GoJobs, Aside
<1>2. CASE EnterGate(x)
  BY <1>1, <1>2, Finished DEF EnterGate
<1>3. CASE Audit(x)
  BY <1>1, <1>3, Finished DEF Audit
<1>4. CASE Decide(x)
  BY <1>1, <1>4, Finished DEF Decide
<1>5. CASE TakeWriter(x)
  <2>1. CASE Return(x) /\ UNCHANGED act
    BY <1>5, <2>1, Finished DEF TakeWriter
  <2>2. ASSUME act' = (IF act = "Idle" THEN "Working" ELSE act), WriterFree(h[x].term),
               NEW submit \in BOOLEAN, h' = [h EXCEPT ![x].pc = "paste", ![x].cr = submit /\ act = "Idle"]
        PROVE  Own'
    <3>1. h'[x].pc = "paste" /\ h'[x].term = h[x].term /\ (h'[x].cr => act = "Idle") /\ Moved(x)
      BY <1>0, <2>2, Typing DEF Jobs, Moved
    <3>2. UNCHANGED <<session, box, misled>>
      BY <1>5 DEF TakeWriter
    <3>3. Placed(x) /\ Touched(x) /\ Composed(x)
      BY <1>0, <2>2, <3>1, <3>2 DEF Placed, Touched, Composed, Own, Resting, Blank
    <3> QED
      BY <3>1, <3>2, <3>3, OneWrites
  <2> QED
    BY <1>5, <2>1, <2>2 DEF TakeWriter
<1>6. CASE Paste(x)
  <2>1. h[x].pc = "paste" /\ h[x].pc \in Writing /\ (h[x].term # gen => box' = box)
    BY <1>6 DEF Paste, Writing, Enter
  <2>2. CASE Return(x)
    BY <1>6, <2>1, <2>2, Finished DEF Paste
  <2>3. CASE h[x].cr /\ Go(x, "cr") /\ Enter(h[x].term, "prompt", h[x].p)
    <3>1. "cr" \in Places
      BY DEF Places, Gated
    <3>2. h'[x].pc = "cr" /\ h'[x].term = h[x].term /\ h'[x].p = h[x].p /\ Moved(x)
      BY <2>3, <3>1, GoJobs
    <3>3. ASSUME h[x].term = gen, box = Blank("Idle")
          PROVE  box' = [hook |-> "Idle", p |-> h[x].p, text |-> "prompt"]
      BY <2>3, <3>3 DEF Enter, Blank
    <3>4. Composed(x)
      BY <2>1, <2>3, <3>2, <3>3 DEF Composed, Own, Composing
    <3>5. Placed(x) /\ Touched(x)
      BY <1>0, <1>6, <2>1, <3>2 DEF Paste, Placed, Touched
    <3> QED
      BY <1>6, <3>2, <3>4, <3>5, OneWrites DEF Paste
  <2> QED
    BY <1>6, <2>2, <2>3 DEF Paste
<1>7. CASE CarriageReturn(x)
  <2>1. h[x].pc \in Writing /\ (h[x].term # gen => box' = box)
    BY <1>7 DEF CarriageReturn, Writing, Submit
  <2> QED
    BY <1>7, <2>1, Finished DEF CarriageReturn
<1> QED
  BY <1>2, <1>3, <1>4, <1>5, <1>6, <1>7

\* Command lines, and what is sent.
LEMMA OwnShell ==
  ASSUME IInv, Own, NEW x \in Threads,
         \/ AuditShell(x) \/ CheckShell(x) \/ WriteShell(x) \/ SendShell(x) \/ \E when \in Policy : Send(x, when)
  PROVE  Own'
<1> USE DEF session, queue, record
<1>0. h[x] \in Jobs /\ gen # 0 /\ (st = "starting" => h[x].term # gen /\ term # gen)
  BY Typing DEF Own, Living
<1>1. CASE AuditShell(x)
  <2>1. CASE Go(x, "shell")
    <3>1. "shell" \in Places /\ "shell" \notin Writing
      BY DEF Places, Gated, Writing
    <3>2. h'[x].pc = "shell" /\ h'[x].term = h[x].term /\ Moved(x)
      BY <2>1, <3>1, GoJobs
    <3>3. Placed(x) /\ Touched(x) /\ Composed(x)
      BY <1>0, <1>1, <3>1, <3>2 DEF AuditShell, Placed, Touched, Composed, Own, Reporting
    <3> QED
      BY <1>1, <3>2, <3>3, OneWrites DEF AuditShell
  <2> QED
    BY <1>1, <2>1, Finished DEF AuditShell
<1>2. CASE CheckShell(x)
  <2>1. CASE Go(x, "command")
    <3>1. "command" \in Places
      BY DEF Places, Gated
    <3>2. h'[x].pc = "command" /\ h'[x].term = h[x].term /\ Moved(x)
      BY <2>1, <3>1, GoJobs
    <3>3. Placed(x) /\ Touched(x) /\ Composed(x)
      BY <1>0, <1>2, <3>2 DEF CheckShell, Placed, Touched, Composed, Own, Reporting
    <3> QED
      BY <1>2, <3>2, <3>3, OneWrites DEF CheckShell
  <2> QED
    BY <1>2, <2>1, Finished DEF CheckShell
<1>3. CASE WriteShell(x)
  <2>1. h[x].pc \in Writing /\ (h[x].term # gen => box' = box)
    BY <1>3 DEF WriteShell, Writing, Enter
  <2> QED
    BY <1>3, <2>1, Finished DEF WriteShell
<1>4. CASE SendShell(x)
  <2>1. h'[x].pc = "shellgate" /\ h'[x].term = term /\ Moved(x) /\ "shellgate" \notin Writing /\ kind = "Shell"
        /\ UNCHANGED <<session, act, box, misled>>
    BY <1>4, Typing DEF SendShell, Idle, Moved, Writing
  <2>2. Placed(x) /\ Touched(x) /\ Composed(x)
    BY <1>0, <2>1 DEF Placed, Touched, Composed
  <2> QED
    BY <2>1, <2>2, OneWrites
<1>5. ASSUME NEW when \in Policy, Send(x, when) PROVE Own'
  <2>1. h'[x].pc = "gate" /\ h'[x].term = term /\ Moved(x) /\ "gate" \notin Writing
        /\ UNCHANGED <<session, act, box, misled>>
    BY <1>5, Typing DEF Send, Idle, Moved, Writing
  <2> QED
    BY <1>0, <2>1, Aside
<1> QED
  BY <1>1, <1>2, <1>3, <1>4, <1>5

\* Reports of hooks.
LEMMA OwnHooks ==
  ASSUME IInv, Own, NEW x \in Threads,
         \/ \E state \in Activity \ {"Starting"} : Hook(x, state)
         \/ ApplyHook(x) \/ Flush(x)
  PROVE  Own'
<1> USE DEF session, queue, record
<1>0. h[x] \in Jobs /\ gen # 0 /\ (st = "starting" => h[x].term # gen /\ term # gen) /\ term \in {0, gen}
  BY Typing DEF Own, Living
<1>1. ASSUME NEW state \in Activity \ {"Starting"}, Hook(x, state) PROVE Own'
  <2>1. /\ h'[x].pc = "hook" /\ h'[x].term \in {0, term} /\ Moved(x)
        /\ "hook" \notin Writing /\ kind = "Agent" /\ UNCHANGED <<session, act, box, misled>>
    BY <1>1, Typing DEF Hook, Idle, Moved, Writing
  <2>2. Placed(x) /\ Touched(x) /\ Composed(x)
    BY <1>0, <2>1 DEF Placed, Touched, Composed
  <2> QED
    BY <2>1, <2>2, OneWrites
<1>2. CASE ApplyHook(x)
  <2>1. CASE Quit(x) /\ UNCHANGED <<act, box, misled>>
    BY <1>2, <2>1, Finished DEF ApplyHook
  <2>2. CASE /\ st # "gone" /\ act' = h[x].act /\ misled' = ~InTurn(x)
             /\ box' = (IF h[x].from = gen THEN Blank(h[x].act) ELSE box)
    <3>1. kind = "Agent" /\ (h[x].term = 0 \/ WriterFree(h[x].term))
      BY <1>2 DEF ApplyHook, Own, Reporting
    <3>2. Moved(x) /\ h'[x].pc \in {"idle", "flush"} /\ h'[x].term = 0
      <4>1. \/ h' = [h EXCEPT ![x] = Idle]
            \/ h' = [h EXCEPT ![x] = [Idle EXCEPT !.pc = "flush", !.then = pointer.queued]]
        BY <1>2 DEF ApplyHook, Quit
      <4>2. ASSUME NEW job, h' = [h EXCEPT ![x] = job] PROVE Moved(x) /\ h'[x] = job
        BY <4>2, Typing DEF Moved
      <4>3. CASE h' = [h EXCEPT ![x] = Idle]
        BY <4>2, <4>3 DEF Idle
      <4>4. CASE h' = [h EXCEPT ![x] = [Idle EXCEPT !.pc = "flush", !.then = pointer.queued]]
        <5> DEFINE job == [Idle EXCEPT !.pc = "flush", !.then = pointer.queued]
        <5>1. Moved(x) /\ h'[x] = job
          BY <4>2, <4>4
        <5>2. job.pc = "flush" /\ job.term = 0
          BY DEF Idle
        <5> QED
          BY <5>1, <5>2
      <4> QED
        BY <4>1, <4>3, <4>4
    <3>3. ~misled' => Heard(x)
      <4>1. "idle" \notin Writing /\ "flush" \notin Writing
        BY DEF Writing
      <4> QED
        BY <1>0, <2>2, <3>1, <3>2, <4>1 DEF InTurn, Heard
    <3>4. Placed(x) /\ Touched(x) /\ Composed(x)
      <4>1. h'[x].pc \notin Writing \cup {"hint", "hook", "shellgate", "shell"}
        BY <3>2 DEF Writing
      <4> QED
        BY <1>0, <2>2, <3>1, <3>2, <3>3, <4>1 DEF Placed, Touched, Composed, Heard
    <3> QED
      BY <1>2, <3>2, <3>4, OneWrites DEF ApplyHook
  <2> QED
    BY <1>2, <2>1, <2>2 DEF ApplyHook
<1>3. CASE Flush(x)
  <2>1. CASE Return(x)
    BY <1>3, <2>1, Finished DEF Flush
  <2>2. CASE h' = [h EXCEPT ![x].pc = "gate", ![x].p = pending, ![x].term = term, ![x].when = "Queue"]
    <3>1. h'[x].pc = "gate" /\ h'[x].term = term /\ Moved(x) /\ "gate" \notin Writing
      BY <1>0, <2>2, Typing DEF Jobs, Moved, Writing
    <3> QED
      BY <1>0, <1>3, <3>1, Aside DEF Flush
  <2> QED
    BY <1>3, <2>1, <2>2 DEF Flush
<1> QED
  BY <1>1, <1>2, <1>3

\* Pointers to messages, and the user's keys.
LEMMA OwnLines ==
  ASSUME IInv, Own, NEW x \in Threads,
         \/ Message(x) \/ Remember(x) \/ PreparePointer(x) \/ TakePointer(x) \/ TypeLine(x) \/ TypeReturn(x)
         \/ Key(x) \/ NoteInput(x) \/ WriteInput(x)
  PROVE  Own'
<1> USE DEF session, queue, record
<1>0. h[x] \in Jobs /\ gen # 0 /\ (st = "starting" => h[x].term # gen /\ term # gen /\ rt # gen)
  BY Typing DEF Own, Living
<1>1. \A place \in {"remember", "pointer", "line", "linecr", "key"} : place \in Places
  BY DEF Places, Gated, Writing
<1>2. CASE Message(x)
  <2>1. PICK place \in {"remember", "pointer"} : Go(x, place)
    BY <1>2 DEF Message
  <2>2. h'[x].pc = place /\ h'[x].term = h[x].term /\ Moved(x)
    BY <1>1, <2>1, GoJobs
  <2> QED
    BY <1>0, <1>2, <2>2, Aside DEF Message, Writing
<1>3. CASE Remember(x)
  BY <1>3, Finished DEF Remember
<1>4. CASE PreparePointer(x)
  <2>1. CASE Quit(x)
    BY <1>4, <2>1, Finished DEF PreparePointer
  <2>2. CASE term # 0 /\ h' = [h EXCEPT ![x] = [Idle EXCEPT !.pc = "hint", !.term = term]]
    <3>1. h'[x].pc = "hint" /\ h'[x].term = term /\ h'[x].p = 0 /\ Moved(x) /\ "hint" \notin Writing
      BY <2>2, Typing DEF Idle, Moved, Writing
    <3>2. Placed(x) /\ Touched(x) /\ Composed(x)
      BY <1>0, <1>4, <2>2, <3>1 DEF PreparePointer, Placed, Touched, Composed
    <3> QED
      BY <1>4, <3>1, <3>2, OneWrites DEF PreparePointer
  <2> QED
    BY <1>4, <2>1, <2>2 DEF PreparePointer
<1>5. CASE TakePointer(x)
  <2>1. CASE Quit(x) /\ UNCHANGED act
    BY <1>5, <2>1, Finished DEF TakePointer
  <2>2. CASE term = h[x].term /\ act = "Idle" /\ act' = "Working" /\ Go(x, "line")
    <3>1. h'[x].pc = "line" /\ h'[x].term = h[x].term /\ h'[x].p = h[x].p /\ Moved(x)
      BY <1>1, <2>2, GoJobs
    <3>2. UNCHANGED <<session, box, misled>> /\ WriterFree(h[x].term) /\ h[x].pc = "hint"
      BY <1>5 DEF TakePointer
    <3>3. Placed(x) /\ Touched(x) /\ Composed(x)
      BY <1>0, <2>2, <3>1, <3>2 DEF Placed, Touched, Composed, Own, Resting, Composing
    <3> QED
      BY <3>1, <3>2, <3>3, OneWrites
  <2> QED
    BY <1>5, <2>1, <2>2 DEF TakePointer
<1>6. CASE TypeLine(x)
  <2>1. h[x].pc = "line" /\ h[x].pc \in Writing /\ (h[x].term # gen => box' = box)
    BY <1>6 DEF TypeLine, Writing, Enter
  <2>2. CASE Quit(x)
    BY <1>6, <2>1, <2>2, Finished DEF TypeLine
  <2>3. CASE Go(x, "linecr") /\ Enter(h[x].term, "line", 0)
    <3>1. h'[x].pc = "linecr" /\ h'[x].term = h[x].term /\ h'[x].p = h[x].p /\ Moved(x)
      BY <1>1, <2>3, GoJobs
    <3>2. ASSUME h[x].term = gen, box = Blank("Idle")
          PROVE  box' = [hook |-> "Idle", p |-> 0, text |-> "line"]
      BY <2>3, <3>2 DEF Enter, Blank
    <3>3. Composed(x)
      BY <2>1, <3>1, <3>2 DEF Composed, Own, Composing
    <3>4. Placed(x) /\ Touched(x)
      BY <1>0, <1>6, <2>1, <3>1 DEF TypeLine, Placed, Touched, Own, Composing
    <3> QED
      BY <1>6, <3>1, <3>3, <3>4, OneWrites DEF TypeLine
  <2> QED
    BY <1>6, <2>2, <2>3 DEF TypeLine
<1>7. CASE TypeReturn(x)
  <2>1. h[x].pc \in Writing /\ (h[x].term # gen => box' = box)
    BY <1>7 DEF TypeReturn, Writing, Submit
  <2> QED
    BY <1>7, <2>1, Finished DEF TypeReturn
<1>8. CASE Key(x)
  <2>1. h'[x].pc = "input" /\ h'[x].term = rt /\ Moved(x) /\ "input" \notin Writing
    BY <1>8, Typing DEF Key, Idle, Moved, Writing
  <2> QED
    BY <1>0, <1>8, <2>1, Aside DEF Key
<1>9. CASE NoteInput(x)
  <2>1. h'[x].pc = "key" /\ h'[x].term = h[x].term /\ Moved(x)
    BY <1>1, <1>9, GoJobs DEF NoteInput
  <2>2. UNCHANGED <<session, box, misled>> /\ WriterFree(h[x].term)
    BY <1>9 DEF NoteInput
  <2>3. act' = act \/ act' = "Working"
    BY <1>9 DEF NoteInput, AfterInput
  <2>4. act' = "Idle" /\ Clear => h[x].term # gen
    BY <1>0, <1>9 DEF NoteInput, AfterInput, Clear, Own, Living
  <2>5. Placed(x) /\ Touched(x) /\ Composed(x)
    BY <1>0, <2>1, <2>2, <2>3, <2>4 DEF Placed, Touched, Composed
  <2> QED
    BY <2>1, <2>2, <2>5, OneWrites
<1>10. CASE WriteInput(x)
  <2>1. h[x].pc \in Writing /\ (h[x].term # gen => box' = box)
    BY <1>10 DEF WriteInput, Writing, Enter
  <2> QED
    BY <1>10, <2>1, Finished DEF WriteInput
<1> QED
  BY <1>2, <1>3, <1>4, <1>5, <1>6, <1>7, <1>8, <1>9, <1>10

\* The life of the terminal: what is installed was given nothing yet.
LEMMA OwnLife ==
  ASSUME IInv, Own, RuntimeGone \/ RecordExit \/ Restart \/ Install \/ Delete
  PROVE  Own'
<1> USE DEF session, queue, record
<1>0. /\ gen \in Nat \ {0} /\ \A x \in Threads : h[x].term \in 0 .. gen
      /\ h' = h /\ kind' = kind
  BY Typing DEF Jobs, RuntimeGone, RecordExit, Restart, Install, Delete
<1>1. Sole'
  BY <1>0 DEF Own, Sole
<1>2. Living'
  <2>1. CASE Restart
    <3>1. \A x \in Threads : h[x].term # gen + 1
      BY <1>0
    <3> QED
      BY <1>0, <2>1, <3>1 DEF Restart, Own, Living
  <2> QED
    BY <1>0, <2>1 DEF RuntimeGone, RecordExit, Install, Delete, Own, Living
<1>3. Reporting'
  BY <1>0 DEF RuntimeGone, RecordExit, Restart, Install, Delete, Own, Reporting
<1>4. Resting' /\ Composing'
  <2>1. CASE Restart
    <3>1. ~Clear'
      BY <1>0, <1>2, <2>1 DEF Restart, Clear, Own, Living
    <3> QED
      BY <1>0, <2>1, <3>1 DEF Restart, Resting, Composing, Own
  <2>2. CASE Install
    <3>1. (act' = act /\ misled' = misled /\ gen' = gen /\ st = "starting" /\ st' # "starting")
          /\ \A x \in Threads : h[x].term # gen
      BY <2>2 DEF Install, Own, Living
    <3>2. act = "Idle" => misled
      BY <3>1 DEF Own, Resting
    <3>3. Resting'
      BY <3>1, <3>2 DEF Resting, Clear
    <3>4. Composing'
      BY <1>0, <3>1 DEF Own, Composing
    <3> QED
      BY <3>3, <3>4
  <2>3. CASE RuntimeGone \/ RecordExit \/ Delete
    <3>1. ~Clear' /\ (st' = "starting" => st = "starting") /\ act' = act /\ misled' = misled
      BY <1>0, <2>3 DEF RuntimeGone, RecordExit, Delete, Clear
    <3> QED
      BY <1>0, <3>1 DEF Resting, Composing, Own
  <2> QED
    BY <2>1, <2>2, <2>3
<1> QED
  BY <1>1, <1>2, <1>3, <1>4 DEF Own

-----------------------------------------------------------------------------
(* The theorems.                                                           *)

LEMMA Starts == Init => IInv
<1> SUFFICES ASSUME Init PROVE IInv
  OBVIOUS
<1> USE DEF Init
<1>1. sent \in Seq(Terms) /\ Len(sent) = 0 /\ DOMAIN sent = {}
  BY EmptySeq
<1>2. TypeOK
  <2>1. /\ "Starting" \in Activity /\ "Idle" \in Activity /\ "Now" \in Policy /\ "idle" \in Places
        /\ 1 \in Terms /\ 0 \in 0 .. gen /\ 0 \in 0 .. Len(sent) /\ 0 \in 0 .. MaxEvents
        /\ 1 \in 0 .. 1
    BY <1>1, DispatchAssumption DEF Terms, Activity, Policy, Places
  <2>2. Idle \in Jobs
    BY <2>1 DEF Idle, Jobs
  <2>3. h \in [Threads -> Jobs]
    BY <2>2
  <2>4. pasted \in [Prompts -> Seq(Terms)]
    BY EmptySeq
  <2>5. box \in Boxes /\ pointer \in Pointers
    BY <2>1 DEF Blank, Boxes, Pointers
  <2> QED
    BY <1>1, <2>1, <2>3, <2>4, <2>5 DEF TypeOK, Jobs, Places, Boxes, Pointers
<1>3. \A x \in Threads : h[x].pc = "idle"
  BY DEF Idle
<1>4. Meant /\ Fresh /\ Alone /\ Taken
  BY <1>3 DEF Meant, Fresh, Alone, Taken, Holds, Carry, Recorded, OfShell, Gated
<1>5. Waiting /\ Unsent /\ TypedOnce /\ Audited
  BY <1>1, Distinct, DispatchAssumption DEF Waiting, Unsent, TypedOnce, Audited
<1> QED
  BY <1>2, <1>4, <1>5 DEF IInv

LEMMA Steps == IInv /\ [Next]_vars => IInv'
<1> SUFFICES ASSUME IInv, [Next]_vars PROVE IInv'
  OBVIOUS
<1>1. ASSUME NEW x \in Threads, NEW when \in Policy, Send(x, when) PROVE IInv'
  BY <1>1, SendSteps
<1>2. ASSUME NEW x \in Threads, SendShell(x) PROVE IInv'
  BY <1>2, SendSteps
<1>3. ASSUME NEW x \in Threads, Message(x) \/ Key(x) PROVE IInv'
  BY <1>3, LineSteps
<1>4. ASSUME NEW x \in Threads, NEW state \in Activity \ {"Starting"}, Hook(x, state) PROVE IInv'
  BY <1>4, HookSteps
<1>5. ASSUME NEW x \in Threads, Step(x) PROVE IInv'
  BY <1>5, PromptSteps, ShellSteps, HookSteps, LineSteps DEF Step
<1>6. CASE RuntimeGone \/ RecordExit \/ Restart \/ Install \/ Delete
  BY <1>6, LifeSteps
<1>7. CASE UNCHANGED vars
  BY <1>7 DEF vars, session, queue, record, IInv, TypeOK, TypedOnce, Audited, Meant, Fresh, Alone,
              Taken, Waiting, Unsent
<1> QED
  BY <1>1, <1>2, <1>3, <1>4, <1>5, <1>6, <1>7 DEF Next

LEMMA OwnStarts == Init => Own
<1> SUFFICES ASSUME Init PROVE Own
  OBVIOUS
<1>1. /\ st = "running" /\ gen = 1 /\ term = 1 /\ rt = 1 /\ act = "Starting"
      /\ \A x \in Threads : h[x].pc = "idle"
  BY DEF Init, Idle
<1> QED
  BY <1>1 DEF Own, Living, Reporting, Sole, Resting, Composing, Writing

LEMMA OwnSteps == IInv /\ Own /\ [Next]_vars => Own'
<1> SUFFICES ASSUME IInv, Own, [Next]_vars PROVE Own'
  OBVIOUS
<1>1. ASSUME NEW x \in Threads, SendShell(x) \/ \E when \in Policy : Send(x, when) PROVE Own'
  BY <1>1, OwnShell
<1>2. ASSUME NEW x \in Threads, Message(x) \/ Key(x) PROVE Own'
  BY <1>2, OwnLines
<1>3. ASSUME NEW x \in Threads, \E state \in Activity \ {"Starting"} : Hook(x, state) PROVE Own'
  BY <1>3, OwnHooks
<1>4. ASSUME NEW x \in Threads, Step(x) PROVE Own'
  BY <1>4, OwnPrompts, OwnShell, OwnHooks, OwnLines DEF Step
<1>5. CASE RuntimeGone \/ RecordExit \/ Restart \/ Install \/ Delete
  BY <1>5, OwnLife
<1>6. CASE UNCHANGED vars
  BY <1>6 DEF vars, session, queue, record, Own, Living, Reporting, Sole, Resting, Composing, Clear,
              WriterFree
<1> QED
  BY <1>1, <1>2, <1>3, <1>4, <1>5, <1>6 DEF Next

\* The inductive invariant: who holds which prompt, and what a terminal was given since its
\* agent reported (prompts.rs and deliver.rs as a whole).
THEOREM DispatchInvariant == Spec => [](IInv /\ Own)
<1>1. Init => IInv /\ Own
  BY Starts, OwnStarts
<1>2. IInv /\ Own /\ [Next]_vars => (IInv /\ Own)'
  BY Steps, OwnSteps
<1> QED
  BY <1>1, <1>2, PTL DEF Spec

\* A prompt or a command is typed at most once, only into the terminal its sender saw, and
\* not without its envelope, however its threads, hooks, keys, exits and restarts cross
\* (check_target, deliver, deliver_pending, send_shell).
THEOREM TypedRight == Spec => []PromptsOK
<1>1. IInv => PromptsOK
  BY DEF IInv, PromptsOK
<1> QED
  BY <1>1, DispatchInvariant, PTL

\* The carriage return of a prompt or of a pointer submits that alone, to an agent that said
\* it was idle: no key, prompt or hook slips between the check, the paste and the return
\* (deliver, deliver_pointer, write_terminal_input, report_activity).
THEOREM SubmitsAlone == Spec => []SubmitsItsOwn
<1>1. IInv /\ Own => SubmitsItsOwn
  <2> SUFFICES ASSUME IInv, Own, NEW x \in Threads, h[x].pc \in {"cr", "linecr"},
                      rt = h[x].term, term = h[x].term, ~misled
               PROVE  box = [hook |-> "Idle", p |-> h[x].p,
                             text |-> IF h[x].pc = "cr" THEN "prompt" ELSE "line"]
    BY DEF SubmitsItsOwn
  <2>1. h[x].pc = "cr" => h[x].p \in DOMAIN sent /\ h[x].term = sent[h[x].p]
    BY DEF IInv, Meant, Holds
  <2>2. h[x].term # 0
    BY <2>1, SentPrompts, Distinct DEF Own, Composing
  <2> QED
    BY <2>2 DEF Own, Living, Composing, Clear
<1> QED
  BY <1>1, DispatchInvariant, PTL
=============================================================================
