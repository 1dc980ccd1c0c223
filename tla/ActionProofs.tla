---------------------------- MODULE ActionProofs -----------------------------
(***************************************************************************)
(* Launches, for any actions, rows, threads and ports.  Launches that      *)
(* cross: an action with single_instance has one live row, and two live    *)
(* runs share a port only if one was told so; both rest on the section     *)
(* that makes a row live looking again, and on a restart naming the action *)
(* of its row.  What a launch waited for: the verdict of a probe is that   *)
(* of the process the row runs, and a run began when all it was parked     *)
(* behind had been seen up; both rest on the frames of nested calls        *)
(* collecting the rows of the dependencies in their order.                 *)
(***************************************************************************)
EXTENDS ActionQueue, FiniteSetTheorems, WellFoundedInduction, SequenceTheorems, TLAPS

\* Calls a worker is in.
Frames == [a : Actions, s : Rows \cup {0}, got : Seq(Rows)]

Shapes ==
  /\ state \in [Rows -> States] /\ act \in [Rows -> Actions]
  /\ DOMAIN rdy = Rows /\ DOMAIN port = Rows
  /\ pc \in [Threads -> Places] /\ DOMAIN on = Threads
  /\ stack \in [Workers -> Seq(Frames)] /\ back \in [Workers -> {"idle", "bounce"}]

\* Where a worker that is in a call restarts a row.
Restarting == {"kill", "stopfail", "check", "recv", "restart"}

\* Only workers run actions; one in no call is idle, or stops or closes a row.
Threaded ==
  /\ \A x \in Waiters : pc[x] \in {"idle", "check", "recv", "prepare", "commit", "spawn", "fail"}
  /\ \A t \in Terms : pc[t] \in {"idle", "closeif", "close", "delete"}
  /\ \A x \in Workers : stack[x] = <<>> =>
       pc[x] \in {"idle", "kill", "stopfail", "closeif", "close", "delete"} /\ back[x] = "idle"
  /\ \A x \in Workers : pc[x] = "idle" => stack[x] = <<>>
  /\ \A x \in Workers : pc[x] \in Restarting /\ stack[x] # <<>> => Top(x).s # 0
  /\ \A x \in Waiters : pc[x] # "idle" => on[x] \in Rows
  /\ \A x \in Threads : pc[x] = "spawn" => on[x] \in Rows

\* A wait is about a row.
Waited == DOMAIN waits = Waiters /\ \A y \in Waiters : waits[y].s \in Rows \cup {0}

\* A call that restarts a row is about the row's action.
Named ==
  \A x \in Workers : \A i \in DOMAIN stack[x] :
    LET f == stack[x][i] IN f.s # 0 => state[f.s] # "unborn" /\ act[f.s] = f.a

\* Two rows of a single action are never live.
OneLive == \A a \in Single : \A r, s \in Live(a) : r = s

IInv == Shapes /\ Threaded /\ Waited /\ Named /\ OneLive /\ PortsApart

-----------------------------------------------------------------------------
(* What a step does to the threads, and what it does to the rows.          *)

\* The calls in a stack name the actions of their rows.
Names(calls) ==
  \A i \in DOMAIN calls : calls[i].s # 0 => state[calls[i].s] # "unborn" /\ act[calls[i].s] = calls[i].a

\* Thread x moved, and no other.
Moved(x) ==
  /\ pc' \in [Threads -> Places] /\ DOMAIN on' = Threads
  /\ stack' \in [Workers -> Seq(Frames)] /\ back' \in [Workers -> {"idle", "bounce"}]
  /\ \A y \in Threads \ {x} : pc'[y] = pc[y] /\ on'[y] = on[y]
  /\ \A y \in Workers \ {x} : stack'[y] = stack[y] /\ back'[y] = back[y]
  /\ x \in Waiters => /\ pc'[x] \in {"idle", "check", "recv", "prepare", "commit", "spawn", "fail"}
                      /\ pc'[x] # "idle" => on'[x] \in Rows
  /\ x \in Terms => pc'[x] \in {"idle", "closeif", "close", "delete"}
  /\ x \in Workers =>
       /\ Names(stack'[x])
       /\ stack'[x] = <<>> =>
            pc'[x] \in {"idle", "kill", "stopfail", "closeif", "close", "delete"} /\ back'[x] = "idle"
       /\ pc'[x] = "idle" => stack'[x] = <<>>
       /\ pc'[x] \in Restarting /\ stack'[x] # <<>> => Top(x)'.s # 0
  /\ pc'[x] = "spawn" => on'[x] \in Rows

\* The rows are as they must be.
Rowed ==
  /\ state' \in [Rows -> States] /\ act' \in [Rows -> Actions]
  /\ DOMAIN rdy' = Rows /\ DOMAIN port' = Rows
  /\ \A s \in Rows : state[s] # "unborn" => state'[s] # "unborn" /\ act'[s] = act[s]
  /\ OneLive' /\ PortsApart'

LEMMA Classes ==
  /\ Workers \subseteq Threads /\ Waiters \subseteq Threads /\ Terms \subseteq Threads
  /\ Workers \cap Waiters = {} /\ Workers \cap Terms = {} /\ Waiters \cap Terms = {}
  /\ 0 \notin Rows
BY ActionAssumption DEF Threads, Terms, Rows

\* Rows that end, or stay: nobody becomes live, and a shared port stays known.
LEMMA RowsStay ==
  ASSUME IInv, UNCHANGED <<act, port>>, state' \in [Rows -> States], DOMAIN rdy' = Rows,
         \A s \in Rows : state[s] # "unborn" => state'[s] # "unborn",
         \A s \in Rows : IsActive(state'[s]) => IsActive(state[s]),
         \A s \in Rows : rdy[s] = "inuse" => rdy'[s] = "inuse"
  PROVE  Rowed
<1>1. \A a \in Single : Live(a)' \subseteq Live(a)
  BY DEF Live
<1>2. OneLive'
  BY <1>1 DEF IInv, OneLive
<1>3. PortsApart'
  BY DEF IInv, PortsApart
<1> QED
  BY <1>2, <1>3 DEF IInv, Shapes, Rowed

\* A row that is taken to be Starting, on a port that is free or known to be shared.
LEMMA RowStarts ==
  ASSUME IInv, NEW s \in Rows, NEW a \in Actions, NEW p, NEW r,
         state' = [state EXCEPT ![s] = "starting"], act' = [act EXCEPT ![s] = a],
         port' = [port EXCEPT ![s] = p], rdy' = [rdy EXCEPT ![s] = r],
         state[s] # "unborn" => act[s] = a,
         IsActive(state[s]) \/ ~AlreadyRuns(a),
         p = 0 \/ r = "inuse" \/ p \notin Reserved
  PROVE  Rowed
<1>1. /\ state \in [Rows -> States] /\ act \in [Rows -> Actions]
      /\ DOMAIN rdy = Rows /\ DOMAIN port = Rows
  BY DEF IInv, Shapes
<1>2. /\ state'[s] = "starting" /\ act'[s] = a /\ port'[s] = p /\ rdy'[s] = r
      /\ \A q \in Rows \ {s} : /\ state'[q] = state[q] /\ act'[q] = act[q]
                               /\ port'[q] = port[q] /\ rdy'[q] = rdy[q]
      /\ DOMAIN rdy' = Rows /\ DOMAIN port' = Rows
      /\ state' \in [Rows -> States] /\ act' \in [Rows -> Actions]
  BY <1>1 DEF States
<1>3. OneLive'
  <2> SUFFICES ASSUME NEW b \in Single, NEW q \in Live(b)', NEW t \in Live(b)' PROVE q = t
    BY DEF OneLive
  <2>1. \A u \in Rows \ {s} : u \in Live(b)' => u \in Live(b)
    BY <1>2 DEF Live
  <2>2. q \in Rows /\ t \in Rows
    BY DEF Live
  <2>3. CASE q # s /\ t # s
    BY <2>1, <2>2, <2>3 DEF IInv, OneLive
  <2>4. ASSUME s \in Live(b)', NEW u \in Live(b), u # s PROVE FALSE
    <3>1. b = a
      BY <1>2, <2>4 DEF Live
    <3>2. IsActive(state[s])
      BY <2>4, <3>1 DEF AlreadyRuns
    <3>3. s \in Live(b)
      BY <3>1, <3>2 DEF Live, IsActive
    <3> QED
      BY <2>4, <3>3 DEF IInv, OneLive
  <2> QED
    BY <2>1, <2>2, <2>3, <2>4
<1>4. PortsApart'
  <2> SUFFICES ASSUME NEW q \in Rows, NEW t \in Rows, q # t, IsActive(state'[q]), IsActive(state'[t]),
                      port'[q] = port'[t], port'[q] # 0
               PROVE  "inuse" \in {rdy'[q], rdy'[t]}
    BY DEF PortsApart
  <2>1. \A u \in Rows \ {s} : IsActive(state'[u]) /\ port'[u] = p /\ p # 0 => r = "inuse"
    BY <1>2 DEF Reserved
  <2>2. CASE q = s
    BY <1>2, <2>1, <2>2
  <2>3. CASE t = s
    BY <1>2, <2>1, <2>3
  <2>4. CASE q # s /\ t # s
    BY <1>2, <2>4 DEF IInv, PortsApart
  <2> QED
    BY <2>2, <2>3, <2>4
<1> QED
  BY <1>2, <1>3, <1>4 DEF Rowed

\* The invariant rests on what moves.
LEMMA Together ==
  ASSUME IInv, Rowed, NEW x \in Threads, Moved(x) \/ UNCHANGED <<pc, on, stack, back>>,
         UNCHANGED waits \/ Waited'
  PROVE  IInv'
<1>1. /\ \A y \in Workers : Names(stack'[y])
      /\ Threaded' /\ stack' \in [Workers -> Seq(Frames)]
      /\ pc' \in [Threads -> Places] /\ DOMAIN on' = Threads /\ back' \in [Workers -> {"idle", "bounce"}]
  <2>1. CASE Moved(x)
    <3>1. \A y \in Workers : Names(stack'[y])
      BY <2>1 DEF Moved, IInv, Named, Names
    <3>2. Threaded'
      BY <2>1, Classes DEF Moved, IInv, Threaded, Top
    <3> QED
      BY <2>1, <3>1, <3>2 DEF Moved
  <2>2. CASE UNCHANGED <<pc, on, stack, back>>
    BY <2>2 DEF IInv, Named, Names, Threaded, Shapes, Top
  <2> QED
    BY <2>1, <2>2
<1>2. \A y \in Workers : \A i \in DOMAIN stack'[y] : stack'[y][i].s # 0 => stack'[y][i].s \in Rows
  <2> TAKE y \in Workers
  <2> TAKE i \in DOMAIN stack'[y]
  <2>1. stack'[y] \in Seq(Frames)
    BY <1>1
  <2>2. stack'[y][i] \in Frames
    BY <2>1, LenProperties, ElementOfSeq
  <2> QED
    BY <2>2 DEF Frames
<1>3. Named'
  BY <1>1, <1>2 DEF Rowed, Named, Names
<1> QED
  BY <1>1, <1>3 DEF Rowed, IInv, Shapes, Waited

-----------------------------------------------------------------------------
(* The pieces actions are made of.                                         *)

\* A thread with nothing left to do.
LEMMA DoneMoves ==
  ASSUME IInv, NEW x \in Threads, Done(x)
  PROVE  Moved(x)
<1>1. Names(<<>>) /\ <<>> \in Seq(Frames)
  BY EmptySeq DEF Names
<1> QED
  BY <1>1, Classes DEF Done, Moved, IInv, Shapes, Places, Restarting

\* A thread that goes to another place keeps its calls.
LEMMA GotoMoves ==
  ASSUME IInv, NEW x \in Threads, NEW place \in Places, Goto(x, place), place # "spawn",
         x \in Waiters => pc[x] # "idle" /\ place \in {"check", "recv", "prepare", "commit", "fail"},
         x \in Terms => place \in {"closeif", "close", "delete"}, place # "idle",
         x \in Workers /\ place \in Restarting => pc[x] \in Restarting,
         x \in Workers /\ stack[x] = <<>> => place \in {"kill", "stopfail", "closeif", "close", "delete"}
  PROVE  Moved(x)
BY DEF Goto, Moved, IInv, Shapes, Threaded, Named, Names, Top

\* An error.
LEMMA RaiseMoves ==
  ASSUME IInv, NEW x \in Workers, Raise(x)
  PROVE  Moved(x)
<1>1. CASE back[x] = "bounce"
  <2>1. stack[x] # <<>>
    BY <1>1 DEF IInv, Threaded
  <2>2. /\ pc' = [pc EXCEPT ![x] = "failrestart"] /\ on' = [on EXCEPT ![x] = stack[x][1].s]
        /\ UNCHANGED <<stack, back>>
    BY <1>1 DEF Raise
  <2>3. Names(stack'[x])
    BY <2>2 DEF IInv, Named, Names
  <2>4. "failrestart" \in Places /\ "failrestart" \notin Restarting
    BY DEF Places, Restarting
  <2> QED
    BY <2>1, <2>2, <2>3, <2>4, Classes DEF Moved, IInv, Shapes
<1>2. CASE back[x] # "bounce"
  BY <1>2, Classes, DoneMoves DEF Raise
<1> QED
  BY <1>1, <1>2

\* A call answers: the others keep their action and row, and a new one starts a row.
LEMMA ReturnMoves ==
  ASSUME IInv, NEW x \in Workers, NEW s \in Rows, stack[x] # <<>>, Return(x, s)
  PROVE  Moved(x)
<1>1. stack[x] \in Seq(Frames) /\ Len(stack[x]) \in Nat \ {0} /\ Names(stack[x]) /\ x \in Threads
  BY EmptySeq, Classes DEF IInv, Shapes, Named, Names
<1>2. CASE Len(stack[x]) <= 1
  BY <1>1, <1>2, DoneMoves DEF Return
<1>3. CASE ~(Len(stack[x]) <= 1)
  <2> DEFINE n == Len(stack[x]) - 1
             rest == SubSeq(stack[x], 1, n)
             caller == [rest[Len(rest)] EXCEPT !.got = Append(@, s)]
             callers == [rest EXCEPT ![Len(rest)] = caller]
             todo == Len(caller.got) < Len(DependsOn[caller.a])
             next == Append(callers, Frame(DependsOn[caller.a][Len(caller.got) + 1], 0))
  <2>1. n \in Nat \ {0} /\ n \in 1 .. Len(stack[x])
    <3>1. Len(stack[x]) \in Nat /\ Len(stack[x]) > 1
      BY <1>1, <1>3
    <3>2. \A m \in Nat : m > 1 => m - 1 \in Nat \ {0} /\ m - 1 \in 1 .. m
      OBVIOUS
    <3> QED
      BY <3>1, <3>2
  <2>2. /\ rest \in Seq(Frames) /\ Len(rest) = n
        /\ \A i \in 1 .. n : rest[i] = stack[x][i]
    BY <1>1, <2>1, SubSeqProperties
  <2>3. /\ stack' = [stack EXCEPT ![x] = IF todo THEN next ELSE callers]
        /\ pc' = [pc EXCEPT ![x] = IF todo THEN "run" ELSE "park"]
        /\ on' = [on EXCEPT ![x] = 0] /\ UNCHANGED back
    BY <1>3 DEF Return
  <2> HIDE DEF n, rest
  <2>4. rest[n] \in Frames /\ n \in 1 .. Len(rest)
    BY <2>1, <2>2, ElementOfSeq
  <2>5. caller \in Frames /\ caller.s = rest[n].s /\ caller.a = rest[n].a
    <3>1. rest[n].got \in Seq(Rows)
      BY <2>4 DEF Frames
    <3>2. Append(rest[n].got, s) \in Seq(Rows)
      BY <3>1, AppendProperties
    <3> QED
      BY <2>2, <2>4, <3>2 DEF Frames
  <2> HIDE DEF caller
  <2>6. /\ callers \in Seq(Frames) /\ Len(callers) = n
        /\ \A i \in 1 .. n : callers[i] = IF i = n THEN caller ELSE rest[i]
    BY <2>2, <2>4, <2>5, ExceptSeq
  <2>7. Names(callers)
    <3>1. \A i \in 1 .. n : callers[i].s = stack[x][i].s /\ callers[i].a = stack[x][i].a
      BY <2>1, <2>2, <2>5, <2>6
    <3>2. DOMAIN callers = 1 .. n /\ 1 .. n \subseteq DOMAIN stack[x]
      BY <1>1, <2>1, <2>6, LenProperties
    <3> QED
      BY <1>1, <3>1, <3>2 DEF Names
  <2> HIDE DEF callers
  <2>8. ASSUME todo
        PROVE  next \in Seq(Frames) /\ Names(next) /\ next # <<>>
    <3> DEFINE dep == DependsOn[caller.a][Len(caller.got) + 1]
    <3>1. caller.got \in Seq(Rows) /\ caller.a \in Actions
      BY <2>5 DEF Frames
    <3>2. DependsOn[caller.a] \in Seq(Actions)
      BY <3>1, ActionAssumption
    <3>3. Len(caller.got) + 1 \in 1 .. Len(DependsOn[caller.a])
      BY <2>8, <3>1, <3>2, LenProperties
    <3>4. dep \in Actions
      BY <3>2, <3>3, ElementOfSeq
    <3> HIDE DEF dep
    <3>5. Frame(dep, 0) \in Frames /\ Frame(dep, 0).s = 0
      BY <3>4, EmptySeq DEF Frame, Frames
    <3>6. /\ Append(callers, Frame(dep, 0)) \in Seq(Frames)
          /\ Len(Append(callers, Frame(dep, 0))) = n + 1
          /\ \A i \in 1 .. n : Append(callers, Frame(dep, 0))[i] = callers[i]
          /\ Append(callers, Frame(dep, 0))[n + 1] = Frame(dep, 0)
      BY <2>6, <3>5, AppendProperties
    <3>7. DOMAIN Append(callers, Frame(dep, 0)) = 1 .. (n + 1) /\ DOMAIN callers = 1 .. n
      BY <2>6, <3>6, LenProperties
    <3>8. Names(Append(callers, Frame(dep, 0)))
      BY <2>1, <2>7, <3>5, <3>6, <3>7 DEF Names
    <3>9. Append(callers, Frame(dep, 0)) # <<>>
      BY <2>1, <3>6, EmptySeq
    <3> QED
      BY <3>6, <3>8, <3>9 DEF dep
  <2>9. callers # <<>>
    BY <2>1, <2>6, EmptySeq
  <2>10. stack'[x] \in Seq(Frames) /\ Names(stack'[x]) /\ stack'[x] # <<>>
    BY <2>3, <2>6, <2>7, <2>8, <2>9 DEF IInv, Shapes
  <2> HIDE DEF next, todo
  <2>11. pc'[x] \in {"run", "park"}
    BY <1>1, <2>3 DEF IInv, Shapes
  <2>12. /\ stack' \in [Workers -> Seq(Frames)]
         /\ \A y \in Workers \ {x} : stack'[y] = stack[y]
    BY <2>3, <2>10 DEF IInv, Shapes
  <2> QED
    BY <1>1, <2>3, <2>10, <2>11, <2>12, Classes DEF Moved, IInv, Shapes, Places, Restarting
<1> QED
  BY <1>2, <1>3

\* A wait that ends.
LEMMA LeaveWaits ==
  ASSUME IInv, NEW y \in Waiters, Leave(y)
  PROVE  Waited'
BY DEF IInv, Waited, Leave, NoWait

\* Where a thread is says which thread it is, and that it is in a call.
LEMMA InCall ==
  ASSUME IInv, NEW x \in Threads
  PROVE  /\ pc[x] \in {"run", "restart", "park", "failrestart", "kill", "stopfail"} => x \in Workers
         /\ x \in Workers /\ pc[x] \in {"run", "restart", "commit", "spawn", "fail", "park",
                                        "failrestart", "check", "recv", "prepare"} => stack[x] # <<>>
         /\ x \in Workers /\ back[x] = "bounce" => stack[x] # <<>>
         /\ pc[x] \in {"commit", "spawn", "fail", "check", "recv", "prepare"} => x \in Workers \cup Waiters
         /\ pc[x] \in {"closeif", "close", "delete"} => x \in Workers \cup Terms
BY Classes DEF IInv, Threaded, Threads

\* The call a worker is in.
LEMMA TopFrame ==
  ASSUME IInv, NEW x \in Workers, stack[x] # <<>>
  PROVE  /\ Top(x) \in Frames /\ Top(x).a \in Actions
         /\ pc[x] \in Restarting => Top(x).s # 0
         /\ Top(x).s # 0 => Top(x).s \in Rows /\ state[Top(x).s] # "unborn" /\ act[Top(x).s] = Top(x).a
<1>1. stack[x] \in Seq(Frames) /\ Len(stack[x]) \in 1 .. Len(stack[x]) /\ DOMAIN stack[x] = 1 .. Len(stack[x])
  BY EmptySeq, LenProperties DEF IInv, Shapes
<1>2. Top(x) \in Frames
  BY <1>1, ElementOfSeq DEF Top
<1> QED
  BY <1>1, <1>2 DEF Frames, IInv, Named, Top, Threaded

\* A call begins with its first dependency, or with a launch.
LEMMA BeginMoves ==
  ASSUME IInv, NEW x \in Workers, stack[x] # <<>>, NEW a \in Actions, NEW prior, Begin(x, a, prior)
  PROVE  Moved(x)
<1>1. stack[x] \in Seq(Frames) /\ Len(stack[x]) \in Nat /\ Names(stack[x]) /\ x \in Threads
      /\ DOMAIN stack[x] = 1 .. Len(stack[x])
  BY LenProperties, Classes DEF IInv, Shapes, Named, Names
<1>2. CASE DependsOn[a] # <<>>
  <2> DEFINE first == Frame(DependsOn[a][1], 0)
  <2>1. stack' = [stack EXCEPT ![x] = Append(@, first)] /\ pc' = [pc EXCEPT ![x] = "run"]
        /\ UNCHANGED <<on, back>>
    BY <1>2 DEF Begin
  <2>2. DependsOn[a] \in Seq(Actions) /\ 1 \in 1 .. Len(DependsOn[a])
    BY <1>2, EmptySeq, ActionAssumption
  <2>3. DependsOn[a][1] \in Actions
    BY <2>2, ElementOfSeq
  <2>4. first \in Frames /\ first.s = 0
    BY <2>3, EmptySeq DEF Frame, Frames
  <2> HIDE DEF first
  <2>5. /\ Append(stack[x], first) \in Seq(Frames)
        /\ Len(Append(stack[x], first)) = Len(stack[x]) + 1
        /\ \A i \in 1 .. Len(stack[x]) : Append(stack[x], first)[i] = stack[x][i]
        /\ Append(stack[x], first)[Len(stack[x]) + 1] = first
    BY <1>1, <2>4, AppendProperties
  <2>6. DOMAIN Append(stack[x], first) = 1 .. (Len(stack[x]) + 1)
    BY <2>5, LenProperties
  <2>7. Names(Append(stack[x], first))
    BY <1>1, <2>4, <2>5, <2>6 DEF Names
  <2>8. Append(stack[x], first) # <<>>
    BY <1>1, <2>5, EmptySeq
  <2>9. stack'[x] = Append(stack[x], first) /\ stack' \in [Workers -> Seq(Frames)]
        /\ \A y \in Workers \ {x} : stack'[y] = stack[y]
    BY <2>1, <2>5 DEF IInv, Shapes
  <2> QED
    BY <1>1, <2>1, <2>7, <2>8, <2>9, Classes DEF Moved, IInv, Shapes, Places, Restarting
<1>3. CASE DependsOn[a] = <<>>
  <2>1. pc' = [pc EXCEPT ![x] = "commit"] /\ UNCHANGED <<on, stack, back>>
    BY <1>3 DEF Begin
  <2> QED
    BY <1>1, <2>1, Classes DEF Moved, IInv, Shapes, Places, Restarting
<1> QED
  BY <1>2, <1>3

\* Rows that no step touched.
LEMMA RowsSame ==
  ASSUME IInv, UNCHANGED <<state, act, rdy, port>>
  PROVE  Rowed
BY RowsStay DEF IInv, Shapes

\* A launch takes a row: the port was looked at again in the same section.
LEMMA LaunchSteps ==
  ASSUME IInv, NEW x \in Workers \cup Waiters, NEW s \in Rows, NEW a \in Actions,
         x \in Workers => stack[x] # <<>>,
         Launching(x, s), act' = [act EXCEPT ![s] = a], ~PortClaimed(x),
         state[s] # "unborn" => act[s] = a,
         IsActive(state[s]) \/ ~AlreadyRuns(a)
  PROVE  IInv'
<1>1. x \in Threads
  BY Classes
<1>2. Rowed
  BY RowStarts DEF Launching, PortClaimed
<1>3. Moved(x)
  <2>1. pc' = [pc EXCEPT ![x] = "spawn"] /\ on' = [on EXCEPT ![x] = s] /\ UNCHANGED <<stack, back>>
    BY DEF Launching
  <2> QED
    BY <1>1, <2>1, Classes DEF Moved, IInv, Shapes, Named, Names, Places, Restarting
<1> QED
  BY <1>1, <1>2, <1>3, Together DEF Launching

\* A row is parked: it is live and reserves nothing.
LEMMA ParkSteps ==
  ASSUME IInv, NEW x \in Workers, NEW s \in Rows, stack[x] # <<>>, ParkRow(x, s),
         state[s] # "unborn" => act[s] = Top(x).a, ~AlreadyRuns(Top(x).a)
  PROVE  IInv'
<1>1. x \in Threads /\ Top(x).a \in Actions
  BY Classes, TopFrame
<1>2. Rowed
  BY <1>1, RowStarts DEF ParkRow
<1>3. Moved(x)
  BY ReturnMoves DEF ParkRow
<1>4. Waited'
  BY DEF IInv, Waited, ParkRow
<1> QED
  BY <1>1, <1>2, <1>3, <1>4, Together

\* Rows are also failed, which makes none live.
LEMMA FailedRows ==
  ASSUME IInv, NEW s, SetFailed(s)
  PROVE  Rowed
<1>1. UNCHANGED <<act, rdy, port>>
  BY DEF SetFailed, rows
<1>2. state' = state \/ (state[s] = "starting" /\ state' = [state EXCEPT ![s] = "failed"])
  BY DEF SetFailed, rows
<1>3. state' \in [Rows -> States] /\ \A q \in Rows : state'[q] = state[q] \/ state'[q] = "failed"
  BY <1>2 DEF IInv, Shapes, States
<1> QED
  BY <1>1, <1>3, RowsStay DEF IInv, Shapes, IsActive

-----------------------------------------------------------------------------
(* The steps.                                                              *)

\* Running and launching.
LEMMA LaunchingSteps ==
  ASSUME IInv, NEW x \in Threads,
         \/ RunAction(x) \/ RestartTask(x) \/ Reprepare(x)
         \/ CommitRun(x) \/ CommitRestart(x) \/ CommitQueued(x)
         \/ Queue(x) \/ Requeue(x)
  PROVE  IInv'
<1> USE DEF rows
<1>1. CASE RunAction(x)
  <2>1. x \in Workers /\ stack[x] # <<>> /\ Top(x).a \in Actions
    BY <1>1, InCall, TopFrame DEF RunAction
  <2>2. Moved(x)
    BY <1>1, <2>1, ReturnMoves, BeginMoves DEF RunAction, Live
  <2> QED
    BY <1>1, <2>2, RowsSame, Together DEF RunAction
<1>2. CASE RestartTask(x)
  <2>1. x \in Workers /\ stack[x] # <<>>
    BY <1>2, InCall DEF RestartTask
  <2>2. Moved(x)
    <3>1. CASE Raise(x)
      BY <2>1, <3>1, RaiseMoves
    <3>2. CASE IsTerminal(state[Top(x).s]) /\ Begin(x, act[Top(x).s], port[Top(x).s])
      <4>1. Top(x).s \in Rows \/ Top(x).s = 0
        BY <2>1, TopFrame DEF Frames
      <4>2. Top(x).s # 0
        BY <1>2, <2>1, TopFrame DEF RestartTask, Restarting
      <4>3. act[Top(x).s] \in Actions
        BY <4>1, <4>2 DEF IInv, Shapes
      <4> QED
        BY <2>1, <3>2, <4>3, BeginMoves
    <3> QED
      BY <1>2, <3>1, <3>2 DEF RestartTask
  <2> QED
    BY <1>2, <2>2, RowsSame, Together DEF RestartTask
<1>3. CASE Reprepare(x)
  <2>1. x \in Workers \cup Waiters /\ (x \in Workers => stack[x] # <<>>) /\ x \in Threads
    BY <1>3, InCall DEF Reprepare
  <2>2. Moved(x) \/ UNCHANGED <<pc, on, stack, back>>
    <3>1. CASE x \in Workers /\ Raise(x)
      BY <3>1, RaiseMoves
    <3>2. CASE x \in Waiters /\ Goto(x, "fail")
      BY <1>3, <3>2, Classes, GotoMoves DEF Reprepare, Places, Restarting
    <3> QED
      BY <1>3, <2>1, <3>1, <3>2 DEF Reprepare
  <2> QED
    BY <1>3, <2>2, RowsSame, Together DEF Reprepare
<1>4. CASE CommitRun(x)
  <2>1. x \in Workers /\ stack[x] # <<>> /\ Top(x).a \in Actions
    BY <1>4, InCall, TopFrame DEF CommitRun
  <2>2. CASE AlreadyRuns(Top(x).a)
    <3>1. Moved(x)
      BY <1>4, <2>1, <2>2, ReturnMoves DEF CommitRun, Live
    <3> QED
      BY <1>4, <2>2, <3>1, RowsSame, Together DEF CommitRun
  <2>3. CASE ~AlreadyRuns(Top(x).a)
    BY <1>4, <2>1, <2>3, LaunchSteps DEF CommitRun
  <2> QED
    BY <2>2, <2>3
<1>5. CASE CommitRestart(x)
  <2>1. x \in Workers /\ stack[x] # <<>> /\ Top(x).s # 0
    BY <1>5, InCall DEF CommitRestart
  <2>2. /\ Top(x).a \in Actions /\ Top(x).s \in Rows /\ act[Top(x).s] = Top(x).a
    BY <2>1, TopFrame
  <2>3. CASE Raise(x) /\ UNCHANGED <<rows, waits>>
    BY <2>1, <2>3, RaiseMoves, RowsSame, Together
  <2>4. CASE ~AlreadyRuns(Top(x).a) /\ UNCHANGED act /\ Launching(x, Top(x).s)
    <3>1. act' = [act EXCEPT ![Top(x).s] = Top(x).a]
      BY <2>2, <2>4 DEF IInv, Shapes
    <3> QED
      BY <1>5, <2>1, <2>2, <2>4, <3>1, LaunchSteps DEF CommitRestart
  <2> QED
    BY <1>5, <2>3, <2>4 DEF CommitRestart
<1>6. CASE CommitQueued(x)
  <2>1. x \in Waiters /\ x \in Threads
    BY <1>6 DEF CommitQueued
  <2>2. CASE Leave(x) /\ UNCHANGED rows
    BY <2>1, <2>2, DoneMoves, LeaveWaits, RowsSame, Together DEF Leave
  <2>3. CASE state[on[x]] = "starting" /\ UNCHANGED act /\ Launching(x, on[x])
    <3>1. on[x] \in Rows
      BY <1>6, <2>1 DEF CommitQueued, IInv, Threaded
    <3>2. act' = [act EXCEPT ![on[x]] = act[on[x]]] /\ act[on[x]] \in Actions
      BY <2>3, <3>1 DEF IInv, Shapes
    <3> QED
      BY <1>6, <2>1, <2>3, <3>1, <3>2, Classes, LaunchSteps DEF CommitQueued, IsActive
  <2> QED
    BY <1>6, <2>2, <2>3 DEF CommitQueued
<1>7. CASE Queue(x)
  <2>1. x \in Workers /\ stack[x] # <<>>
    BY <1>7, InCall DEF Queue
  <2>2. CASE AlreadyRuns(Top(x).a)
    <3>1. Moved(x)
      BY <1>7, <2>1, <2>2, ReturnMoves DEF Queue, Live
    <3> QED
      BY <1>7, <2>2, <3>1, RowsSame, Together DEF Queue
  <2>3. CASE ~AlreadyRuns(Top(x).a)
    BY <1>7, <2>1, <2>3, ParkSteps DEF Queue
  <2> QED
    BY <2>2, <2>3
<1>8. CASE Requeue(x)
  <2>1. x \in Workers /\ stack[x] # <<>> /\ Top(x).s # 0
    BY <1>8, InCall DEF Requeue
  <2>2. CASE Raise(x) /\ UNCHANGED <<rows, waits>>
    BY <2>1, <2>2, RaiseMoves, RowsSame, Together
  <2>3. CASE ~AlreadyRuns(Top(x).a) /\ ParkRow(x, Top(x).s)
    BY <2>1, <2>3, TopFrame, ParkSteps
  <2> QED
    BY <1>8, <2>2, <2>3 DEF Requeue
<1> QED
  BY <1>1, <1>2, <1>3, <1>4, <1>5, <1>6, <1>7, <1>8

\* Spawning, failing and waiting.
LEMMA WaitingSteps ==
  ASSUME IInv, NEW x \in Threads,
         \/ Spawn(x) \/ SpawnFails(x) \/ Fail(x)
         \/ AwaitDependencies(x) \/ Recv(x) \/ PrepareQueued(x) \/ (Deadline(x) /\ x \in Workers \cup Waiters)
         \/ (StartWaiter(x) /\ x \in Waiters)
  PROVE  IInv'
<1> USE DEF rows
<1>1. CASE Spawn(x)
  <2>1. on[x] \in Rows /\ x \in Workers \cup Waiters
    BY <1>1, InCall DEF Spawn, IInv, Threaded
  <2>2. Moved(x)
    <3>1. CASE x \in Workers
      <4>1. stack[x] # <<>>
        BY <1>1, <3>1, InCall DEF Spawn
      <4> QED
        BY <1>1, <2>1, <3>1, <4>1, ReturnMoves DEF Spawn
    <3>2. CASE x \notin Workers
      BY <1>1, <3>2, DoneMoves DEF Spawn, Leave
    <3> QED
      BY <3>1, <3>2
  <2>3. Rowed
    <3>1. state' = [state EXCEPT ![on[x]] = "running"] /\ state[on[x]] = "starting"
          /\ UNCHANGED <<act, rdy, port>>
      BY <1>1 DEF Spawn
    <3>2. state' \in [Rows -> States]
      BY <3>1 DEF IInv, Shapes, States
    <3>3. \A q \in Rows : state'[q] = state[q] \/ (state'[q] = "running" /\ state[q] = "starting")
      BY <3>1 DEF IInv, Shapes
    <3> QED
      BY <3>1, <3>2, <3>3, RowsStay DEF IInv, Shapes, IsActive
  <2>4. UNCHANGED waits \/ Waited'
    BY <1>1, <2>1, LeaveWaits DEF Spawn
  <2> QED
    BY <2>2, <2>3, <2>4, Together
<1>2. CASE SpawnFails(x)
  <2>1. Moved(x)
    BY <1>2, InCall, GotoMoves, Classes DEF SpawnFails, Places, Restarting
  <2> QED
    BY <1>2, <2>1, RowsSame, Together DEF SpawnFails
<1>3. CASE Fail(x)
  <2>1. Moved(x)
    BY <1>3, RaiseMoves, DoneMoves DEF Fail, Leave
  <2>2. UNCHANGED waits \/ Waited'
    BY <1>3, InCall, LeaveWaits DEF Fail
  <2> QED
    BY <1>3, <2>1, <2>2, FailedRows, Together DEF Fail
<1>4. CASE AwaitDependencies(x)
  <2>1. Moved(x)
    <3>1. CASE Leave(x)
      BY <3>1, DoneMoves DEF Leave
    <3>2. ASSUME NEW place \in {"prepare", "fail", "recv"}, Goto(x, place) PROVE Moved(x)
      BY <1>4, <3>2, GotoMoves, Classes DEF AwaitDependencies, Places, Restarting
    <3> QED
      BY <1>4, <3>1, <3>2 DEF AwaitDependencies
  <2>2. UNCHANGED waits \/ Waited'
    BY <1>4, LeaveWaits DEF AwaitDependencies
  <2> QED
    BY <1>4, <2>1, <2>2, RowsSame, Together DEF AwaitDependencies
<1>5. CASE Recv(x)
  <2>1. Moved(x)
    BY <1>5, InCall, GotoMoves, Classes DEF Recv, Places, Restarting
  <2> QED
    BY <1>5, <2>1, RowsSame, Together DEF Recv
<1>6. CASE PrepareQueued(x)
  <2>1. x \in Workers \cup Waiters /\ (x \in Workers => stack[x] # <<>>)
    BY <1>6, InCall DEF PrepareQueued
  <2>2. pc' = [pc EXCEPT ![x] = "commit"] /\ UNCHANGED <<on, stack, back, waits, state, act, rdy, port>>
    BY <1>6 DEF PrepareQueued
  <2>3. x \in Waiters => on[x] \in Rows
    BY <1>6 DEF PrepareQueued, IInv, Threaded
  <2>4. Moved(x)
    BY <2>1, <2>2, <2>3, Classes DEF Moved, IInv, Shapes, Named, Names, Places, Restarting
  <2> QED
    BY <2>2, <2>4, RowsSame, Together
<1>7. CASE Deadline(x) /\ x \in Workers \cup Waiters
  <2>1. Moved(x)
    BY <1>7, DoneMoves, GotoMoves, Classes DEF Deadline, Places, Restarting
  <2> QED
    BY <1>7, <2>1, RowsSame, Together DEF Deadline
<1>8. CASE StartWaiter(x) /\ x \in Waiters
  <2>1. /\ pc' = [pc EXCEPT ![x] = "check"] /\ on' = [on EXCEPT ![x] = waits[x].s]
        /\ waits[x].s \in Rows /\ UNCHANGED <<stack, back, waits, state, act, rdy, port>>
    BY <1>8 DEF StartWaiter, IInv, Waited
  <2>2. Moved(x)
    BY <1>8, <2>1, Classes DEF Moved, IInv, Shapes, Places, Restarting
  <2> QED
    BY <2>1, <2>2, RowsSame, Together
<1> QED
  BY <1>1, <1>2, <1>3, <1>4, <1>5, <1>6, <1>7, <1>8

\* Requests, once they are accepted.
LEMMA AskingSteps ==
  ASSUME IInv, NEW x \in Workers,
         \/ \E a \in Actions : AskRun(x, a)
         \/ \E s \in Rows : AskRestart(x, s) \/ AskStop(x, s) \/ AskClose(x, s)
  PROVE  IInv'
<1> USE DEF rows
<1>1. x \in Threads /\ stack[x] \in Seq(Frames)
  BY Classes DEF IInv, Shapes
<1>2. ASSUME NEW f \in Frames
      PROVE  <<f>> \in Seq(Frames) /\ DOMAIN <<f>> = {1} /\ Len(<<f>>) = 1 /\ <<f>>[1] = f /\ <<f>> # <<>>
  OBVIOUS
<1>3. ASSUME NEW a \in Actions, AskRun(x, a) PROVE IInv'
  <2>1. Frame(a, 0) \in Frames /\ Frame(a, 0).s = 0
    BY EmptySeq DEF Frame, Frames
  <2>2. /\ pc[x] = "idle" /\ pc' = [pc EXCEPT ![x] = "run"] /\ stack' = [stack EXCEPT ![x] = <<Frame(a, 0)>>]
        /\ UNCHANGED <<on, back, waits, state, act, rdy, port>>
    BY <1>3 DEF AskRun, Request
  <2>3. Names(<<Frame(a, 0)>>)
    BY <1>2, <2>1 DEF Names
  <2>4. Moved(x)
    BY <1>1, <1>2, <2>1, <2>2, <2>3, Classes DEF Moved, IInv, Shapes, Places, Restarting
  <2> QED
    BY <1>1, <2>2, <2>4, RowsSame, Together
<1>4. ASSUME NEW s \in Rows, AskRestart(x, s) PROVE IInv'
  <2>1. s # 0 /\ state[s] # "unborn" /\ act[s] \in Actions
    BY <1>4, Classes DEF AskRestart, HasRow, IsActive, IsTerminal, IInv, Shapes
  <2>2. Frame(act[s], s) \in Frames /\ Frame(act[s], s).s = s /\ Frame(act[s], s).a = act[s]
    BY <2>1, EmptySeq DEF Frame, Frames
  <2>3. /\ pc' = [pc EXCEPT ![x] = IF IsTerminal(state[s]) THEN "restart" ELSE "kill"]
        /\ back' = [back EXCEPT ![x] = IF IsTerminal(state[s]) THEN "idle" ELSE "bounce"]
        /\ on' = [on EXCEPT ![x] = s] /\ stack' = [stack EXCEPT ![x] = <<Frame(act[s], s)>>]
        /\ UNCHANGED <<waits, state, act, rdy, port>>
    BY <1>4 DEF AskRestart
  <2>4. Names(<<Frame(act[s], s)>>)'
    BY <1>2, <2>1, <2>2, <2>3 DEF Names
  <2>5. /\ stack'[x] = <<Frame(act[s], s)>> /\ stack'[x] # <<>> /\ Top(x)'.s = s
        /\ stack' \in [Workers -> Seq(Frames)] /\ \A y \in Workers \ {x} : stack'[y] = stack[y]
    BY <1>2, <2>2, <2>3 DEF Top, IInv, Shapes
  <2>6. Names(stack'[x])
    BY <2>1, <1>2, <2>2, <2>5 DEF Names
  <2>7. pc'[x] \in {"restart", "kill"}
    BY <1>1, <2>3 DEF IInv, Shapes
  <2>8. Moved(x)
    BY <1>1, <2>1, <2>3, <2>5, <2>6, <2>7, Classes DEF Moved, IInv, Shapes, Places, Restarting
  <2> QED
    BY <1>1, <2>3, <2>8, RowsSame, Together
<1>5. ASSUME NEW s \in Rows, NEW place \in {"kill", "close"}, pc[x] = "idle",
             pc' = [pc EXCEPT ![x] = place], on' = [on EXCEPT ![x] = s],
             UNCHANGED <<stack, back, waits, state, act, rdy, port>>
      PROVE  IInv'
  <2>1. stack[x] = <<>> /\ back[x] = "idle"
    BY <1>5 DEF IInv, Threaded
  <2>2. Moved(x)
    BY <1>1, <1>5, <2>1, Classes DEF Moved, IInv, Shapes, Named, Names, Places, Restarting
  <2> QED
    BY <1>1, <1>5, <2>2, RowsSame, Together
<1>6. ASSUME NEW s \in Rows, AskStop(x, s) \/ AskClose(x, s) PROVE IInv'
  BY <1>5, <1>6 DEF AskStop, AskClose, Request
<1> QED
  BY <1>3, <1>4, <1>6

\* Stopping, restarting and closing: rows only end.
LEMMA EndingSteps ==
  ASSUME IInv, NEW x \in Threads,
         \/ Kill(x) \/ StopBeforeStart(x) \/ RestartOnceExited(x) \/ FailRestart(x)
         \/ CloseIfStopped(x) \/ CloseSession(x) \/ DeleteSession(x)
  PROVE  IInv'
<1> USE DEF rows
<1>1. CASE Kill(x)
  <2>1. x \in Workers /\ pc[x] = "kill"
    BY <1>1, InCall DEF Kill
  <2>2. ASSUME NEW place \in {"stopfail", "check", "closeif"}, Goto(x, place), place = "check" => back[x] = "bounce"
        PROVE  Moved(x)
    BY <2>1, <2>2, InCall, GotoMoves, Classes DEF Places, Restarting
  <2>3. Moved(x)
    BY <1>1, <2>2, DoneMoves DEF Kill, AfterKill
  <2> QED
    BY <1>1, <2>3, RowsSame, Together DEF Kill
<1>2. CASE StopBeforeStart(x)
  <2>1. x \in Workers /\ pc[x] = "stopfail"
    BY <1>2, InCall DEF StopBeforeStart
  <2>2. ASSUME NEW place \in {"check", "closeif"}, Goto(x, place), place = "check" => back[x] = "bounce"
        PROVE  Moved(x)
    BY <2>1, <2>2, InCall, GotoMoves, Classes DEF Places, Restarting
  <2>3. Moved(x)
    BY <1>2, <2>2 DEF StopBeforeStart, AfterKill
  <2> QED
    BY <1>2, <2>3, FailedRows, Together DEF StopBeforeStart
<1>3. CASE RestartOnceExited(x)
  <2>1. x \in Workers /\ pc[x] = "check" /\ stack[x] # <<>>
    BY <1>3, InCall DEF RestartOnceExited
  <2>2. ASSUME NEW place \in {"restart", "recv"}, Goto(x, place) PROVE Moved(x)
    BY <2>1, <2>2, GotoMoves, Classes DEF Places, Restarting
  <2>3. Moved(x)
    BY <1>3, <2>2, DoneMoves DEF RestartOnceExited
  <2> QED
    BY <1>3, <2>3, RowsSame, Together DEF RestartOnceExited
<1>4. CASE FailRestart(x)
  <2>1. /\ UNCHANGED <<act, rdy, port, waits>> /\ Done(x)
        /\ state' = state \/ (state[on[x]] \in {"ok", "bad"} /\ state' = [state EXCEPT ![on[x]] = "failed"])
    BY <1>4 DEF FailRestart
  <2>2. state' \in [Rows -> States] /\ \A s \in Rows : state'[s] = state[s] \/ state'[s] = "failed"
    BY <2>1 DEF IInv, Shapes, States
  <2>3. Rowed
    BY <2>1, <2>2, RowsStay DEF IInv, Shapes, IsActive
  <2> QED
    BY <2>1, <2>3, DoneMoves, Together
<1>5. CASE CloseIfStopped(x)
  <2>1. x \in Workers \cup Terms /\ pc[x] = "closeif"
    BY <1>5, InCall DEF CloseIfStopped
  <2>2. ASSUME Goto(x, "close") PROVE Moved(x)
    BY <2>1, <2>2, GotoMoves, Classes DEF Places, Restarting
  <2>3. Moved(x)
    BY <1>5, <2>2, DoneMoves DEF CloseIfStopped
  <2> QED
    BY <1>5, <2>3, RowsSame, Together DEF CloseIfStopped
<1>6. CASE CloseSession(x)
  <2>1. x \in Workers \cup Terms /\ pc[x] = "close"
    BY <1>6, InCall DEF CloseSession
  <2>2. ASSUME Goto(x, "delete") PROVE Moved(x)
    BY <2>1, <2>2, GotoMoves, Classes DEF Places, Restarting
  <2>3. Moved(x)
    BY <1>6, <2>2, DoneMoves DEF CloseSession
  <2> QED
    BY <1>6, <2>3, RowsSame, Together DEF CloseSession
<1>7. CASE DeleteSession(x)
  <2>1. /\ UNCHANGED <<act, rdy, port, waits>> /\ Done(x)
        /\ state' = [state EXCEPT ![on[x]] = IF IsActive(@) THEN "snatched" ELSE IF IsTerminal(@) THEN "closed" ELSE @]
    BY <1>7 DEF DeleteSession
  <2>2. /\ state' \in [Rows -> States]
        /\ \A s \in Rows : state'[s] = state[s] \/ state'[s] \in {"snatched", "closed"}
    BY <2>1 DEF IInv, Shapes, States
  <2>3. Rowed
    BY <2>1, <2>2, RowsStay DEF IInv, Shapes, IsActive
  <2> QED
    BY <2>1, <2>3, DoneMoves, Together
<1> QED
  BY <1>1, <1>2, <1>3, <1>4, <1>5, <1>6, <1>7

\* Processes that end and probes that settle.
LEMMA TerminalSteps ==
  ASSUME IInv, NEW t \in Terms,
         \/ \E outcome \in {"ok", "bad"} : Exited(t, outcome)
         \/ \E s \in Rows, result \in {"ready", "timedout"} : Probe(t, s, result)
  PROVE  IInv'
<1>1. t \in Threads /\ t \notin Workers /\ t \notin Waiters
  BY Classes
<1>2. ASSUME NEW outcome \in {"ok", "bad"}, Exited(t, outcome) PROVE IInv'
  <2> DEFINE s == owner[t]
  <2>1. /\ UNCHANGED <<act, rdy, port, waits, stack, back>>
        /\ \/ UNCHANGED <<state, pc, on>>
           \/ /\ state[s] = "running" /\ state' = [state EXCEPT ![s] = outcome]
              /\ pc' = [pc EXCEPT ![t] = "closeif"] /\ on' = [on EXCEPT ![t] = s]
    BY <1>2 DEF Exited
  <2>2. Moved(t) \/ UNCHANGED <<pc, on, stack, back>>
    BY <1>1, <2>1 DEF Moved, IInv, Shapes, Places
  <2>3. /\ state' \in [Rows -> States]
        /\ \A r \in Rows : state'[r] = state[r] \/ state'[r] \in {"ok", "bad"}
    BY <2>1 DEF IInv, Shapes, States
  <2>4. Rowed
    BY <2>1, <2>3, RowsStay DEF IInv, Shapes, IsActive
  <2> QED
    BY <1>1, <2>1, <2>2, <2>4, Together
<1>3. ASSUME NEW s \in Rows, NEW result \in {"ready", "timedout"}, Probe(t, s, result) PROVE IInv'
  <2>1. /\ UNCHANGED <<state, act, port, waits, pc, on, stack, back>>
        /\ rdy' = rdy \/ (rdy[s] = "probing" /\ rdy' = [rdy EXCEPT ![s] = result])
    BY <1>3 DEF Probe, SetReadiness, work
  <2>2. DOMAIN rdy' = Rows /\ \A r \in Rows : rdy[r] = "inuse" => rdy'[r] = "inuse"
    BY <2>1 DEF IInv, Shapes
  <2>3. Rowed
    BY <2>1, <2>2, RowsStay DEF IInv, Shapes
  <2> QED
    BY <1>1, <2>1, <2>3, Together
<1> QED
  BY <1>2, <1>3

-----------------------------------------------------------------------------
(* What is launched, and after what: types, probes and dependencies.       *)

\* A port an action may use, or none.
Ranged(p, a) == p \in {0} \cup (Base[a] .. (Base[a] + Span[a] - 1))

\* Rows that were started for the dependencies of an action, in their order.
Fits(got, a, st, ac) ==
  /\ got \in Seq(Rows) /\ Len(got) <= Len(DependsOn[a])
  /\ \A i \in 1 .. Len(got) : st[got[i]] # "unborn" /\ ac[got[i]] = DependsOn[a][i]

Fitted(calls, st, ac) == \A i \in 1 .. Len(calls) : Fits(calls[i].got, calls[i].a, st, ac)

\* The launch that a thread is about to commit suits the action.
Suits(launch, a) ==
  /\ Ranged(launch.port, a)
  /\ launch.rdy \in {"inuse", "probing", "unprobed"}
  /\ launch.rdy = "unprobed" => a \notin Probed

\* Every call has the rows of the dependencies before the one its callee starts.
Chained(calls) ==
  \A i \in 1 .. (Len(calls) - 1) :
    /\ Len(calls[i].got) < Len(DependsOn[calls[i].a])
    /\ calls[i + 1].a = DependsOn[calls[i].a][Len(calls[i].got) + 1]

\* A row that starts has no terminal and no verdict of a probe; the verdict of one that runs
\* is its terminal's; what it was parked behind was seen when it was up, all of it if it runs.
RowOK(s) ==
  /\ Ranged(port[s], act[s])
  /\ state[s] \in {"unborn", "starting"} => term[s] = 0
  /\ state[s] = "starting" => rdy[s] \notin {"ready", "timedout"}
  /\ state[s] = "running" /\ rdy[s] \in {"ready", "timedout"} => by[s] = term[s]
  /\ rdy[s] = "unprobed" => act[s] \notin Probed
  /\ DependsOn[act[s]] = <<>> => needs[s] = <<>>
  /\ \A d \in Elements(needs[s]) : Up(d) => d \in seen[s]
  /\ state[s] = "running" /\ s \notin crowded => Elements(needs[s]) \subseteq seen[s]

\* Only an action that depends on none is launched by the worker itself.
CallsOK(x) ==
  /\ Chained(stack[x])
  /\ Fitted(stack[x], state, act)
  /\ pc[x] \in Restarting \cup {"run"} /\ stack[x] # <<>> => Top(x).got = <<>>
  /\ pc[x] \in {"commit", "spawn"} => DependsOn[Top(x).a] = <<>>
  /\ pc[x] = "commit" => Suits(offer[x], Top(x).a)
  /\ pc[x] = "spawn" => state[on[x]] # "unborn" /\ act[on[x]] = Top(x).a
  /\ pc[x] = "park" => DependsOn[Top(x).a] # <<>>
  /\ pc[x] # "prepare"

\* A wait is for the dependencies its row was parked behind, unless the row is crowded, and
\* lets the row go once they were seen.
WaitOK(y) ==
  /\ waits[y].s # 0 =>
       /\ state[waits[y].s] # "unborn" /\ DependsOn[act[waits[y].s]] # <<>>
       /\ Fits(waits[y].deps, act[waits[y].s], state, act)
       /\ waits[y].s \notin crowded => waits[y].deps = needs[waits[y].s]
  /\ pc[y] # "idle" => on[y] = waits[y].s
  /\ pc[y] = "commit" => Suits(offer[y], act[on[y]])
  /\ pc[y] \in {"prepare", "commit", "spawn"} /\ on[y] \notin crowded =>
       Elements(needs[on[y]]) \subseteq seen[on[y]]

RowTypes ==
  /\ rdy \in [Rows -> Readiness] /\ term \in [Rows -> Terms \cup {0}]
  /\ needs \in [Rows -> Seq(Rows)] /\ DOMAIN by = Rows /\ DOMAIN seen = Rows
  /\ marked \subseteq Rows /\ crowded \subseteq Rows
  /\ owner \in [Terms -> Rows \cup {0}] /\ probing \subseteq Terms \X Rows
  /\ nextTerm \in 1 .. (MaxTerms + 1)

ThreadTypes ==
  /\ on \in [Threads -> Rows \cup {0}] /\ offer \in [Workers \cup Waiters -> Launch]
  /\ wake \subseteq Listening /\ asked \in 0 .. MaxRequests

Started ==
  /\ RowTypes /\ ThreadTypes
  /\ \A s \in Rows : RowOK(s)
  /\ \A x \in Workers : CallsOK(x)
  /\ \A y \in Waiters : WaitOK(y)

-----------------------------------------------------------------------------
(* What a step does to the rows.                                           *)

\* Rows keep their action once they are born, and what they are parked behind while a thread
\* waits for them.
Kept ==
  /\ RowTypes' /\ \A s \in Rows : RowOK(s)'
  /\ \A s \in Rows : state[s] # "unborn" => state'[s] # "unborn" /\ act'[s] = act[s]
  /\ crowded \subseteq crowded'
  /\ \A y \in Waiters : waits[y].s \in Rows \ crowded' =>
       needs'[waits[y].s] = needs[waits[y].s] /\ seen[waits[y].s] \subseteq seen'[waits[y].s]

\* What is seen stays seen until a row is parked again.
LEMMA NoteKeeps ==
  ASSUME Note, NEW s \in Rows
  PROVE  /\ DOMAIN seen' = Rows
         /\ \A d \in Elements(needs'[s]) : Up(d)' => d \in seen'[s]
         /\ Parked(s) \/ ~Parked(s)' => seen[s] \subseteq seen'[s]
BY DEF Note

\* A row that stays, or ends.
LEMMA RowKept ==
  ASSUME NEW s \in Rows, RowOK(s),
         act'[s] = act[s], rdy'[s] = rdy[s], port'[s] = port[s], by'[s] = by[s], needs'[s] = needs[s],
         \/ state'[s] = state[s] /\ term'[s] = term[s]
         \/ state'[s] \notin {"unborn", "starting", "running"},
         s \in crowded => s \in crowded', seen[s] \subseteq seen'[s],
         \A d \in Elements(needs'[s]) : Up(d)' => d \in seen'[s]
  PROVE  RowOK(s)'
BY DEF RowOK

\* No row changes.
LEMMA RowsQuiet ==
  ASSUME IInv, Started, UNCHANGED <<state, act, rdy, port, term, by, needs, seen, crowded, ptys>>,
         marked' \subseteq Rows
  PROVE  Kept
<1>1. RowTypes'
  BY DEF Started, RowTypes, ptys
<1>2. \A s \in Rows : RowOK(s)'
  BY DEF Started, RowOK, Up
<1> QED
  BY <1>1, <1>2 DEF Kept

\* Rows end, or stay.
LEMMA RowsEnd ==
  ASSUME IInv, IInv', Started, Note, UNCHANGED <<act, rdy, port, by, needs, crowded, probing, nextTerm>>,
         marked' \subseteq Rows, term' \in [Rows -> Terms \cup {0}], owner' \in [Terms -> Rows \cup {0}],
         \A s \in Rows : \/ state'[s] = state[s] /\ term'[s] = term[s]
                         \/ state[s] # "unborn" /\ state'[s] \notin {"unborn", "starting", "running"}
  PROVE  Kept
<1>1. RowTypes'
  <2>1. DOMAIN seen' = Rows
    <3>1. CASE Rows = {}
      BY <3>1 DEF Note
    <3> QED
      BY <3>1, NoteKeeps
  <2> QED
    BY <2>1 DEF Started, RowTypes
<1>2. ASSUME NEW s \in Rows PROVE seen[s] \subseteq seen'[s] /\ RowOK(s)'
  <2>1. Parked(s)' => Parked(s)
    BY DEF Parked
  <2>2. seen[s] \subseteq seen'[s] /\ \A d \in Elements(needs'[s]) : Up(d)' => d \in seen'[s]
    BY <2>1, NoteKeeps
  <2>3. RowOK(s)
    BY DEF Started
  <2> QED
    BY <2>2, <2>3, RowKept
<1> QED
  BY <1>1, <1>2 DEF Kept

\* A row is taken by the thread that launches it.
LEMMA RowsLaunch ==
  ASSUME IInv, IInv', Started, NEW x \in Workers \cup Waiters, NEW s \in Rows, NEW a \in Actions,
         Launching(x, s), act' = [act EXCEPT ![s] = a], Suits(offer[x], a),
         term' = [term EXCEPT ![s] = 0],
         x \in Workers => DependsOn[a] = <<>>,
         state[s] # "unborn" => act[s] = a,
         x \in Waiters => state[s] = "starting"
  PROVE  Kept
<1>1. /\ state' = [state EXCEPT ![s] = "starting"] /\ rdy' = [rdy EXCEPT ![s] = offer[x].rdy]
      /\ port' = [port EXCEPT ![s] = offer[x].port]
      /\ needs' = [needs EXCEPT ![s] = IF x \in Workers THEN <<>> ELSE @]
      /\ UNCHANGED <<marked, owner, probing, nextTerm, by, crowded>> /\ Note
  BY DEF Launching, ptys
<1>2. /\ state' \in [Rows -> States] /\ act' \in [Rows -> Actions] /\ DOMAIN port' = Rows
      /\ state \in [Rows -> States] /\ act \in [Rows -> Actions] /\ DOMAIN port = Rows
  BY DEF IInv, Shapes
<1>3. /\ \A q \in Rows \ {s} : /\ state'[q] = state[q] /\ act'[q] = act[q] /\ rdy'[q] = rdy[q]
                               /\ port'[q] = port[q] /\ term'[q] = term[q] /\ needs'[q] = needs[q]
      /\ state'[s] = "starting" /\ act'[s] = a /\ rdy'[s] = offer[x].rdy
      /\ port'[s] = offer[x].port /\ term'[s] = 0
      /\ needs'[s] = IF x \in Workers THEN <<>> ELSE needs[s]
  BY <1>1, <1>2 DEF Started, RowTypes
<1>4. offer[x].rdy \in {"inuse", "probing", "unprobed"}
  BY DEF Suits
<1>5. RowTypes'
  <2>1. rdy' \in [Rows -> Readiness] /\ term' \in [Rows -> Terms \cup {0}]
    BY <1>1, <1>4 DEF Started, RowTypes, Readiness
  <2>2. needs' \in [Rows -> Seq(Rows)]
    <3>1. <<>> \in Seq(Rows)
      BY EmptySeq
    <3> QED
      BY <1>1, <3>1 DEF Started, RowTypes
  <2>3. DOMAIN seen' = Rows
    BY <1>1, NoteKeeps
  <2> QED
    BY <1>1, <2>1, <2>2, <2>3 DEF Started, RowTypes
<1>6. ASSUME NEW q \in Rows
      PROVE  seen[q] \subseteq seen'[q] /\ \A d \in Elements(needs'[q]) : Up(d)' => d \in seen'[q]
  <2>1. Parked(q)' => Parked(q)
    BY <1>3, <1>4 DEF Parked
  <2> QED
    BY <1>1, <2>1, NoteKeeps
<1>7. \A q \in Rows \ {s} : RowOK(q)'
  <2> TAKE q \in Rows \ {s}
  <2>1. RowOK(q)
    BY DEF Started
  <2> QED
    BY <1>1, <1>3, <1>6, <2>1, RowKept
<1>8. RowOK(s)'
  <2>1. Ranged(port'[s], act'[s]) /\ (rdy'[s] = "unprobed" => act'[s] \notin Probed)
    BY <1>3 DEF Suits
  <2>2. DependsOn[act'[s]] = <<>> => needs'[s] = <<>>
    BY <1>3, Classes DEF Started, RowOK
  <2> QED
    BY <1>3, <1>4, <1>6, <2>1, <2>2 DEF RowOK
<1>9. ASSUME NEW y \in Waiters, waits[y].s \in Rows PROVE needs'[waits[y].s] = needs[waits[y].s]
  <2>1. state[waits[y].s] # "unborn" /\ DependsOn[act[waits[y].s]] # <<>>
    BY <1>9, Classes DEF Started, WaitOK
  <2>2. waits[y].s = s /\ x \in Workers => FALSE
    BY <2>1
  <2> QED
    BY <1>3, <1>9, <2>2
<1>10. \A q \in Rows : state[q] # "unborn" => state'[q] # "unborn" /\ act'[q] = act[q]
  BY <1>3
<1> QED
  BY <1>1, <1>5, <1>6, <1>7, <1>8, <1>9, <1>10 DEF Kept

\* A row is parked behind the dependencies of its call.
LEMMA RowsPark ==
  ASSUME IInv, IInv', Started, NEW x \in Workers, NEW s \in Rows, NEW a \in Actions, NEW got \in Seq(Rows),
         ParkRow(x, s), a = Top(x).a, got = Top(x).got, DependsOn[a] # <<>>,
         state[s] # "unborn" => act[s] = a
  PROVE  Kept
<1>1. /\ state' = [state EXCEPT ![s] = "starting"] /\ rdy' = [rdy EXCEPT ![s] = "waiting"]
      /\ port' = [port EXCEPT ![s] = 0] /\ act' = [act EXCEPT ![s] = a]
      /\ term' = [term EXCEPT ![s] = 0] /\ needs' = [needs EXCEPT ![s] = got]
      /\ crowded' = IF \E y \in Waiters : waits[y].s = s THEN crowded \cup {s} ELSE crowded
      /\ UNCHANGED <<marked, owner, probing, nextTerm, by>> /\ Note
  BY DEF ParkRow, ptys
<1>2. /\ state' \in [Rows -> States] /\ act' \in [Rows -> Actions] /\ DOMAIN port' = Rows
      /\ state \in [Rows -> States] /\ act \in [Rows -> Actions] /\ DOMAIN port = Rows
  BY DEF IInv, Shapes
<1>3. /\ \A q \in Rows \ {s} : /\ state'[q] = state[q] /\ act'[q] = act[q] /\ rdy'[q] = rdy[q]
                               /\ port'[q] = port[q] /\ term'[q] = term[q] /\ needs'[q] = needs[q]
      /\ state'[s] = "starting" /\ act'[s] = a /\ rdy'[s] = "waiting"
      /\ port'[s] = 0 /\ term'[s] = 0 /\ needs'[s] = got
  BY <1>1, <1>2 DEF Started, RowTypes
<1>4. RowTypes'
  <2>1. rdy' \in [Rows -> Readiness] /\ term' \in [Rows -> Terms \cup {0}] /\ needs' \in [Rows -> Seq(Rows)]
    BY <1>1 DEF Started, RowTypes, Readiness
  <2>2. DOMAIN seen' = Rows
    BY <1>1, NoteKeeps
  <2>3. crowded' \subseteq Rows
    BY <1>1 DEF Started, RowTypes
  <2> QED
    BY <1>1, <2>1, <2>2, <2>3 DEF Started, RowTypes
<1>5. ASSUME NEW q \in Rows PROVE \A d \in Elements(needs'[q]) : Up(d)' => d \in seen'[q]
  BY <1>1, NoteKeeps
<1>6. ASSUME NEW q \in Rows \ {s} PROVE seen[q] \subseteq seen'[q]
  <2>1. Parked(q)' => Parked(q)
    BY <1>3 DEF Parked
  <2> QED
    BY <1>1, <2>1, NoteKeeps
<1>7. \A q \in Rows \ {s} : RowOK(q)'
  <2> TAKE q \in Rows \ {s}
  <2>1. RowOK(q)
    BY DEF Started
  <2> QED
    BY <1>1, <1>3, <1>5, <1>6, <2>1, RowKept
<1>8. RowOK(s)'
  BY <1>3, <1>5 DEF RowOK, Ranged
<1>9. \A q \in Rows : state[q] # "unborn" => state'[q] # "unborn" /\ act'[q] = act[q]
  BY <1>3
<1>10. \A y \in Waiters : waits[y].s \in Rows \ crowded' => waits[y].s # s
  BY <1>1
<1> QED
  BY <1>1, <1>3, <1>4, <1>6, <1>7, <1>8, <1>9, <1>10 DEF Kept

\* A row that runs: what it needs was seen.
LEMMA RowsSpawn ==
  ASSUME IInv, IInv', Started, NEW x \in Workers \cup Waiters, Spawn(x)
  PROVE  Kept
<1>0. PICK s \in Rows : s = on[x]
  BY Classes DEF Spawn, IInv, Threaded
<1>1. pc[x] = "spawn" /\ s \in Rows /\ x \in Threads
  BY Classes DEF Spawn
<1>2. /\ state[s] = "starting" /\ state' = [state EXCEPT ![s] = "running"]
      /\ nextTerm <= MaxTerms /\ term' = [term EXCEPT ![s] = nextTerm]
      /\ owner' = [owner EXCEPT ![nextTerm] = s] /\ nextTerm' = nextTerm + 1
      /\ probing' = probing \/ probing' = probing \cup {<<nextTerm, s>>}
      /\ UNCHANGED <<act, rdy, port, marked, by, needs, crowded>> /\ Note
  BY <1>0 DEF Spawn
<1>3. nextTerm \in Terms /\ nextTerm' \in 1 .. (MaxTerms + 1)
  BY <1>2, ActionAssumption DEF Started, RowTypes, Terms
<1>4. state \in [Rows -> States] /\ state' \in [Rows -> States]
  BY DEF IInv, Shapes
<1>5. RowTypes'
  <2>1. DOMAIN seen' = Rows
    BY <1>1, <1>2, NoteKeeps
  <2>2. term' \in [Rows -> Terms \cup {0}] /\ owner' \in [Terms -> Rows \cup {0}]
    BY <1>1, <1>2, <1>3 DEF Started, RowTypes
  <2>3. probing' \subseteq Terms \X Rows
    BY <1>1, <1>2, <1>3 DEF Started, RowTypes
  <2> QED
    BY <1>2, <1>3, <2>1, <2>2, <2>3 DEF Started, RowTypes
<1>6. /\ \A q \in Rows \ {s} : state'[q] = state[q] /\ term'[q] = term[q]
      /\ state'[s] = "running"
  BY <1>1, <1>2, <1>4 DEF Started, RowTypes
<1>7. ASSUME NEW q \in Rows
      PROVE  seen[q] \subseteq seen'[q] /\ \A d \in Elements(needs'[q]) : Up(d)' => d \in seen'[q]
  <2>1. Parked(q)' => Parked(q)
    BY <1>2, <1>6 DEF Parked
  <2> QED
    BY <1>2, <2>1, NoteKeeps
<1>8. \A q \in Rows \ {s} : RowOK(q)'
  <2> TAKE q \in Rows \ {s}
  <2>1. RowOK(q)
    BY DEF Started
  <2> QED
    BY <1>2, <1>6, <1>7, <2>1, RowKept
<1>9. s \notin crowded => Elements(needs[s]) \subseteq seen[s]
  <2>1. CASE x \in Workers
    <3>1. act[s] = Top(x).a /\ DependsOn[Top(x).a] = <<>>
      BY <1>0, <1>1, <2>1 DEF Started, CallsOK
    <3>2. needs[s] = <<>>
      BY <1>1, <3>1 DEF Started, RowOK
    <3> QED
      BY <3>2, EmptySeq DEF Elements
  <2>2. CASE x \in Waiters
    BY <1>0, <1>1, <2>2 DEF Started, WaitOK
  <2> QED
    BY <2>1, <2>2
<1>10. RowOK(s)'
  <2>1. RowOK(s)
    BY <1>1 DEF Started
  <2>2. /\ state[s] = "starting" /\ state'[s] = "running" /\ act'[s] = act[s] /\ rdy'[s] = rdy[s]
        /\ port'[s] = port[s] /\ needs'[s] = needs[s] /\ crowded' = crowded
    BY <1>2, <1>6
  <2>3. s \notin crowded' => Elements(needs'[s]) \subseteq seen'[s]
    BY <1>1, <1>7, <1>9, <2>2
  <2>4. \A d \in Elements(needs'[s]) : Up(d)' => d \in seen'[s]
    BY <1>1, <1>7
  <2> QED
    BY <2>1, <2>2, <2>3, <2>4 DEF RowOK
<1>11. \A q \in Rows : state[q] # "unborn" => state'[q] # "unborn" /\ act'[q] = act[q]
  BY <1>2, <1>6
<1>12. UNCHANGED <<needs, crowded>>
  BY <1>2
<1> QED
  BY <1>5, <1>7, <1>8, <1>10, <1>11, <1>12 DEF Kept

\* A probe that settles settles the run of its own terminal.
LEMMA RowsProbe ==
  ASSUME IInv, IInv', Started, NEW t \in Terms, NEW s \in Rows, NEW result \in {"ready", "timedout"},
         Probe(t, s, result)
  PROVE  Kept
<1>1. /\ UNCHANGED <<state, act, port, term, marked, owner, nextTerm, needs, crowded>> /\ Note
      /\ probing' = probing \ {<<t, s>>}
      /\ \/ UNCHANGED <<rdy, by>>
         \/ /\ IsActive(state[s]) /\ term[s] = t /\ rdy[s] = "probing"
            /\ rdy' = [rdy EXCEPT ![s] = result] /\ by' = [by EXCEPT ![s] = t]
  BY DEF Probe, SetReadiness
<1>2. RowTypes'
  <2>1. DOMAIN seen' = Rows
    BY <1>1, NoteKeeps
  <2>2. rdy' \in [Rows -> Readiness] /\ DOMAIN by' = Rows
    BY <1>1 DEF Started, RowTypes, Readiness
  <2> QED
    BY <1>1, <2>1, <2>2 DEF Started, RowTypes
<1>3. /\ \A q \in Rows \ {s} : rdy'[q] = rdy[q] /\ by'[q] = by[q]
      /\ \/ rdy'[s] = rdy[s] /\ by'[s] = by[s]
         \/ IsActive(state[s]) /\ term[s] = t /\ rdy'[s] = result /\ by'[s] = t
  BY <1>1 DEF Started, RowTypes
<1>4. ASSUME NEW q \in Rows
      PROVE  seen[q] \subseteq seen'[q] /\ \A d \in Elements(needs'[q]) : Up(d)' => d \in seen'[q]
  <2>1. Parked(q)' => Parked(q)
    BY <1>1, <1>3 DEF Parked
  <2> QED
    BY <1>1, <2>1, NoteKeeps
<1>5. ASSUME NEW q \in Rows PROVE RowOK(q)'
  <2>1. RowOK(q)
    BY DEF Started
  <2>2. CASE rdy'[q] = rdy[q] /\ by'[q] = by[q]
    BY <1>1, <1>4, <2>1, <2>2, RowKept
  <2>3. CASE q = s /\ IsActive(state[s]) /\ term[s] = t /\ rdy'[s] = result /\ by'[s] = t
    <3>1. state[s] = "running"
      BY <2>1, <2>3, ActionAssumption DEF RowOK, IsActive, Terms
    <3> QED
      BY <1>1, <1>4, <2>1, <2>3, <3>1 DEF RowOK
  <2> QED
    BY <1>3, <2>2, <2>3
<1> QED
  BY <1>1, <1>2, <1>4, <1>5 DEF Kept

-----------------------------------------------------------------------------
(* What a step does to the calls, the waits and the launches.              *)

\* Thread x moved, and no other.
Stepped(x) ==
  /\ on' \in [Threads -> Rows \cup {0}] /\ offer' \in [Workers \cup Waiters -> Launch]
  /\ \A y \in Threads \ {x} : pc'[y] = pc[y] /\ on'[y] = on[y]
  /\ \A y \in Workers \ {x} : stack'[y] = stack[y] /\ back'[y] = back[y]
  /\ \A y \in (Workers \cup Waiters) \ {x} : offer'[y] = offer[y]
  /\ x \in Workers => CallsOK(x)'

\* The waits of the others go on.
WaitsGoOn(x) ==
  \A y \in Waiters :
    /\ WaitOK(y)' \/ (y # x /\ waits'[y] = waits[y])
    /\ y = x \/ waits[y].s = 0 \/ waits'[y].s # 0

\* Only threads that listen hold a message.
Heard(x) ==
  /\ wake' \subseteq wake \cup Listening /\ (x \in wake' => x \in Listening')
  /\ asked' \in 0 .. MaxRequests

\* Rows that were started keep fitting.
LEMMA FitsKept ==
  ASSUME Kept, NEW got, NEW a, Fits(got, a, state, act)
  PROVE  Fits(got, a, state', act')
<1>1. \A i \in 1 .. Len(got) : got[i] \in Rows
  BY ElementOfSeq DEF Fits
<1> QED
  BY <1>1 DEF Fits, Kept

LEMMA FittedKept ==
  ASSUME Kept, NEW calls, Fitted(calls, state, act)
  PROVE  Fitted(calls, state', act')
BY FitsKept DEF Fitted

\* A worker that did not move.
LEMMA CallsStay ==
  ASSUME IInv, IInv', Started, Kept, NEW y \in Workers,
         pc'[y] = pc[y], on'[y] = on[y], stack'[y] = stack[y], offer'[y] = offer[y]
  PROVE  CallsOK(y)'
<1>1. CallsOK(y)
  BY DEF Started
<1>2. Fitted(stack[y], state', act')
  BY <1>1, FittedKept DEF CallsOK
<1>3. pc[y] = "spawn" => on[y] \in Rows
  BY Classes DEF IInv, Threaded
<1>4. pc[y] = "spawn" => state'[on[y]] # "unborn" /\ act'[on[y]] = act[on[y]]
  BY <1>1, <1>3 DEF CallsOK, Kept
<1> QED
  BY <1>1, <1>2, <1>4 DEF CallsOK, Top

\* A waiter that did not move, and its wait.
LEMMA WaitStays ==
  ASSUME IInv, IInv', Started, Kept, NEW y \in Waiters,
         pc'[y] = pc[y], on'[y] = on[y], offer'[y] = offer[y], waits'[y] = waits[y]
  PROVE  WaitOK(y)'
<1>1. WaitOK(y)
  BY DEF Started
<1>2. waits[y].s \in Rows \cup {0} /\ (pc[y] # "idle" => on[y] \in Rows /\ on[y] = waits[y].s)
  BY <1>1 DEF IInv, Waited, Threaded, WaitOK
<1>3. ASSUME waits[y].s # 0
      PROVE  /\ state'[waits[y].s] # "unborn" /\ act'[waits[y].s] = act[waits[y].s]
             /\ Fits(waits[y].deps, act[waits[y].s], state', act')
             /\ waits[y].s \notin crowded' =>
                  /\ waits[y].s \notin crowded /\ needs'[waits[y].s] = needs[waits[y].s]
                  /\ seen[waits[y].s] \subseteq seen'[waits[y].s]
  BY <1>1, <1>2, <1>3, FitsKept DEF WaitOK, Kept
<1>4. pc[y] # "idle" => waits[y].s # 0
  BY <1>2, Classes
<1> QED
  BY <1>1, <1>2, <1>3, <1>4 DEF WaitOK

\* The invariant rests on what moves.
LEMMA StartedTogether ==
  ASSUME IInv, IInv', Started, Kept, NEW x \in Threads, Stepped(x), WaitsGoOn(x), Heard(x)
  PROVE  Started'
<1>1. \A y \in Workers : CallsOK(y)'
  <2> TAKE y \in Workers
  <2>1. CASE y = x
    BY <2>1 DEF Stepped
  <2>2. CASE y # x
    BY <2>2, CallsStay, Classes DEF Stepped
  <2> QED
    BY <2>1, <2>2
<1>2. \A y \in Waiters : WaitOK(y)'
  <2> TAKE y \in Waiters
  <2>1. CASE y # x /\ waits'[y] = waits[y]
    BY <2>1, WaitStays, Classes DEF Stepped
  <2> QED
    BY <2>1 DEF WaitsGoOn
<1>3. wake' \subseteq Listening'
  <2> SUFFICES ASSUME NEW y \in wake', y # x PROVE y \in Listening'
    BY DEF Heard
  <2>1. y \in Listening
    BY DEF Heard, Started, ThreadTypes
  <2>2. CASE y \in Waiters /\ waits[y].s # 0
    BY <2>2 DEF Listening, WaitsGoOn
  <2>3. CASE y \in Workers /\ back[y] = "bounce" /\ pc[y] \in {"kill", "stopfail", "check", "recv"}
    BY <2>3, Classes DEF Listening, Stepped
  <2> QED
    BY <2>1, <2>2, <2>3 DEF Listening
<1> QED
  BY <1>1, <1>2, <1>3 DEF Started, ThreadTypes, Kept, Stepped, Heard

\* The waits when nobody waits anew.
LEMMA WaitsSame ==
  ASSUME NEW x \in Threads \ Waiters, UNCHANGED waits
  PROVE  WaitsGoOn(x)
BY DEF WaitsGoOn

LEMMA WaitsSameToo ==
  ASSUME NEW x \in Waiters, UNCHANGED waits, WaitOK(x)'
  PROVE  WaitsGoOn(x)
BY DEF WaitsGoOn

\* A wait that ends.
LEMMA WaitEnds ==
  ASSUME IInv, NEW x \in Waiters, Leave(x)
  PROVE  WaitsGoOn(x)
<1>1. /\ waits'[x] = NoWait /\ \A y \in Waiters \ {x} : waits'[y] = waits[y]
      /\ pc'[x] = "idle"
  BY Classes DEF IInv, Waited, Shapes, Leave, Done
<1>2. WaitOK(x)'
  BY <1>1 DEF WaitOK, NoWait
<1> QED
  BY <1>1, <1>2 DEF WaitsGoOn

\* A thread with nothing left to do.
LEMMA DoneSteps ==
  ASSUME IInv, Started, NEW x \in Threads, Done(x)
  PROVE  Stepped(x)
<1>1. /\ pc' = [pc EXCEPT ![x] = "idle"] /\ on' = [on EXCEPT ![x] = 0]
      /\ stack' = IF x \in Workers THEN [stack EXCEPT ![x] = <<>>] ELSE stack
      /\ offer' = IF x \in Terms THEN offer ELSE [offer EXCEPT ![x] = NoLaunch]
      /\ back' = IF x \in Workers THEN [back EXCEPT ![x] = "idle"] ELSE back
  BY DEF Done
<1>2. NoLaunch \in Launch
  BY ActionAssumption DEF NoLaunch, Launch, Readiness
<1>3. on' \in [Threads -> Rows \cup {0}] /\ offer' \in [Workers \cup Waiters -> Launch]
  BY <1>1, <1>2 DEF Started, ThreadTypes
<1>4. x \in Workers => CallsOK(x)'
  <2> SUFFICES ASSUME x \in Workers PROVE CallsOK(x)'
    OBVIOUS
  <2>1. stack'[x] = <<>> /\ pc'[x] = "idle" /\ Len(<<>>) = 0
    BY <1>1, EmptySeq DEF IInv, Shapes
  <2>2. 1 .. 0 = {} /\ 1 .. (0 - 1) = {}
    OBVIOUS
  <2> QED
    BY <2>1, <2>2 DEF CallsOK, Chained, Fitted, Restarting
<1>5. \A y \in Workers \ {x} : stack'[y] = stack[y] /\ back'[y] = back[y]
  BY <1>1 DEF IInv, Shapes
<1>6. \A y \in (Workers \cup Waiters) \ {x} : offer'[y] = offer[y]
  BY <1>1 DEF Started, ThreadTypes
<1> QED
  BY <1>1, <1>3, <1>4, <1>5, <1>6 DEF Stepped, IInv, Shapes

\* A worker that goes to another place keeps its calls.
LEMMA WorkerGoes ==
  ASSUME IInv, IInv', Started, Kept, NEW x \in Workers, NEW place, Goto(x, place),
         place \notin {"run", "commit", "spawn", "park", "prepare"},
         place \in Restarting => pc[x] \in Restarting
  PROVE  Stepped(x)
<1>1. pc' = [pc EXCEPT ![x] = place] /\ UNCHANGED <<on, stack, offer, back>> /\ x \in Threads
  BY Classes DEF Goto
<1>2. pc'[x] = place /\ \A y \in Threads \ {x} : pc'[y] = pc[y]
  BY <1>1 DEF IInv, Shapes
<1>3. Fitted(stack[x], state', act')
  BY FittedKept DEF Started, CallsOK
<1>4. CallsOK(x)'
  BY <1>1, <1>2, <1>3 DEF Started, CallsOK, Top
<1> QED
  BY <1>1, <1>2, <1>4 DEF Stepped, Started, ThreadTypes

\* The thread of a wait goes on, to a launch once its dependencies were seen.
LEMMA WaiterGoes ==
  ASSUME IInv, IInv', Started, Kept, NEW x \in Waiters, NEW place, Goto(x, place), UNCHANGED waits,
         place \in {"check", "recv", "fail", "prepare"}, pc[x] # "idle",
         place = "prepare" /\ on[x] \notin crowded => Elements(needs[on[x]]) \subseteq seen[on[x]]
  PROVE  Stepped(x) /\ WaitsGoOn(x)
<1>1. pc' = [pc EXCEPT ![x] = place] /\ UNCHANGED <<on, stack, offer, back>> /\ x \in Threads /\ x \notin Workers
  BY Classes DEF Goto
<1>2. pc'[x] = place /\ \A y \in Threads \ {x} : pc'[y] = pc[y]
  BY <1>1 DEF IInv, Shapes
<1>3. /\ WaitOK(x) /\ waits[x].s \in Rows \cup {0} /\ on[x] \in Rows /\ on[x] = waits[x].s
      /\ waits[x].s # 0
  BY Classes DEF Started, IInv, Waited, Threaded, WaitOK
<1>4. /\ state'[waits[x].s] # "unborn" /\ act'[waits[x].s] = act[waits[x].s]
      /\ Fits(waits[x].deps, act[waits[x].s], state', act')
      /\ waits[x].s \notin crowded' =>
           /\ waits[x].s \notin crowded /\ needs'[waits[x].s] = needs[waits[x].s]
           /\ seen[waits[x].s] \subseteq seen'[waits[x].s]
  BY <1>3, FitsKept DEF WaitOK, Kept
<1>5. WaitOK(x)'
  BY <1>1, <1>2, <1>3, <1>4 DEF WaitOK
<1>6. Stepped(x)
  BY <1>1, <1>2 DEF Stepped, Started, ThreadTypes
<1> QED
  BY <1>5, <1>6, WaitsSameToo

\* A thread that closes a row for a terminal.
LEMMA TerminalGoes ==
  ASSUME IInv, Started, NEW x \in Terms, NEW place, NEW s \in Rows \cup {0},
         pc' = [pc EXCEPT ![x] = place], on' = [on EXCEPT ![x] = s] \/ UNCHANGED on,
         UNCHANGED <<stack, offer, back>>
  PROVE  Stepped(x)
BY Classes DEF Stepped, Started, ThreadTypes, IInv, Shapes

\* An error.
LEMMA RaiseSteps ==
  ASSUME IInv, IInv', Started, Kept, NEW x \in Workers, Raise(x)
  PROVE  Stepped(x)
<1>0. x \in Threads
  BY Classes
<1>1. CASE back[x] # "bounce"
  BY <1>0, <1>1, DoneSteps DEF Raise
<1>2. CASE back[x] = "bounce"
  <2>1. /\ pc' = [pc EXCEPT ![x] = "failrestart"] /\ on' = [on EXCEPT ![x] = stack[x][1].s]
        /\ offer' = [offer EXCEPT ![x] = NoLaunch] /\ UNCHANGED <<stack, back>>
    BY <1>2 DEF Raise
  <2>2. stack[x] # <<>> /\ stack[x] \in Seq(Frames)
    BY <1>2 DEF IInv, Threaded, Shapes
  <2>3. stack[x][1] \in Frames
    BY <2>2, EmptySeq, ElementOfSeq
  <2>4. stack[x][1].s \in Rows \cup {0}
    BY <2>3 DEF Frames
  <2>5. NoLaunch \in Launch
    BY ActionAssumption DEF NoLaunch, Launch, Readiness
  <2>6. pc'[x] = "failrestart" /\ \A y \in Threads \ {x} : pc'[y] = pc[y] /\ on'[y] = on[y]
    BY <2>1, <1>0 DEF IInv, Shapes
  <2>7. Fitted(stack[x], state', act')
    BY FittedKept DEF Started, CallsOK
  <2>8. CallsOK(x)'
    BY <2>1, <2>6, <2>7 DEF Started, CallsOK, Restarting
  <2> QED
    BY <1>0, <2>1, <2>4, <2>5, <2>6, <2>8 DEF Stepped, Started, ThreadTypes
<1> QED
  BY <1>1, <1>2

\* Numbers have a least one.
LEMMA LeastNatural ==
  ASSUME NEW S \in SUBSET Nat, S # {}
  PROVE  \E p \in S : \A q \in S : p <= q
<1>1. \E p \in S : \A q \in S : ~(<<q, p>> \in OpToRel(<, Nat))
  BY NatLessThanWellFounded, WFMin, Zenon
<1>2. ASSUME NEW p \in S, NEW q \in S, q < p
      PROVE  <<q, p>> \in OpToRel(<, Nat)
  <2>1. <<q, p>> \in Nat \X Nat /\ <<q, p>>[1] < <<q, p>>[2]
    BY <1>2
  <2> QED
    BY <2>1, Zenon DEF OpToRel
<1>3. \E p \in S : \A q \in S : ~(q < p)
  BY <1>1, <1>2, Zenon
<1> QED
  BY <1>3

\* The offer of a launch suits its action.
LEMMA Prepared ==
  ASSUME NEW x \in Workers \cup Waiters, NEW a \in Actions, NEW prior, NEW tries \in 0 .. ClaimAttempts,
         Prepare(x, a, prior, tries)
  PROVE  \E launch \in Launch : offer' = [offer EXCEPT ![x] = launch] /\ Suits(launch, a)
<1>1. PICK free \in SUBSET Ports :
        offer' = [offer EXCEPT ![x] =
          [port |-> Choose(a, Reserved, prior, free).port,
           rdy |-> IF Choose(a, Reserved, prior, free).taken THEN "inuse"
                   ELSE IF a \in Probed THEN "probing" ELSE "unprobed",
           tries |-> tries]]
  BY DEF Prepare
<1>2. Base[a] \in Nat /\ Span[a] \in Nat \ {0}
  BY ActionAssumption
<1>3. /\ Base[a] \in Base[a] .. (Base[a] + Span[a] - 1)
      /\ Base[a] .. (Base[a] + Span[a] - 1) \subseteq Ports
  <2>1. Base[a] .. (Base[a] + Span[a] - 1) \subseteq Base[a] .. (Base[a] + Span[a])
    BY <1>2
  <2> QED
    BY <1>2, <2>1 DEF Ports
<1>4. Choose(a, Reserved, prior, free).port \in {0} \cup (Base[a] .. (Base[a] + Span[a] - 1))
  <2> DEFINE range == Base[a] .. (Base[a] + Span[a] - 1)
             usable == (range \cap free) \ Reserved
  <2>1. CASE Base[a] = 0
    BY <2>1 DEF Choose
  <2>2. CASE Base[a] # 0 /\ prior \in usable
    BY <2>2 DEF Choose
  <2>3. CASE Base[a] # 0 /\ prior \notin usable /\ usable # {}
    <3>1. \E p \in usable : \A q \in usable : p <= q
      <4>1. usable \in SUBSET Nat
        BY <1>2
      <4> HIDE DEF usable
      <4> QED
        BY <2>3, <4>1, LeastNatural
    <3> QED
      BY <2>3, <3>1 DEF Choose
  <2>4. CASE Base[a] # 0 /\ prior \notin usable /\ usable = {}
    BY <1>3, <2>4 DEF Choose
  <2> QED
    BY <2>1, <2>2, <2>3, <2>4
<1> DEFINE launch == [port |-> Choose(a, Reserved, prior, free).port,
                      rdy |-> IF Choose(a, Reserved, prior, free).taken THEN "inuse"
                              ELSE IF a \in Probed THEN "probing" ELSE "unprobed",
                      tries |-> tries]
<1>5. launch.port = Choose(a, Reserved, prior, free).port /\ launch.tries = tries
      /\ launch.rdy \in {"inuse", "probing", "unprobed"} /\ (launch.rdy = "unprobed" => a \notin Probed)
  OBVIOUS
<1>6. launch \in Launch
  BY <1>3, <1>4 DEF Launch, Readiness
<1>7. Suits(launch, a)
  BY <1>4, <1>5 DEF Suits, Ranged
<1> QED
  BY <1>1, <1>6, <1>7

\* The caller takes the row its callee answers with.
Answers(calls, callers, s, st, ac) ==
  /\ calls \in Seq(Frames) /\ callers \in Seq(Frames)
  /\ Len(callers) \in Nat \ {0} /\ Len(calls) = Len(callers) + 1
  /\ \A i \in 1 .. (Len(callers) - 1) : callers[i] = calls[i]
  /\ callers[Len(callers)].a = calls[Len(callers)].a
  /\ callers[Len(callers)].got = Append(calls[Len(callers)].got, s)
  /\ s \in Rows /\ st[s] # "unborn" /\ ac[s] = calls[Len(callers) + 1].a

LEMMA ChainReturns ==
  ASSUME NEW calls, NEW callers, NEW s, NEW st, NEW ac, Answers(calls, callers, s, st, ac),
         Chained(calls), Fitted(calls, st, ac)
  PROVE  /\ Chained(callers) /\ DependsOn[callers[Len(callers)].a] # <<>>
         /\ Fitted(callers, st, ac)
<1>0. PICK n \in Nat \ {0} : n = Len(callers)
  BY DEF Answers
<1>a. /\ calls \in Seq(Frames) /\ callers \in Seq(Frames) /\ Len(calls) = n + 1
      /\ \A i \in 1 .. (n - 1) : callers[i] = calls[i]
      /\ callers[n].a = calls[n].a /\ callers[n].got = Append(calls[n].got, s)
      /\ s \in Rows /\ st[s] # "unborn" /\ ac[s] = calls[n + 1].a /\ Len(callers) = n
  BY <1>0 DEF Answers
<1> USE <1>a
<1>1. n \in 1 .. n /\ 1 .. n \subseteq 1 .. (n + 1) /\ 1 .. (n - 1) \subseteq 1 .. n
      /\ \A i \in 1 .. (n - 1) : i # n /\ i + 1 \in 1 .. n
  OBVIOUS
<1>3. calls[n] \in Frames
  BY <1>1, ElementOfSeq
<1>4. calls[n].got \in Seq(Rows) /\ calls[n].a \in Actions
  BY <1>3 DEF Frames
<1>5. /\ Len(calls[n].got) < Len(DependsOn[calls[n].a])
      /\ calls[n + 1].a = DependsOn[calls[n].a][Len(calls[n].got) + 1]
  BY <1>1 DEF Chained
<1>6. Fits(calls[n].got, calls[n].a, st, ac)
  BY <1>1 DEF Fitted
<1>7. DependsOn[calls[n].a] \in Seq(Actions)
  BY <1>4, ActionAssumption
<1> DEFINE got == Append(calls[n].got, s)
<1>8. /\ got \in Seq(Rows) /\ Len(got) = Len(calls[n].got) + 1
      /\ \A i \in 1 .. Len(calls[n].got) : got[i] = calls[n].got[i]
      /\ got[Len(calls[n].got) + 1] = s /\ Len(calls[n].got) \in Nat
  BY <1>4, AppendProperties, LenProperties
<1> HIDE DEF got
<1>9. Fits(got, calls[n].a, st, ac)
  <2>1. Len(got) <= Len(DependsOn[calls[n].a])
    BY <1>5, <1>7, <1>8, LenProperties
  <2>2. ASSUME NEW i \in 1 .. Len(got)
        PROVE  st[got[i]] # "unborn" /\ ac[got[i]] = DependsOn[calls[n].a][i]
    <3>1. CASE i \in 1 .. Len(calls[n].got)
      <4>1. got[i] = calls[n].got[i]
        BY <1>8, <3>1
      <4>2. st[calls[n].got[i]] # "unborn" /\ ac[calls[n].got[i]] = DependsOn[calls[n].a][i]
        BY <1>6, <3>1 DEF Fits
      <4> QED
        BY <4>1, <4>2
    <3>2. CASE i = Len(calls[n].got) + 1
      BY <1>5, <1>8, <3>2
    <3>3. i \in 1 .. Len(calls[n].got) \/ i = Len(calls[n].got) + 1
      BY <1>8
    <3> QED
      BY <3>1, <3>2, <3>3
  <2> QED
    BY <1>8, <2>1, <2>2 DEF Fits
<1>10. callers[n].got = got
  BY DEF got
<1>13. \A i \in 1 .. n : Fits(callers[i].got, callers[i].a, st, ac) /\ callers[i].a = calls[i].a
  <2> TAKE i \in 1 .. n
  <2>1. CASE i = n
    BY <1>9, <1>10, <2>1
  <2>2. CASE i # n
    <3>1. i \in 1 .. (n - 1) /\ i \in 1 .. Len(calls)
      BY <2>2
    <3> QED
      BY <3>1 DEF Fitted
  <2> QED
    BY <2>1, <2>2
<1>14. Chained(callers)
  <2> SUFFICES ASSUME NEW i \in 1 .. (n - 1)
               PROVE  /\ Len(callers[i].got) < Len(DependsOn[callers[i].a])
                      /\ callers[i + 1].a = DependsOn[callers[i].a][Len(callers[i].got) + 1]
    BY DEF Chained
  <2>1. callers[i] = calls[i] /\ callers[i + 1].a = calls[i + 1].a
    BY <1>1, <1>13
  <2>2. i \in 1 .. (Len(calls) - 1)
    BY <1>1
  <2> QED
    BY <2>1, <2>2 DEF Chained
<1>15. DependsOn[callers[n].a] # <<>>
  BY <1>5, <1>7, <1>8, <1>10, EmptySeq, LenProperties
<1> QED
  BY <1>13, <1>14, <1>15 DEF Fitted

\* A call starts its next dependency.
Callee(calls) ==
  LET f == calls[Len(calls)] IN Frame(DependsOn[f.a][Len(f.got) + 1], 0)

LEMMA ChainGrows ==
  ASSUME NEW st, NEW ac, NEW calls \in Seq(Frames), calls # <<>>, Chained(calls), Fitted(calls, st, ac),
         Len(calls[Len(calls)].got) < Len(DependsOn[calls[Len(calls)].a])
  PROVE  /\ Append(calls, Callee(calls)) \in Seq(Frames)
         /\ Len(Append(calls, Callee(calls))) = Len(calls) + 1
         /\ Append(calls, Callee(calls))[Len(calls) + 1] = Callee(calls)
         /\ Callee(calls).got = <<>> /\ Chained(Append(calls, Callee(calls)))
         /\ Fitted(Append(calls, Callee(calls)), st, ac)
<1>0. PICK n \in Nat \ {0} : n = Len(calls)
  BY EmptySeq, LenProperties
<1> DEFINE f == Callee(calls)
<1>a. f = Frame(DependsOn[calls[n].a][Len(calls[n].got) + 1], 0) /\ Len(calls) = n
      /\ Len(calls[n].got) < Len(DependsOn[calls[n].a])
  BY <1>0 DEF Callee
<1> HIDE DEF f
<1> USE <1>a
<1>1. n \in 1 .. n /\ calls[n] \in Frames
  BY ElementOfSeq
<1>2. calls[n].got \in Seq(Rows) /\ calls[n].a \in Actions
  BY <1>1 DEF Frames
<1>3. DependsOn[calls[n].a] \in Seq(Actions) /\ Len(calls[n].got) \in Nat
      /\ Len(calls[n].got) + 1 \in 1 .. Len(DependsOn[calls[n].a])
  <2>1. DependsOn[calls[n].a] \in Seq(Actions)
    BY <1>2, ActionAssumption
  <2>2. Len(calls[n].got) \in Nat /\ Len(DependsOn[calls[n].a]) \in Nat
    BY <1>2, <2>1, LenProperties
  <2>3. \A k, m \in Nat : k < m => k + 1 \in 1 .. m
    OBVIOUS
  <2> QED
    BY <2>1, <2>2, <2>3
<1> DEFINE dep == DependsOn[calls[n].a][Len(calls[n].got) + 1]
<1>4. dep \in Actions
  BY <1>3, ElementOfSeq
<1> HIDE DEF dep
<1>5. f.a = dep /\ f.s = 0 /\ f.got = <<>> /\ f \in Frames
  BY <1>4, EmptySeq DEF Frame, Frames, dep
<1> DEFINE new == Append(calls, f)
<1>6. /\ new \in Seq(Frames) /\ Len(new) = n + 1 /\ new[n + 1] = f
      /\ \A i \in 1 .. n : new[i] = calls[i]
  <2>1. f \in Frames /\ calls \in Seq(Frames)
    BY <1>5
  <2>2. /\ new \in Seq(Frames) /\ Len(new) = Len(calls) + 1 /\ new[Len(calls) + 1] = f
        /\ \A i \in 1 .. Len(calls) : new[i] = calls[i]
    BY ONLY <2>1, AppendProperties DEF new
  <2> QED
    BY ONLY <1>a, <2>2
<1> HIDE DEF new
<1>7. Chained(new)
  <2> SUFFICES ASSUME NEW i \in 1 .. n
               PROVE  /\ Len(new[i].got) < Len(DependsOn[new[i].a])
                      /\ new[i + 1].a = DependsOn[new[i].a][Len(new[i].got) + 1]
    BY <1>6 DEF Chained
  <2>1. CASE i = n
    BY <1>1, <1>5, <1>6, <2>1 DEF dep
  <2>2. CASE i # n
    <3>1. i \in 1 .. (n - 1) /\ i + 1 \in 1 .. n
      BY <2>2
    <3> QED
      BY <1>6, <3>1 DEF Chained
  <2> QED
    BY <2>1, <2>2
<1>8. Fits(<<>>, f.a, st, ac)
  <2>1. Len(<<>>) = 0 /\ <<>> \in Seq(Rows) /\ 1 .. 0 = {} /\ Len(DependsOn[f.a]) \in Nat
    BY <1>4, <1>5, EmptySeq, LenProperties, ActionAssumption
  <2>2. Len(<<>>) <= Len(DependsOn[f.a])
    BY ONLY <2>1
  <2>3. \A i \in 1 .. Len(<<>>) : FALSE
    BY ONLY <2>1
  <2> QED
    BY ONLY <2>1, <2>2, <2>3 DEF Fits
<1>9. \A i \in 1 .. (n + 1) : Fits(new[i].got, new[i].a, st, ac)
  <2> TAKE i \in 1 .. (n + 1)
  <2>1. CASE i = n + 1
    BY <1>5, <1>6, <1>8, <2>1
  <2>2. CASE i \in 1 .. n
    BY <1>6, <2>2 DEF Fitted
  <2> QED
    BY <2>1, <2>2
<1>10. Fitted(new, st, ac)
  BY <1>6, <1>9 DEF Fitted
<1> QED
  BY <1>0, <1>5, <1>6, <1>7, <1>10 DEF new, f

\* A call answers with a row of its action.
LEMMA ReturnSteps ==
  ASSUME IInv, IInv', Started, Kept, NEW x \in Workers, NEW s \in Rows, stack[x] # <<>>, Return(x, s),
         state'[s] # "unborn", act'[s] = Top(x).a
  PROVE  Stepped(x)
<1>1. /\ stack[x] \in Seq(Frames) /\ Len(stack[x]) \in Nat \ {0} /\ x \in Threads /\ x \notin Terms
      /\ Chained(stack[x])
      /\ Fitted(stack[x], state', act')
  BY EmptySeq, Classes, FittedKept DEF IInv, Shapes, Started, CallsOK
<1>2. CASE Len(stack[x]) <= 1
  BY <1>1, <1>2, DoneSteps DEF Return
<1>3. CASE ~(Len(stack[x]) <= 1)
  <2> DEFINE n == Len(stack[x]) - 1
             rest == SubSeq(stack[x], 1, n)
             caller == [rest[Len(rest)] EXCEPT !.got = Append(@, s)]
             callers == [rest EXCEPT ![Len(rest)] = caller]
             todo == Len(caller.got) < Len(DependsOn[caller.a])
             next == Append(callers, Frame(DependsOn[caller.a][Len(caller.got) + 1], 0))
  <2>1. n \in Nat \ {0} /\ n \in 1 .. Len(stack[x]) /\ Len(stack[x]) = n + 1
    <3>1. Len(stack[x]) \in Nat /\ Len(stack[x]) > 1
      BY <1>1, <1>3
    <3>2. \A m \in Nat : m > 1 => m - 1 \in Nat \ {0} /\ m - 1 \in 1 .. m /\ m = (m - 1) + 1
      OBVIOUS
    <3> QED
      BY <3>1, <3>2
  <2>2. /\ rest \in Seq(Frames) /\ Len(rest) = n
        /\ \A i \in 1 .. n : rest[i] = stack[x][i]
    BY <1>1, <2>1, SubSeqProperties
  <2>3. /\ stack' = [stack EXCEPT ![x] = IF todo THEN next ELSE callers]
        /\ pc' = [pc EXCEPT ![x] = IF todo THEN "run" ELSE "park"]
        /\ on' = [on EXCEPT ![x] = 0] /\ offer' = [offer EXCEPT ![x] = NoLaunch] /\ UNCHANGED back
    BY <1>3 DEF Return
  <2> HIDE DEF n, rest
  <2>4. rest[n] \in Frames /\ n \in 1 .. Len(rest) /\ rest[n] = stack[x][n]
    BY <2>1, <2>2, ElementOfSeq
  <2>5. /\ caller \in Frames /\ caller.a = stack[x][n].a
        /\ caller.got = Append(stack[x][n].got, s)
    <3>1. rest[n].got \in Seq(Rows)
      BY <2>4 DEF Frames
    <3>2. Append(rest[n].got, s) \in Seq(Rows)
      BY <3>1, AppendProperties
    <3> QED
      BY <2>2, <2>4, <3>2 DEF Frames
  <2> HIDE DEF caller
  <2>6. /\ callers \in Seq(Frames) /\ Len(callers) = n
        /\ \A i \in 1 .. n : callers[i] = IF i = n THEN caller ELSE rest[i]
    BY <2>2, <2>4, <2>5, ExceptSeq
  <2>7. /\ callers[n] = caller /\ \A i \in 1 .. (n - 1) : callers[i] = stack[x][i]
        /\ callers[n].a = stack[x][n].a /\ callers[n].got = Append(stack[x][n].got, s)
    BY <2>1, <2>2, <2>5, <2>6
  <2> HIDE DEF callers
  <2>9. act'[s] = stack[x][n + 1].a
    BY <2>1 DEF Top
  <2>10. /\ Chained(callers) /\ DependsOn[callers[n].a] # <<>>
         /\ Fitted(callers, state', act')
    <3>1. Answers(stack[x], callers, s, state', act')
      BY <1>1, <2>1, <2>6, <2>7, <2>9 DEF Answers
    <3> QED
      BY <1>1, <2>6, <3>1, ChainReturns
  <2>11. NoLaunch \in Launch
    BY ActionAssumption DEF NoLaunch, Launch, Readiness
  <2>12. CASE todo
    <3> DEFINE f == Callee(callers)
    <3>0. f = Frame(DependsOn[caller.a][Len(caller.got) + 1], 0) /\ callers # <<>>
          /\ Len(callers[Len(callers)].got) < Len(DependsOn[callers[Len(callers)].a])
      BY <2>1, <2>6, <2>7, <2>12, EmptySeq DEF Callee
    <3>1. /\ Append(callers, f) \in Seq(Frames) /\ Len(Append(callers, f)) = n + 1
          /\ Append(callers, f)[n + 1] = f /\ f.got = <<>>
          /\ Chained(Append(callers, f))
          /\ Fitted(Append(callers, f), state', act')
      BY <2>6, <2>10, <3>0, ChainGrows
    <3>2. stack'[x] = Append(callers, f) /\ pc'[x] = "run"
      BY <1>1, <2>3, <2>12, <3>0 DEF IInv, Shapes
    <3> HIDE DEF f
    <3>3. Top(x)'.got = <<>>
      BY <3>1, <3>2 DEF Top
    <3> QED
      BY <1>1, <2>3, <2>11, <3>1, <3>2, <3>3 DEF Stepped, CallsOK, Started, ThreadTypes, IInv, Shapes, Restarting
  <2>13. CASE ~todo
    <3>1. stack'[x] = callers /\ pc'[x] = "park"
      BY <1>1, <2>3, <2>13 DEF IInv, Shapes
    <3>2. Top(x)' = caller
      BY <2>6, <2>7, <3>1 DEF Top
    <3>3. CallsOK(x)'
      BY <2>6, <2>7, <2>10, <3>1, <3>2 DEF CallsOK, Restarting
    <3> QED
      BY <1>1, <2>3, <2>11, <3>3 DEF Stepped, Started, ThreadTypes, IInv, Shapes
  <2> QED
    BY <2>12, <2>13
<1> QED
  BY <1>2, <1>3

\* A call starts its first dependency, or prepares a launch.
LEMMA BeginSteps ==
  ASSUME IInv, IInv', Started, Kept, NEW x \in Workers, stack[x] # <<>>, NEW a \in Actions, NEW prior,
         Begin(x, a, prior), a = Top(x).a, Top(x).got = <<>>
  PROVE  Stepped(x)
<1>1. /\ stack[x] \in Seq(Frames) /\ x \in Threads /\ x \notin Terms
      /\ Chained(stack[x]) /\ Fitted(stack[x], state', act') /\ Len(<<>>) = 0
  BY EmptySeq, Classes, FittedKept DEF IInv, Shapes, Started, CallsOK
<1>2. CASE DependsOn[a] # <<>>
  <2>1. stack' = [stack EXCEPT ![x] = Append(@, Frame(DependsOn[a][1], 0))] /\ pc' = [pc EXCEPT ![x] = "run"]
        /\ UNCHANGED <<on, offer, back>>
    BY <1>2 DEF Begin
  <2>2. Len(stack[x][Len(stack[x])].got) < Len(DependsOn[stack[x][Len(stack[x])].a])
    BY <1>1, <1>2, EmptySeq, LenProperties, ActionAssumption DEF Top
  <2>3. Callee(stack[x]) = Frame(DependsOn[a][1], 0)
    BY <1>1 DEF Callee, Top
  <2>4. stack'[x] = Append(stack[x], Callee(stack[x])) /\ pc'[x] = "run"
    BY <1>1, <2>1, <2>3 DEF IInv, Shapes
  <2>5. /\ Len(stack'[x]) = Len(stack[x]) + 1 /\ stack'[x][Len(stack[x]) + 1].got = <<>>
        /\ Chained(stack'[x]) /\ Fitted(stack'[x], state', act')
    <3>1. stack[x] \in Seq(Frames) /\ stack[x] # <<>>
          /\ Chained(stack[x]) /\ Fitted(stack[x], state', act')
      BY <1>1
    <3>2. /\ Len(Append(stack[x], Callee(stack[x]))) = Len(stack[x]) + 1
          /\ Append(stack[x], Callee(stack[x]))[Len(stack[x]) + 1] = Callee(stack[x])
          /\ Callee(stack[x]).got = <<>> /\ Chained(Append(stack[x], Callee(stack[x])))
          /\ Fitted(Append(stack[x], Callee(stack[x])), state', act')
      BY ONLY <2>2, <3>1, ChainGrows
    <3> QED
      BY ONLY <2>4, <3>2
  <2>6. CallsOK(x)'
    BY <2>4, <2>5 DEF CallsOK, Top
  <2> QED
    BY <1>1, <2>1, <2>6 DEF Stepped, Started, ThreadTypes, IInv, Shapes
<1>3. CASE DependsOn[a] = <<>>
  <2>1. pc' = [pc EXCEPT ![x] = "commit"] /\ UNCHANGED <<on, stack, back>> /\ Prepare(x, a, prior, 1)
    BY <1>3 DEF Begin
  <2>2. 1 \in 0 .. ClaimAttempts
    BY ActionAssumption
  <2>3. PICK launch \in Launch : offer' = [offer EXCEPT ![x] = launch] /\ Suits(launch, a)
    BY <2>1, <2>2, Prepared
  <2>4. offer'[x] = launch /\ pc'[x] = "commit" /\ stack'[x] = stack[x]
    BY <1>1, <2>1, <2>3 DEF Started, ThreadTypes, IInv, Shapes
  <2>5. CallsOK(x)'
    BY <1>1, <1>3, <2>3, <2>4 DEF CallsOK, Top, Restarting
  <2> QED
    BY <1>1, <2>1, <2>3, <2>5 DEF Stepped, Started, ThreadTypes, IInv, Shapes
<1> QED
  BY <1>2, <1>3

\* A thread goes on to spawn the row it took.
LEMMA LaunchGoes ==
  ASSUME IInv, IInv', Started, Kept, NEW x \in Workers \cup Waiters, NEW s \in Rows, Launching(x, s),
         pc[x] = "commit", state'[s] = "starting",
         x \in Workers => act'[s] = Top(x).a, x \in Waiters => s = on[x]
  PROVE  Stepped(x) /\ WaitsGoOn(x)
<1>1. pc' = [pc EXCEPT ![x] = "spawn"] /\ on' = [on EXCEPT ![x] = s]
      /\ UNCHANGED <<stack, offer, back, waits, crowded>> /\ x \in Threads
  BY Classes DEF Launching
<1>2. pc'[x] = "spawn" /\ on'[x] = s /\ \A y \in Threads \ {x} : pc'[y] = pc[y] /\ on'[y] = on[y]
  BY <1>1 DEF IInv, Shapes, Started, ThreadTypes
<1>3. CASE x \in Workers
  <2>1. CallsOK(x) /\ Fitted(stack[x], state', act')
    BY <1>3, FittedKept DEF Started, CallsOK
  <2>2. CallsOK(x)'
    BY <1>1, <1>2, <1>3, <2>1 DEF CallsOK, Top, Restarting
  <2>3. Stepped(x)
    BY <1>1, <1>2, <2>2 DEF Stepped, Started, ThreadTypes
  <2> QED
    BY <1>1, <1>3, <2>3, WaitsSame, Classes
<1>4. CASE x \in Waiters
  <2>1. /\ WaitOK(x) /\ on[x] = waits[x].s /\ waits[x].s # 0
    BY <1>4, Classes DEF Started, WaitOK
  <2>2. /\ state'[s] # "unborn" /\ act'[s] = act[s] /\ Fits(waits[x].deps, act[s], state', act')
        /\ s \notin crowded => needs'[s] = needs[s] /\ seen[s] \subseteq seen'[s]
    BY <1>1, <1>4, <2>1, FitsKept DEF WaitOK, Kept
  <2>3. WaitOK(x)'
    BY <1>1, <1>2, <1>4, <2>1, <2>2 DEF WaitOK
  <2>4. Stepped(x)
    BY <1>1, <1>2, <1>4, Classes DEF Stepped, Started, ThreadTypes
  <2> QED
    BY <1>1, <1>4, <2>3, <2>4, WaitsSameToo
<1> QED
  BY <1>3, <1>4

\* A thread that does not listen, or goes on listening, may be sent messages.
LEMMA Hears ==
  ASSUME Started, NEW x \in Threads, wake' \subseteq wake \cup Listening, asked' = asked,
         x \in Workers => pc[x] \notin {"kill", "stopfail", "check", "recv"},
         x \in Waiters => waits'[x] = waits[x]
  PROVE  Heard(x)
BY DEF Started, ThreadTypes, Heard, Listening

\* A thread whose channel is gone.
LEMMA HearsNot ==
  ASSUME Started, NEW x \in Threads, wake' \subseteq (wake \cup Listening) \ {x}, asked' = asked
  PROVE  Heard(x)
BY DEF Started, ThreadTypes, Heard

\* A row is parked, and a thread waits for its dependencies.
LEMMA ParkGoes ==
  ASSUME IInv, IInv', Started, NEW x \in Workers, NEW s \in Rows, stack[x] # <<>>, pc[x] = "park",
         ParkRow(x, s), state[s] # "unborn" => act[s] = Top(x).a,
         wake' \subseteq wake \cup Listening
  PROVE  Started'
<1>1. Top(x) \in Frames /\ x \in Threads /\ x \notin Waiters
  BY TopFrame, Classes
<1>2. PICK got \in Seq(Rows), a \in Actions : got = Top(x).got /\ a = Top(x).a
  BY <1>1 DEF Frames
<1>3. DependsOn[a] # <<>> /\ Fits(got, a, state, act)
  <2>1. Fitted(stack[x], state, act) /\ Len(stack[x]) \in 1 .. Len(stack[x]) /\ DependsOn[Top(x).a] # <<>>
    BY EmptySeq, LenProperties DEF Started, CallsOK, IInv, Shapes
  <2> QED
    BY <1>2, <2>1 DEF Fitted, Top
<1>4. Kept
  BY <1>2, <1>3, RowsPark
<1>5. /\ state' = [state EXCEPT ![s] = "starting"] /\ act' = [act EXCEPT ![s] = a]
      /\ needs' = [needs EXCEPT ![s] = got] /\ Return(x, s) /\ asked' = asked
  BY <1>2 DEF ParkRow
<1>6. state'[s] = "starting" /\ act'[s] = a /\ needs'[s] = got
  BY <1>5 DEF IInv, Shapes, Started, RowTypes
<1>7. Stepped(x)
  BY <1>2, <1>4, <1>5, <1>6, ReturnSteps
<1>8. PICK y \in Waiters : waits[y] = NoWait /\ waits' = [waits EXCEPT ![y] = [s |-> s, deps |-> got]]
  BY <1>2 DEF ParkRow
<1>9. /\ waits'[y].s = s /\ waits'[y].deps = got /\ pc'[y] = pc[y] /\ waits[y].s = 0
      /\ \A z \in Waiters \ {y} : waits'[z] = waits[z]
  BY <1>1, <1>7, <1>8, Classes DEF Stepped, IInv, Waited, NoWait
<1>10. pc[y] = "idle"
  BY <1>9, Classes DEF IInv, Threaded, Started, WaitOK
<1>11. WaitOK(y)'
  BY <1>3, <1>4, <1>6, <1>9, <1>10, FitsKept DEF WaitOK
<1>12. WaitsGoOn(x)
  BY <1>1, <1>9, <1>11 DEF WaitsGoOn
<1>13. Heard(x)
  BY <1>1, <1>5, Hears
<1> QED
  BY <1>1, <1>4, <1>7, <1>12, <1>13, StartedTogether

\* A step that leaves the rows alone.
LEMMA QuietSteps ==
  ASSUME IInv, IInv', Started, NEW x \in Threads, UNCHANGED <<rows, ptys, history, waits>>,
         Kept => Stepped(x), x \in Waiters => WaitOK(x)', Heard(x)
  PROVE  Started'
<1>1. Kept
  BY RowsQuiet DEF rows, ptys, history, Started, RowTypes
<1>2. WaitsGoOn(x)
  BY WaitsSame, WaitsSameToo
<1> QED
  BY <1>1, <1>2, StartedTogether

-----------------------------------------------------------------------------
(* The steps, once more.                                                   *)

\* Running and launching.
LEMMA LaunchingStarted ==
  ASSUME IInv, IInv', Started, NEW x \in Threads,
         \/ RunAction(x) \/ RestartTask(x) \/ Reprepare(x)
         \/ CommitRun(x) \/ CommitRestart(x) \/ CommitQueued(x)
         \/ Queue(x) \/ Requeue(x)
  PROVE  Started'
<1>0. ASSUME NEW s \in Live(Top(x).a) PROVE s \in Rows /\ state[s] # "unborn" /\ act[s] = Top(x).a
  BY <1>0 DEF Live, IsActive
<1>1. CASE RunAction(x)
  <2>1. x \in Workers /\ stack[x] # <<>> /\ Top(x).a \in Actions /\ x \notin Waiters /\ pc[x] = "run"
    BY <1>1, InCall, TopFrame, Classes DEF RunAction
  <2>2. Top(x).got = <<>>
    BY <2>1 DEF Started, CallsOK
  <2>3. UNCHANGED <<rows, ptys, waits, wake, history, asked>>
    BY <1>1 DEF RunAction
  <2>4. ASSUME Kept PROVE Stepped(x)
    <3>1. CASE AlreadyRuns(Top(x).a)
      <4>1. PICK s \in Live(Top(x).a) : Return(x, s)
        BY <1>1, <3>1 DEF RunAction
      <4> QED
        BY <1>0, <2>1, <2>3, <2>4, <4>1, ReturnSteps DEF rows
    <3>2. CASE ~AlreadyRuns(Top(x).a)
      BY <1>1, <2>1, <2>2, <2>4, <3>2, BeginSteps DEF RunAction
    <3> QED
      BY <3>1, <3>2
  <2>5. Heard(x)
    BY <2>1, <2>3, Hears
  <2> QED
    BY <2>1, <2>3, <2>4, <2>5, QuietSteps
<1>2. CASE RestartTask(x)
  <2>1. x \in Workers /\ stack[x] # <<>> /\ x \notin Waiters /\ pc[x] = "restart"
    BY <1>2, InCall, Classes DEF RestartTask
  <2>2. /\ Top(x).got = <<>> /\ Top(x).s \in Rows /\ act[Top(x).s] = Top(x).a /\ Top(x).a \in Actions
    BY <2>1, TopFrame DEF Started, CallsOK, Restarting
  <2>3. UNCHANGED <<rows, ptys, waits, wake, history, asked>>
    BY <1>2 DEF RestartTask
  <2>4. ASSUME Kept PROVE Stepped(x)
    <3>1. CASE Raise(x)
      BY <2>1, <2>4, <3>1, RaiseSteps
    <3>2. CASE Begin(x, act[Top(x).s], port[Top(x).s])
      BY <2>1, <2>2, <2>4, <3>2, BeginSteps
    <3> QED
      BY <1>2, <3>1, <3>2 DEF RestartTask
  <2>5. Heard(x)
    BY <2>1, <2>3, Hears
  <2> QED
    BY <2>1, <2>3, <2>4, <2>5, QuietSteps
<1>3. CASE Reprepare(x)
  <2>1. /\ x \in Workers \cup Waiters /\ pc[x] = "commit" /\ (x \in Workers => x \notin Waiters /\ stack[x] # <<>>)
    BY <1>3, InCall, Classes DEF Reprepare
  <2>2. UNCHANGED <<rows, ptys, waits, wake, history, asked>>
    BY <1>3 DEF Reprepare
  <2>3. Heard(x)
    BY <2>1, <2>2, Hears
  <2>4. Kept
    BY <2>2, RowsQuiet DEF rows, ptys, history, Started, RowTypes
  <2>5. CASE offer[x].tries >= ClaimAttempts
    <3>1. CASE x \in Workers
      BY <1>3, <2>1, <2>2, <2>3, <2>5, <3>1, RaiseSteps, QuietSteps DEF Reprepare
    <3>2. CASE x \notin Workers
      BY <1>3, <2>1, <2>2, <2>3, <2>4, <2>5, <3>2, WaiterGoes, StartedTogether DEF Reprepare
    <3> QED
      BY <3>1, <3>2
  <2>6. CASE ~(offer[x].tries >= ClaimAttempts)
    <3> DEFINE a == IF x \in Workers THEN Top(x).a ELSE act[on[x]]
    <3>1. Prepare(x, a, 0, offer[x].tries + 1) /\ UNCHANGED <<pc, on, stack, back>>
      BY <1>3, <2>6 DEF Reprepare
    <3>2. a \in Actions
      BY <2>1, TopFrame DEF IInv, Shapes, Threaded
    <3>3. offer[x].tries + 1 \in 0 .. ClaimAttempts
      <4>1. offer[x].tries \in 0 .. ClaimAttempts
        BY <2>1 DEF Started, ThreadTypes, Launch
      <4> QED
        BY <2>6, <4>1, ActionAssumption
    <3>4. PICK launch \in Launch : offer' = [offer EXCEPT ![x] = launch] /\ Suits(launch, a)
      BY <2>1, <3>1, <3>2, <3>3, Prepared
    <3>5. offer'[x] = launch /\ offer' \in [Workers \cup Waiters -> Launch]
          /\ \A y \in (Workers \cup Waiters) \ {x} : offer'[y] = offer[y]
      BY <2>1, <3>4 DEF Started, ThreadTypes
    <3>6. x \in Workers => CallsOK(x)'
      BY <2>2, <3>1, <3>4, <3>5 DEF Started, CallsOK, Top, rows
    <3>7. x \in Waiters => WaitOK(x)'
      BY <2>1, <2>2, <3>1, <3>4, <3>5, Classes DEF Started, WaitOK, rows, history
    <3>8. Stepped(x)
      BY <3>1, <3>5, <3>6 DEF Stepped, Started, ThreadTypes
    <3> QED
      BY <2>2, <2>3, <3>7, <3>8, QuietSteps
  <2> QED
    BY <2>5, <2>6
<1>4. CASE CommitRun(x)
  <2>1. x \in Workers /\ x \notin Waiters /\ stack[x] # <<>> /\ Top(x).a \in Actions /\ pc[x] = "commit"
    BY <1>4, InCall, TopFrame, Classes DEF CommitRun
  <2>2. CASE AlreadyRuns(Top(x).a)
    <3>1. PICK s \in Live(Top(x).a) : Return(x, s)
      BY <1>4, <2>2 DEF CommitRun
    <3>2. UNCHANGED <<rows, ptys, waits, wake, history, asked>>
      BY <1>4, <2>2 DEF CommitRun
    <3>3. Kept => Stepped(x)
      BY <1>0, <2>1, <3>1, <3>2, ReturnSteps DEF rows
    <3>4. Heard(x)
      BY <2>1, <3>2, Hears
    <3> QED
      BY <2>1, <3>2, <3>3, <3>4, QuietSteps
  <2>3. CASE ~AlreadyRuns(Top(x).a)
    <3>1. PICK a \in Actions : a = Top(x).a
      BY <2>1
    <3>2. PICK s \in Rows : /\ state[s] = "unborn" /\ act' = [act EXCEPT ![s] = a]
                            /\ Launching(x, s) /\ UNCHANGED <<term, wake>>
      BY <1>4, <2>3, <3>1 DEF CommitRun
    <3>3. Suits(offer[x], a) /\ DependsOn[a] = <<>>
      BY <2>1, <3>1 DEF Started, CallsOK
    <3>4. term' = [term EXCEPT ![s] = 0]
      BY <3>2 DEF Started, RowTypes, RowOK
    <3>5. Kept
      BY <2>1, <3>2, <3>3, <3>4, RowsLaunch
    <3>6. state'[s] = "starting" /\ act'[s] = a /\ asked' = asked
      BY <3>2 DEF Launching, IInv, Shapes
    <3>7. Stepped(x) /\ WaitsGoOn(x)
      BY <2>1, <3>1, <3>2, <3>5, <3>6, LaunchGoes
    <3>8. Heard(x)
      BY <2>1, <3>2, <3>6, Hears
    <3> QED
      BY <3>5, <3>7, <3>8, StartedTogether
  <2> QED
    BY <2>2, <2>3
<1>5. CASE CommitRestart(x)
  <2>1. /\ x \in Workers /\ x \notin Waiters /\ stack[x] # <<>> /\ Top(x).s # 0 /\ pc[x] = "commit"
    BY <1>5, InCall, Classes DEF CommitRestart
  <2>2. /\ Top(x).a \in Actions /\ Top(x).s \in Rows /\ act[Top(x).s] = Top(x).a
    BY <2>1, TopFrame
  <2>3. CASE Raise(x) /\ UNCHANGED <<rows, ptys, waits, wake, history, asked>>
    BY <2>1, <2>3, RaiseSteps, Hears, QuietSteps
  <2>4. CASE /\ UNCHANGED act /\ Launching(x, Top(x).s) /\ term' = [term EXCEPT ![Top(x).s] = 0]
             /\ WakeWaiters
    <3>1. PICK a \in Actions, s \in Rows : a = Top(x).a /\ s = Top(x).s
      BY <2>2
    <3>2. act' = [act EXCEPT ![s] = a] /\ Launching(x, s) /\ act[s] = a /\ term' = [term EXCEPT ![s] = 0]
      BY <2>2, <2>4, <3>1 DEF IInv, Shapes
    <3>3. Suits(offer[x], a) /\ DependsOn[a] = <<>>
      BY <2>1, <3>1 DEF Started, CallsOK
    <3>4. Kept
      BY <2>1, <3>2, <3>3, RowsLaunch
    <3>5. state'[s] = "starting" /\ act'[s] = a /\ asked' = asked /\ wake' = wake \cup Listening
      BY <2>4, <3>2 DEF Launching, IInv, Shapes, WakeWaiters
    <3>6. Stepped(x) /\ WaitsGoOn(x)
      BY <2>1, <3>1, <3>2, <3>4, <3>5, LaunchGoes
    <3>7. Heard(x)
      BY <2>1, <3>5, Hears
    <3> QED
      BY <3>4, <3>6, <3>7, StartedTogether
  <2> QED
    BY <1>5, <2>3, <2>4 DEF CommitRestart
<1>6. CASE CommitQueued(x)
  <2>1. x \in Waiters /\ x \notin Workers /\ pc[x] = "commit" /\ on[x] \in Rows
    BY <1>6, Classes DEF CommitQueued, IInv, Threaded
  <2>2. CASE Leave(x) /\ wake' = wake \ {x} /\ UNCHANGED <<rows, ptys, history, asked>>
    <3>1. Kept
      BY <2>2, RowsQuiet DEF rows, ptys, history, Started, RowTypes
    <3> QED
      BY <2>1, <2>2, <3>1, DoneSteps, WaitEnds, HearsNot, StartedTogether DEF Leave
  <2>3. CASE state[on[x]] = "starting" /\ UNCHANGED <<act, term, wake>> /\ Launching(x, on[x])
    <3>1. PICK a \in Actions, s \in Rows : a = act[on[x]] /\ s = on[x]
      BY <2>1 DEF IInv, Shapes
    <3>2. act' = [act EXCEPT ![s] = a] /\ Launching(x, s) /\ act[s] = a /\ state[s] = "starting"
      BY <2>3, <3>1 DEF IInv, Shapes
    <3>3. Suits(offer[x], a)
      BY <2>1, <3>1 DEF Started, WaitOK
    <3>4. term' = [term EXCEPT ![s] = 0]
      BY <2>3, <3>2 DEF Started, RowTypes, RowOK
    <3>5. Kept
      BY <2>1, <3>2, <3>3, <3>4, RowsLaunch
    <3>6. state'[s] = "starting" /\ asked' = asked /\ UNCHANGED waits
      BY <3>2 DEF Launching, IInv, Shapes
    <3>7. Stepped(x) /\ WaitsGoOn(x)
      BY <2>1, <3>1, <3>2, <3>5, <3>6, LaunchGoes
    <3>8. Heard(x)
      BY <2>1, <2>3, <3>6, Hears
    <3> QED
      BY <3>5, <3>7, <3>8, StartedTogether
  <2> QED
    BY <1>6, <2>2, <2>3 DEF CommitQueued
<1>7. CASE Queue(x)
  <2>1. x \in Workers /\ x \notin Waiters /\ stack[x] # <<>> /\ pc[x] = "park"
    BY <1>7, InCall, Classes DEF Queue
  <2>2. CASE AlreadyRuns(Top(x).a)
    <3>1. PICK s \in Live(Top(x).a) : Return(x, s)
      BY <1>7, <2>2 DEF Queue
    <3>2. UNCHANGED <<rows, ptys, waits, wake, history, asked>>
      BY <1>7, <2>2 DEF Queue
    <3>3. Kept => Stepped(x)
      BY <1>0, <2>1, <3>1, <3>2, ReturnSteps DEF rows
    <3>4. Heard(x)
      BY <2>1, <3>2, Hears
    <3> QED
      BY <2>1, <3>2, <3>3, <3>4, QuietSteps
  <2>3. CASE ~AlreadyRuns(Top(x).a)
    BY <1>7, <2>1, <2>3, ParkGoes DEF Queue
  <2> QED
    BY <2>2, <2>3
<1>8. CASE Requeue(x)
  <2>1. /\ x \in Workers /\ x \notin Waiters /\ stack[x] # <<>> /\ Top(x).s # 0 /\ pc[x] = "park"
    BY <1>8, InCall, Classes DEF Requeue
  <2>2. CASE Raise(x) /\ UNCHANGED <<rows, ptys, waits, wake, history, asked>>
    BY <2>1, <2>2, RaiseSteps, Hears, QuietSteps
  <2>3. CASE ParkRow(x, Top(x).s) /\ WakeWaiters
    BY <2>1, <2>3, TopFrame, ParkGoes DEF WakeWaiters
  <2> QED
    BY <1>8, <2>2, <2>3 DEF Requeue
<1> QED
  BY <1>1, <1>2, <1>3, <1>4, <1>5, <1>6, <1>7, <1>8

\* The verdict lets a row go only when each of its dependencies is up, and so was seen.
LEMMA VerdictSeen ==
  ASSUME IInv, Started, NEW y \in Waiters, pc[y] # "idle", on[y] \notin crowded,
         Verdict(act[on[y]], waits[y].deps) = "ready"
  PROVE  Elements(needs[on[y]]) \subseteq seen[on[y]]
<1>1. PICK s \in Rows, a \in Actions, deps \in Seq(Rows) :
        s = on[y] /\ a = act[s] /\ deps = waits[y].deps /\ deps = needs[s] /\ Fits(deps, a, state, act)
  <2>1. on[y] = waits[y].s /\ on[y] \in Rows
    BY Classes DEF IInv, Threaded, Shapes, Started, WaitOK
  <2>2. on[y] # 0
    BY <2>1, Classes
  <2>3. /\ Fits(waits[y].deps, act[on[y]], state, act) /\ waits[y].deps = needs[on[y]]
        /\ act[on[y]] \in Actions
    BY <2>1, <2>2 DEF Started, WaitOK, IInv, Shapes
  <2>4. waits[y].deps \in Seq(Rows)
    BY <2>3 DEF Fits
  <2> QED
    BY <2>1, <2>3, <2>4
<1>2. ASSUME NEW i \in 1 .. Len(deps) PROVE Up(deps[i])
  <2>1. deps[i] \in Rows /\ act[deps[i]] = DependsOn[a][i] /\ i \in DOMAIN deps
    BY <1>1, ElementOfSeq, LenProperties DEF Fits
  <2>2. Answer(deps[i], DependsOn[a][i] \in Serves) = "go"
    <3>1. Verdict(a, deps) = "ready"
      BY <1>1
    <3>2. /\ Answer(deps[i], DependsOn[a][i] \in Serves) \in
               {Answer(deps[j], DependsOn[a][j] \in Serves) : j \in DOMAIN deps}
          /\ Answer(deps[i], DependsOn[a][i] \in Serves) \in {"go", "wait", "never"}
      BY <2>1 DEF Answer
    <3> QED
      BY <3>1, <3>2 DEF Verdict
  <2>3. rdy[deps[i]] = "unprobed" => act[deps[i]] \notin Probed
    BY <2>1 DEF Started, RowOK
  <2> QED
    BY <2>1, <2>2, <2>3 DEF Answer, Up
<1>3. \A d \in Elements(needs[s]) : Up(d)
  BY <1>1, <1>2, LenProperties DEF Elements
<1> QED
  BY <1>1, <1>3 DEF Started, RowOK

\* Rows are also failed.
LEMMA RowsFail ==
  ASSUME IInv, IInv', Started, NEW s \in Rows \cup {0}, SetFailed(s), Note,
         UNCHANGED <<ptys, by, needs, crowded>>
  PROVE  Kept
<1>1. UNCHANGED <<act, rdy, port, marked>>
      /\ \/ state[s] = "starting" /\ state' = [state EXCEPT ![s] = "failed"] /\ term' = [term EXCEPT ![s] = 0]
         \/ UNCHANGED <<state, term>>
  BY DEF SetFailed, rows
<1>2. term' \in [Rows -> Terms \cup {0}]
  BY <1>1 DEF Started, RowTypes
<1>3. \A q \in Rows : \/ state'[q] = state[q] /\ term'[q] = term[q]
                      \/ state[q] # "unborn" /\ state'[q] \notin {"unborn", "starting", "running"}
  BY <1>1 DEF IInv, Shapes, Started, RowTypes
<1> QED
  BY <1>1, <1>2, <1>3, RowsEnd DEF ptys, Started, RowTypes

\* Spawning, failing and waiting.
LEMMA WaitingStarted ==
  ASSUME IInv, IInv', Started, NEW x \in Threads,
         \/ Spawn(x) \/ SpawnFails(x) \/ Fail(x)
         \/ AwaitDependencies(x) \/ Recv(x) \/ PrepareQueued(x) \/ (Deadline(x) /\ x \in Workers \cup Waiters)
         \/ (StartWaiter(x) /\ x \in Waiters)
  PROVE  Started'
<1>1. CASE Spawn(x)
  <2>1. on[x] \in Rows /\ x \in Workers \cup Waiters /\ pc[x] = "spawn" /\ asked' = asked
    BY <1>1, InCall DEF Spawn, IInv, Threaded
  <2>2. Kept
    BY <1>1, <2>1, RowsSpawn
  <2>3. CASE x \in Workers
    <3>1. Return(x, on[x]) /\ UNCHANGED <<waits, act>> /\ wake' \subseteq wake \cup Listening
      BY <1>1, <2>3 DEF Spawn
    <3>2. stack[x] # <<>> /\ x \notin Waiters
      BY <2>1, <2>3, InCall, Classes
    <3>3. state'[on[x]] # "unborn" /\ act'[on[x]] = Top(x).a
      BY <2>1, <2>2, <2>3 DEF Started, CallsOK, Kept
    <3>4. PICK s \in Rows : s = on[x]
      BY <2>1
    <3>5. Stepped(x)
      BY <2>2, <2>3, <3>1, <3>2, <3>3, <3>4, ReturnSteps
    <3> QED
      BY <2>1, <2>2, <3>1, <3>2, <3>5, WaitsSame, Hears, StartedTogether
  <2>4. CASE x \notin Workers
    <3>1. Leave(x) /\ x \in Waiters /\ wake' \subseteq (wake \cup Listening) \ {x}
      BY <1>1, <2>1, <2>4 DEF Spawn
    <3> QED
      BY <2>1, <2>2, <3>1, DoneSteps, WaitEnds, HearsNot, StartedTogether DEF Leave
  <2> QED
    BY <2>3, <2>4
<1>2. CASE SpawnFails(x)
  <2>1. /\ pc[x] = "spawn" /\ Goto(x, "fail") /\ UNCHANGED <<rows, ptys, waits, wake, history, asked>>
        /\ x \in Workers \cup Waiters
    BY <1>2, InCall DEF SpawnFails
  <2>2. Kept
    BY <2>1, RowsQuiet DEF rows, ptys, history, Started, RowTypes
  <2>3. Heard(x)
    BY <2>1, Hears
  <2>4. CASE x \in Workers
    BY <2>1, <2>2, <2>3, <2>4, WorkerGoes, WaitsSame, Classes, StartedTogether DEF Restarting
  <2>5. CASE x \in Waiters
    BY <2>1, <2>2, <2>3, <2>5, WaiterGoes, StartedTogether
  <2> QED
    BY <2>1, <2>4, <2>5
<1>3. CASE Fail(x)
  <2>1. /\ pc[x] = "fail" /\ SetFailed(on[x]) /\ UNCHANGED <<ptys, by, needs, crowded, asked>> /\ Note
        /\ wake' \subseteq (wake \cup Listening) \ (IF x \in Waiters THEN {x} ELSE {})
        /\ x \in Workers \cup Waiters
        /\ IF x \in Workers THEN Raise(x) /\ UNCHANGED waits ELSE Leave(x)
    BY <1>3, InCall DEF Fail
  <2>2. Kept
    <3>1. PICK s \in Rows \cup {0} : s = on[x]
      BY DEF Started, ThreadTypes
    <3> QED
      BY <2>1, <3>1, RowsFail
  <2>3. CASE x \in Workers
    BY <2>1, <2>2, <2>3, RaiseSteps, WaitsSame, Hears, Classes, StartedTogether
  <2>4. CASE x \notin Workers
    BY <2>1, <2>2, <2>4, DoneSteps, WaitEnds, HearsNot, StartedTogether DEF Leave
  <2> QED
    BY <2>3, <2>4
<1>4. CASE AwaitDependencies(x)
  <2>1. x \in Waiters /\ pc[x] = "check" /\ UNCHANGED <<rows, ptys, history, asked>>
    BY <1>4 DEF AwaitDependencies
  <2>2. Kept
    BY <2>1, RowsQuiet DEF rows, ptys, history, Started, RowTypes
  <2>3. CASE Leave(x) /\ wake' = wake \ {x}
    BY <2>1, <2>2, <2>3, DoneSteps, WaitEnds, HearsNot, StartedTogether DEF Leave
  <2>4. ASSUME NEW place \in {"prepare", "fail", "recv"}, Goto(x, place), UNCHANGED <<waits, wake>>,
               place = "prepare" => Verdict(act[on[x]], waits[x].deps) = "ready"
        PROVE  Started'
    <3>1. place = "prepare" /\ on[x] \notin crowded => Elements(needs[on[x]]) \subseteq seen[on[x]]
      BY <2>1, <2>4, VerdictSeen
    <3>2. Stepped(x) /\ WaitsGoOn(x)
      BY <2>1, <2>2, <2>4, <3>1, WaiterGoes
    <3>3. Heard(x)
      BY <2>1, <2>4, Hears, Classes
    <3> QED
      BY <2>2, <3>2, <3>3, StartedTogether
  <2> QED
    BY <1>4, <2>3, <2>4 DEF AwaitDependencies
<1>5. CASE Recv(x)
  <2>1. /\ pc[x] = "recv" /\ x \in wake /\ wake' = wake \ {x} /\ Goto(x, "check")
        /\ UNCHANGED <<rows, ptys, waits, history, asked>> /\ x \in Workers \cup Waiters
    BY <1>5, InCall DEF Recv
  <2>2. Kept
    BY <2>1, RowsQuiet DEF rows, ptys, history, Started, RowTypes
  <2>3. Heard(x)
    BY <2>1, HearsNot
  <2>4. CASE x \in Workers
    BY <2>1, <2>2, <2>3, <2>4, WorkerGoes, WaitsSame, Classes, StartedTogether DEF Restarting
  <2>5. CASE x \in Waiters
    BY <2>1, <2>2, <2>3, <2>5, WaiterGoes, StartedTogether
  <2> QED
    BY <2>1, <2>4, <2>5
<1>6. CASE PrepareQueued(x)
  <2>1. x \in Waiters /\ x \notin Workers /\ pc[x] = "prepare"
    BY <1>6, InCall, Classes DEF PrepareQueued, Started, CallsOK
  <2>2. /\ Prepare(x, act[on[x]], 0, 1) /\ pc' = [pc EXCEPT ![x] = "commit"]
        /\ UNCHANGED <<rows, ptys, on, stack, back, waits, wake, history, asked>>
    BY <1>6 DEF PrepareQueued
  <2>3. act[on[x]] \in Actions /\ 1 \in 0 .. ClaimAttempts
    BY <2>1, ActionAssumption DEF IInv, Shapes, Threaded
  <2>4. PICK launch \in Launch : offer' = [offer EXCEPT ![x] = launch] /\ Suits(launch, act[on[x]])
    BY <2>1, <2>2, <2>3, Prepared
  <2>5. pc'[x] = "commit" /\ offer'[x] = launch /\ offer' \in [Workers \cup Waiters -> Launch]
        /\ \A y \in (Workers \cup Waiters) \ {x} : offer'[y] = offer[y]
    BY <2>1, <2>2, <2>4 DEF IInv, Shapes, Started, ThreadTypes
  <2>6. WaitOK(x)'
    BY <2>1, <2>2, <2>4, <2>5 DEF Started, WaitOK, rows, history
  <2>7. Stepped(x)
    BY <2>1, <2>2, <2>5 DEF Stepped, Started, ThreadTypes, IInv, Shapes
  <2>8. Heard(x)
    BY <2>1, <2>2, Hears
  <2> QED
    BY <2>2, <2>6, <2>7, <2>8, QuietSteps
<1>7. CASE Deadline(x) /\ x \in Workers \cup Waiters
  <2>1. /\ pc[x] = "recv" /\ x \notin wake /\ UNCHANGED <<rows, ptys, waits, wake, history, asked>>
    BY <1>7 DEF Deadline
  <2>2. Kept
    BY <2>1, RowsQuiet DEF rows, ptys, history, Started, RowTypes
  <2>3. Heard(x)
    BY <2>1, HearsNot
  <2>4. CASE x \in Waiters
    BY <1>7, <2>1, <2>2, <2>3, <2>4, WaiterGoes, StartedTogether DEF Deadline
  <2>5. CASE x \notin Waiters
    BY <1>7, <2>1, <2>2, <2>3, <2>5, DoneSteps, WaitsSame, StartedTogether DEF Deadline
  <2> QED
    BY <2>4, <2>5
<1>8. CASE StartWaiter(x) /\ x \in Waiters
  <2>1. /\ pc' = [pc EXCEPT ![x] = "check"] /\ on' = [on EXCEPT ![x] = waits[x].s]
        /\ waits[x].s # 0 /\ UNCHANGED <<rows, ptys, stack, offer, back, waits, wake, history, asked>>
        /\ waits[x].s \in Rows /\ x \notin Workers
    BY <1>8, Classes DEF StartWaiter, IInv, Waited
  <2>2. pc'[x] = "check" /\ on'[x] = waits[x].s
    BY <2>1 DEF IInv, Shapes, Started, ThreadTypes
  <2>3. WaitOK(x)'
    BY <1>8, <2>1, <2>2 DEF Started, WaitOK, rows, history
  <2>4. Stepped(x)
    BY <2>1 DEF Stepped, Started, ThreadTypes, IInv, Shapes
  <2>5. Heard(x)
    BY <2>1, Hears
  <2> QED
    BY <2>1, <2>3, <2>4, <2>5, QuietSteps
<1> QED
  BY <1>1, <1>2, <1>3, <1>4, <1>5, <1>6, <1>7, <1>8

\* A worker or a terminal that closes a row goes on, or is done.
LEMMA CloserGoes ==
  ASSUME IInv, IInv', Started, Kept, NEW x \in Workers \cup Terms, NEW place \in {"closeif", "close", "delete"},
         Goto(x, place) \/ Done(x), UNCHANGED waits
  PROVE  Stepped(x) /\ WaitsGoOn(x)
<1>1. x \in Threads /\ x \notin Waiters
  BY Classes
<1>2. Stepped(x)
  <2>1. CASE Done(x)
    BY <1>1, <2>1, DoneSteps
  <2>2. CASE Goto(x, place) /\ x \in Workers
    BY <2>2, WorkerGoes DEF Restarting
  <2>3. CASE Goto(x, place) /\ x \in Terms
    BY <2>3, TerminalGoes DEF Goto
  <2> QED
    BY <2>1, <2>2, <2>3
<1> QED
  BY <1>1, <1>2, WaitsSame

\* A worker that listens goes on listening.
LEMMA StillHears ==
  ASSUME IInv, Started, NEW x \in Workers, NEW place, Goto(x, place),
         wake' \subseteq wake \cup Listening, asked' = asked,
         back[x] = "bounce" => place \in {"kill", "stopfail", "check", "recv"}
  PROVE  Heard(x)
<1>1. pc'[x] = place /\ back'[x] = back[x]
  BY Classes DEF Goto, IInv, Shapes
<1>2. x \in Listening => x \in Listening'
  BY <1>1, Classes DEF Listening
<1> QED
  BY <1>2 DEF Heard, Started, ThreadTypes

\* Stopping, restarting and closing.
LEMMA EndingStarted ==
  ASSUME IInv, IInv', Started, NEW x \in Threads,
         \/ Kill(x) \/ StopBeforeStart(x) \/ RestartOnceExited(x) \/ FailRestart(x)
         \/ CloseIfStopped(x) \/ CloseSession(x) \/ DeleteSession(x)
  PROVE  Started'
<1>1. CASE Kill(x)
  <2>1. /\ x \in Workers /\ x \notin Waiters /\ pc[x] = "kill" /\ x \in Threads \ Waiters
        /\ UNCHANGED <<state, act, rdy, port, term, ptys, waits, history, asked>>
        /\ marked' \subseteq Rows
    BY <1>1, InCall, Classes DEF Kill, Started, RowTypes
  <2>2. Kept
    BY <2>1, RowsQuiet DEF history
  <2>3. CASE Done(x) /\ wake' = wake \ {x}
    BY <2>1, <2>2, <2>3, DoneSteps, WaitsSame, HearsNot, StartedTogether
  <2>4. ASSUME NEW place \in {"stopfail", "check", "closeif"}, Goto(x, place), UNCHANGED wake,
               back[x] = "bounce" => place # "closeif"
        PROVE  Started'
    <3>1. Stepped(x)
      BY <2>1, <2>2, <2>4, WorkerGoes DEF Restarting
    <3>2. Heard(x)
      BY <2>1, <2>4, StillHears
    <3> QED
      BY <2>1, <2>2, <3>1, <3>2, WaitsSame, StartedTogether
  <2> QED
    BY <1>1, <2>3, <2>4 DEF Kill, AfterKill
<1>2. CASE StopBeforeStart(x)
  <2>1. /\ x \in Workers /\ x \in Threads \ Waiters /\ pc[x] = "stopfail"
        /\ SetFailed(on[x]) /\ Goto(x, AfterKill(x)) /\ wake' \subseteq wake \cup Listening
        /\ UNCHANGED <<ptys, waits, by, needs, crowded, asked>> /\ Note
    BY <1>2, InCall, Classes DEF StopBeforeStart
  <2>2. Kept
    <3>1. PICK s \in Rows \cup {0} : s = on[x]
      BY DEF Started, ThreadTypes
    <3> QED
      BY <2>1, <3>1, RowsFail
  <2>3. PICK place \in {"check", "closeif"} : place = AfterKill(x) /\ (back[x] = "bounce" => place = "check")
    BY DEF AfterKill
  <2>4. Stepped(x)
    BY <2>1, <2>2, <2>3, WorkerGoes DEF Restarting
  <2>5. Heard(x)
    BY <2>1, <2>3, StillHears
  <2> QED
    BY <2>1, <2>2, <2>4, <2>5, WaitsSame, StartedTogether
<1>3. CASE RestartOnceExited(x)
  <2>1. /\ x \in Workers /\ x \in Threads \ Waiters /\ pc[x] = "check"
        /\ UNCHANGED <<rows, ptys, waits, history, asked>>
    BY <1>3, Classes DEF RestartOnceExited
  <2>2. Kept
    BY <2>1, RowsQuiet DEF rows, history, Started, RowTypes
  <2>3. CASE Done(x) /\ wake' = wake \ {x}
    BY <2>1, <2>2, <2>3, DoneSteps, WaitsSame, HearsNot, StartedTogether
  <2>4. CASE Goto(x, "restart") /\ wake' = wake \ {x}
    BY <2>1, <2>2, <2>4, WorkerGoes, WaitsSame, HearsNot, StartedTogether DEF Restarting
  <2>5. CASE Goto(x, "recv") /\ UNCHANGED wake
    BY <2>1, <2>2, <2>5, WorkerGoes, WaitsSame, StillHears, StartedTogether DEF Restarting
  <2> QED
    BY <1>3, <2>3, <2>4, <2>5 DEF RestartOnceExited
<1>4. CASE FailRestart(x)
  <2>1. /\ x \in Workers /\ x \in Threads \ Waiters /\ pc[x] = "failrestart" /\ Done(x) /\ Note
        /\ UNCHANGED <<act, rdy, port, term, marked, ptys, waits, by, needs, crowded, asked>>
        /\ wake' \subseteq wake \cup Listening
        /\ state' = state \/ (state[on[x]] \in {"ok", "bad"} /\ state' = [state EXCEPT ![on[x]] = "failed"])
    BY <1>4, InCall, Classes DEF FailRestart, WakeWaiters
  <2>2. \A s \in Rows : \/ state'[s] = state[s] /\ term'[s] = term[s]
                        \/ state[s] # "unborn" /\ state'[s] \notin {"unborn", "starting", "running"}
    BY <2>1 DEF IInv, Shapes
  <2>3. Kept
    BY <2>1, <2>2, RowsEnd DEF ptys, Started, RowTypes
  <2> QED
    BY <2>1, <2>3, DoneSteps, WaitsSame, Hears, StartedTogether
<1>5. CASE CloseIfStopped(x)
  <2>1. /\ x \in Workers \cup Terms /\ x \notin Waiters /\ pc[x] = "closeif" /\ (Goto(x, "close") \/ Done(x))
        /\ UNCHANGED <<state, act, rdy, port, term, ptys, waits, wake, history, asked>>
        /\ marked' \subseteq Rows
    BY <1>5, InCall, Classes DEF CloseIfStopped, Started, RowTypes
  <2>2. Kept
    BY <2>1, RowsQuiet DEF history
  <2>3. Stepped(x) /\ WaitsGoOn(x)
    BY <2>1, <2>2, CloserGoes
  <2> QED
    BY <2>1, <2>2, <2>3, Hears, StartedTogether
<1>6. CASE CloseSession(x)
  <2>1. /\ x \in Workers \cup Terms /\ x \notin Waiters /\ pc[x] = "close" /\ (Goto(x, "delete") \/ Done(x))
        /\ UNCHANGED <<rows, ptys, waits, wake, history, asked>>
    BY <1>6, InCall, Classes DEF CloseSession
  <2>2. Kept
    BY <2>1, RowsQuiet DEF rows, history, Started, RowTypes
  <2>3. Stepped(x) /\ WaitsGoOn(x)
    BY <2>1, <2>2, CloserGoes
  <2> QED
    BY <2>1, <2>2, <2>3, Hears, StartedTogether
<1>7. CASE DeleteSession(x)
  <2>1. /\ x \in Workers \cup Terms /\ x \notin Waiters /\ pc[x] = "delete" /\ Done(x) /\ Note
        /\ UNCHANGED <<act, rdy, port, term, ptys, waits, wake, by, needs, crowded, asked>>
        /\ marked' \subseteq Rows
        /\ state' = [state EXCEPT ![on[x]] = IF IsActive(@) THEN "snatched" ELSE IF IsTerminal(@) THEN "closed" ELSE @]
    BY <1>7, InCall, Classes DEF DeleteSession, Started, RowTypes
  <2>2. \A s \in Rows : \/ state'[s] = state[s] /\ term'[s] = term[s]
                        \/ state[s] # "unborn" /\ state'[s] \notin {"unborn", "starting", "running"}
    BY <2>1 DEF IInv, Shapes, IsActive, IsTerminal
  <2>3. Kept
    BY <2>1, <2>2, RowsEnd DEF ptys, Started, RowTypes
  <2>4. Stepped(x) /\ WaitsGoOn(x)
    BY <2>1, <2>3, CloserGoes
  <2> QED
    BY <2>1, <2>3, <2>4, Hears, StartedTogether
<1> QED
  BY <1>1, <1>2, <1>3, <1>4, <1>5, <1>6, <1>7

\* Requests, once they are accepted.
LEMMA AskingStarted ==
  ASSUME IInv, IInv', Started, NEW x \in Workers,
         \/ \E a \in Actions : AskRun(x, a)
         \/ \E s \in Rows : AskRestart(x, s) \/ AskStop(x, s) \/ AskClose(x, s)
  PROVE  Started'
<1>1. x \in Threads \ Waiters /\ x \in Threads
  BY Classes
<1>2. ASSUME NEW kind, Request(x, kind)
      PROVE  pc[x] = "idle" /\ stack[x] = <<>> /\ asked' \in 0 .. MaxRequests
  <2>1. pc[x] = "idle" /\ asked < MaxRequests /\ asked' = asked + 1
    BY <1>2 DEF Request
  <2> QED
    BY <2>1, ActionAssumption DEF Started, ThreadTypes, IInv, Threaded
<1>3. ASSUME NEW place \in Restarting \cup {"run", "close"}, NEW s \in Rows \cup {0}, NEW r \in Rows \cup {0},
             pc' = [pc EXCEPT ![x] = place], on' = [on EXCEPT ![x] = r], pc[x] = "idle",
             \/ (stack' = stack /\ stack[x] = <<>>)
             \/ \E a \in Actions : stack' = [stack EXCEPT ![x] = <<Frame(a, s)>>],
             \A y \in Workers \ {x} : back'[y] = back[y],
             UNCHANGED <<offer, waits, wake>>, asked' \in 0 .. MaxRequests, Kept
      PROVE  Started'
  <2>1. Fitted(<<>>, state', act') /\ Chained(<<>>)
    BY DEF Fitted, Chained
  <2>2. ASSUME NEW a \in Actions
        PROVE  /\ Fitted(<<Frame(a, s)>>, state', act') /\ Chained(<<Frame(a, s)>>)
               /\ <<Frame(a, s)>>[Len(<<Frame(a, s)>>)].got = <<>>
    <3>1. Fits(<<>>, a, state', act')
      <4>1. Len(<<>>) = 0 /\ <<>> \in Seq(Rows) /\ 1 .. 0 = {} /\ Len(DependsOn[a]) \in Nat
        BY EmptySeq, LenProperties, ActionAssumption
      <4> QED
        BY <4>1 DEF Fits
    <3>2. /\ Len(<<Frame(a, s)>>) = 1 /\ <<Frame(a, s)>>[1] = Frame(a, s) /\ 1 .. 0 = {} /\ 1 - 1 = 0
          /\ Frame(a, s).got = <<>> /\ Frame(a, s).a = a
      BY DEF Frame
    <3> QED
      BY <3>1, <3>2 DEF Fitted, Chained
  <2>3. /\ pc'[x] = place
        /\ \/ stack'[x] = <<>>
           \/ \E a \in Actions : stack'[x] = <<Frame(a, s)>>
    BY <1>1, <1>3 DEF IInv, Shapes
  <2>4. CallsOK(x)'
    <3>1. Fitted(stack'[x], state', act') /\ Chained(stack'[x])
      BY <2>1, <2>2, <2>3
    <3>2. stack'[x] # <<>> => stack'[x][Len(stack'[x])].got = <<>>
      BY <2>2, <2>3
    <3> QED
      BY <2>3, <3>1, <3>2 DEF CallsOK, Top, Restarting
  <2>5. Stepped(x)
    BY <1>1, <1>3, <2>4 DEF Stepped, Started, ThreadTypes, IInv, Shapes
  <2>6. Heard(x)
    BY <1>1, <1>3 DEF Heard, Started, ThreadTypes, Listening
  <2> QED
    BY <1>1, <1>3, <2>5, <2>6, WaitsSame, StartedTogether
<1>4. ASSUME NEW a \in Actions, AskRun(x, a) PROVE Started'
  <2>1. /\ Request(x, "run") /\ pc' = [pc EXCEPT ![x] = "run"] /\ stack' = [stack EXCEPT ![x] = <<Frame(a, 0)>>]
        /\ UNCHANGED <<rows, ptys, on, offer, back, waits, wake, history>>
    BY <1>4 DEF AskRun
  <2>2. Kept
    BY <2>1, RowsQuiet DEF rows, history, Started, RowTypes
  <2>3. PICK r \in Rows \cup {0} : on' = [on EXCEPT ![x] = r]
    BY <1>1, <2>1 DEF Started, ThreadTypes
  <2> QED
    BY <1>2, <1>3, <2>1, <2>2, <2>3
<1>5. ASSUME NEW s \in Rows, AskRestart(x, s) PROVE Started'
  <2>1. /\ Request(x, "restart") /\ pc' = [pc EXCEPT ![x] = IF IsTerminal(state[s]) THEN "restart" ELSE "kill"]
        /\ back' = [back EXCEPT ![x] = IF IsTerminal(state[s]) THEN "idle" ELSE "bounce"]
        /\ marked' \subseteq marked
        /\ on' = [on EXCEPT ![x] = s] /\ stack' = [stack EXCEPT ![x] = <<Frame(act[s], s)>>]
        /\ UNCHANGED <<state, act, rdy, port, term, ptys, offer, waits, wake, history>>
    BY <1>5 DEF AskRestart
  <2>2. Kept
    BY <2>1, RowsQuiet DEF history, Started, RowTypes
  <2>3. PICK place \in {"restart", "kill"} : pc' = [pc EXCEPT ![x] = place]
    BY <2>1
  <2>4. act[s] \in Actions /\ \A y \in Workers \ {x} : back'[y] = back[y]
    BY <2>1 DEF IInv, Shapes
  <2> QED
    BY <1>2, <1>3, <2>1, <2>2, <2>3, <2>4 DEF Restarting
<1>6. ASSUME NEW s \in Rows, AskStop(x, s) \/ AskClose(x, s) PROVE Started'
  <2>1. /\ (Request(x, "stop") \/ Request(x, "close"))
        /\ \E place \in {"kill", "close"} : pc' = [pc EXCEPT ![x] = place]
        /\ marked' = marked \/ marked' = marked \cup {s}
        /\ on' = [on EXCEPT ![x] = s]
        /\ UNCHANGED <<state, act, rdy, port, term, ptys, stack, offer, back, waits, wake, history>>
    BY <1>6 DEF AskStop, AskClose, rows
  <2>2. Kept
    BY <2>1, RowsQuiet DEF history, Started, RowTypes
  <2>3. PICK place \in {"kill", "close"} : pc' = [pc EXCEPT ![x] = place]
    BY <2>1
  <2> QED
    BY <1>2, <1>3, <2>1, <2>2, <2>3 DEF Restarting
<1> QED
  BY <1>4, <1>5, <1>6

\* Processes that end and probes that settle.
LEMMA TerminalStarted ==
  ASSUME IInv, IInv', Started, NEW t \in Terms,
         \/ \E outcome \in {"ok", "bad"} : Exited(t, outcome)
         \/ \E s \in Rows, result \in {"ready", "timedout"} : Probe(t, s, result)
  PROVE  Started'
<1>1. t \in Threads \ Waiters /\ t \notin Workers /\ t \in Threads
  BY Classes
<1>2. ASSUME NEW outcome \in {"ok", "bad"}, Exited(t, outcome) PROVE Started'
  <2>1. PICK s \in Rows : s = owner[t]
    BY <1>2 DEF Exited, Started, RowTypes
  <2>2. /\ UNCHANGED <<act, rdy, port, marked, probing, nextTerm, stack, offer, back, waits, by, needs, crowded, asked>>
        /\ Note /\ wake' \subseteq wake \cup Listening /\ owner' = [owner EXCEPT ![t] = 0]
        /\ \/ UNCHANGED <<state, term, pc, on>>
           \/ /\ state[s] = "running" /\ state' = [state EXCEPT ![s] = outcome]
              /\ term' = [term EXCEPT ![s] = 0]
              /\ pc' = [pc EXCEPT ![t] = "closeif"] /\ on' = [on EXCEPT ![t] = s]
    BY <1>2, <2>1 DEF Exited, WakeWaiters
  <2>3. term' \in [Rows -> Terms \cup {0}] /\ owner' \in [Terms -> Rows \cup {0}]
    BY <2>2 DEF Started, RowTypes
  <2>4. \A q \in Rows : \/ state'[q] = state[q] /\ term'[q] = term[q]
                        \/ state[q] # "unborn" /\ state'[q] \notin {"unborn", "starting", "running"}
    BY <2>2 DEF IInv, Shapes, Started, RowTypes
  <2>5. Kept
    BY <2>2, <2>3, <2>4, RowsEnd DEF Started, RowTypes
  <2>6. Stepped(t)
    <3>1. UNCHANGED stack /\ UNCHANGED back /\ UNCHANGED offer
      BY <2>2
    <3>2. on' \in [Threads -> Rows \cup {0}]
      BY <2>2 DEF Started, ThreadTypes
    <3>3. \A y \in Threads \ {t} : pc'[y] = pc[y] /\ on'[y] = on[y]
      BY <2>2 DEF Started, ThreadTypes, IInv, Shapes
    <3> QED
      BY <1>1, <3>1, <3>2, <3>3 DEF Stepped, Started, ThreadTypes
  <2>7. Heard(t)
    BY <1>1, <2>2, Hears
  <2> QED
    BY <1>1, <2>2, <2>5, <2>6, <2>7, WaitsSame, StartedTogether
<1>3. ASSUME NEW s \in Rows, NEW result \in {"ready", "timedout"}, Probe(t, s, result) PROVE Started'
  <2>1. UNCHANGED <<pc, on, stack, offer, back, waits, asked>> /\ wake' \subseteq wake \cup Listening
    BY <1>3 DEF Probe, SetReadiness, WakeWaiters, work
  <2>2. Kept
    BY <1>3, RowsProbe
  <2>3. Stepped(t)
    BY <1>1, <2>1 DEF Stepped, Started, ThreadTypes
  <2>4. Heard(t)
    BY <1>1, <2>1, Hears
  <2> QED
    BY <1>1, <2>1, <2>2, <2>3, <2>4, WaitsSame, StartedTogether
<1> QED
  BY <1>2, <1>3

-----------------------------------------------------------------------------
(* The theorems.                                                           *)

LEMMA Starts == Init => IInv
<1> SUFFICES ASSUME Init PROVE IInv
  OBVIOUS
<1> USE DEF Init
<1>1. <<>> \in Seq(Frames) /\ DOMAIN <<>> = {}
  BY EmptySeq
<1>2. Shapes
  <2>1. act \in [Rows -> Actions]
    BY ActionAssumption
  <2> QED
    BY <1>1, <2>1 DEF Shapes, States, Places
<1>3. Threaded
  BY <1>1, Classes DEF Threaded, Restarting
<1>4. Waited
  BY DEF Waited, NoWait
<1>5. Named
  BY <1>1 DEF Named
<1>6. OneLive /\ PortsApart
  BY DEF OneLive, PortsApart, Live, IsActive
<1> QED
  BY <1>2, <1>3, <1>4, <1>5, <1>6 DEF IInv

LEMMA Steps == IInv /\ [Next]_vars => IInv'
<1> SUFFICES ASSUME IInv, [Next]_vars PROVE IInv'
  OBVIOUS
<1>1. ASSUME NEW x \in Threads, Advance(x) PROVE IInv'
  BY <1>1, LaunchingSteps, WaitingSteps, EndingSteps DEF Advance
<1>2. ASSUME NEW y \in Waiters, StartWaiter(y) PROVE IInv'
  BY <1>2, Classes, WaitingSteps
<1>3. ASSUME NEW x \in Workers, NEW a \in Actions, AskRun(x, a) PROVE IInv'
  BY <1>3, AskingSteps
<1>4. ASSUME NEW x \in Workers, NEW s \in Rows, AskRestart(x, s) \/ AskStop(x, s) \/ AskClose(x, s) PROVE IInv'
  BY <1>4, AskingSteps
<1>5. ASSUME NEW x \in Workers \cup Waiters, Deadline(x) PROVE IInv'
  BY <1>5, Classes, WaitingSteps
<1>6. ASSUME NEW t \in Terms, NEW outcome \in {"ok", "bad"}, Exited(t, outcome) PROVE IInv'
  BY <1>6, TerminalSteps
<1>7. ASSUME NEW t \in Terms, NEW s \in Rows, NEW result \in {"ready", "timedout"}, Probe(t, s, result) PROVE IInv'
  BY <1>7, TerminalSteps
<1>8. CASE UNCHANGED vars
  BY <1>8 DEF vars, rows, work, IInv, Shapes, Threaded, Waited, Named, OneLive, PortsApart, Live, Top
<1> QED
  BY <1>1, <1>2, <1>3, <1>4, <1>5, <1>6, <1>7, <1>8 DEF Next

LEMMA StartsStarted == Init => Started
<1> SUFFICES ASSUME Init PROVE Started
  OBVIOUS
<1> USE DEF Init
<1>1. Len(<<>>) = 0 /\ <<>> \in Seq(Rows) /\ 1 .. 0 = {} /\ 1 .. (0 - 1) = {} /\ NoLaunch \in Launch
  BY EmptySeq, ActionAssumption DEF NoLaunch, Launch, Readiness
<1>2. RowTypes
  <2>1. 1 \in 1 .. (MaxTerms + 1)
    BY ActionAssumption
  <2> QED
    BY <1>1, <2>1 DEF RowTypes, Readiness
<1>3. ThreadTypes
  BY <1>1, ActionAssumption DEF ThreadTypes
<1>4. ASSUME NEW s \in Rows PROVE RowOK(s)
  <2>1. Elements(needs[s]) = {}
    BY EmptySeq DEF Elements
  <2> QED
    BY <2>1 DEF RowOK, Ranged
<1>5. ASSUME NEW x \in Workers PROVE CallsOK(x)
  BY <1>1, Classes DEF CallsOK, Chained, Fitted, Restarting
<1>6. ASSUME NEW y \in Waiters PROVE WaitOK(y)
  BY Classes DEF WaitOK, NoWait
<1> QED
  BY <1>2, <1>3, <1>4, <1>5, <1>6 DEF Started

LEMMA StepsStarted == IInv /\ Started /\ [Next]_vars => Started'
<1> SUFFICES ASSUME IInv, Started, [Next]_vars PROVE Started'
  OBVIOUS
<1>0. IInv'
  BY Steps
<1>1. ASSUME NEW x \in Threads, Advance(x) PROVE Started'
  BY <1>0, <1>1, LaunchingStarted, WaitingStarted, EndingStarted DEF Advance
<1>2. ASSUME NEW y \in Waiters, StartWaiter(y) PROVE Started'
  BY <1>0, <1>2, Classes, WaitingStarted
<1>3. ASSUME NEW x \in Workers, NEW a \in Actions, AskRun(x, a) PROVE Started'
  BY <1>0, <1>3, AskingStarted
<1>4. ASSUME NEW x \in Workers, NEW s \in Rows, AskRestart(x, s) \/ AskStop(x, s) \/ AskClose(x, s) PROVE Started'
  BY <1>0, <1>4, AskingStarted
<1>5. ASSUME NEW x \in Workers \cup Waiters, Deadline(x) PROVE Started'
  BY <1>0, <1>5, Classes, WaitingStarted
<1>6. ASSUME NEW t \in Terms, NEW outcome \in {"ok", "bad"}, Exited(t, outcome) PROVE Started'
  BY <1>0, <1>6, TerminalStarted
<1>7. ASSUME NEW t \in Terms, NEW s \in Rows, NEW result \in {"ready", "timedout"}, Probe(t, s, result) PROVE Started'
  BY <1>0, <1>7, TerminalStarted
<1>8. CASE UNCHANGED vars
  BY <1>8 DEF vars, rows, ptys, work, history, Started, RowTypes, ThreadTypes, RowOK, CallsOK, WaitOK, Up, Top, Listening
<1> QED
  BY <1>0, <1>1, <1>2, <1>3, <1>4, <1>5, <1>6, <1>7, <1>8 DEF Next

\* Two rows that are never live are at most one row.
LEMMA AtMostOne == OneLive => OneInstance
<1> SUFFICES ASSUME OneLive, NEW a \in Single PROVE Cardinality(Live(a)) <= 1
  BY DEF OneInstance
<1>1. CASE Live(a) = {}
  BY <1>1, FS_EmptySet
<1>2. ASSUME NEW r \in Live(a) PROVE Cardinality(Live(a)) <= 1
  <2>1. Live(a) = {r}
    BY <1>2 DEF OneLive
  <2> QED
    BY <2>1, FS_Singleton
<1> QED
  BY <1>1, <1>2

\* The inductive invariant: what rows, calls, waits and launches are.
THEOREM ActionInvariant == Spec => [](IInv /\ Started)
<1>1. Init => IInv /\ Started
  BY Starts, StartsStarted
<1>2. IInv /\ Started /\ [Next]_vars => (IInv /\ Started)'
  BY Steps, StepsStarted
<1> QED
  BY <1>1, <1>2, PTL DEF Spec

\* Types, single instances, and ports apart: what launches that cross leave, however many
\* clients run, restart, stop and close the tasks and whatever they depend on (run_action,
\* commit_launch, queue_action, requeue_task; ports.rs, choose).
THEOREM LaunchesCross == Spec => []LaunchesOK
<1>1. IInv /\ Started => TypeOK
  BY DEF IInv, Started, Shapes, RowTypes, ThreadTypes, RowOK, Ranged, TypeOK
<1>2. IInv /\ Started => LaunchesOK
  BY <1>1, AtMostOne DEF IInv, LaunchesOK
<1> QED
  BY <1>2, ActionInvariant, PTL

\* The readiness a running task shows was found by the probe of its own terminal, whatever
\* probes of earlier terminals answer late (set_readiness).
THEOREM ProbesOwn == Spec => []ProbeIsOwn
<1>1. Started => ProbeIsOwn
  BY DEF Started, RowOK, ProbeIsOwn
<1> QED
  BY <1>1, ActionInvariant, PTL

\* A parked task runs only after each of its dependencies has served, or has ended with 0,
\* since it was parked (await_dependencies), unless it was parked again over a wait.
THEOREM RunsWhenReady == Spec => []StartsOnReady
<1>1. Started => StartsOnReady
  BY DEF Started, RowOK, StartsOnReady
<1> QED
  BY <1>1, ActionInvariant, PTL
=============================================================================
