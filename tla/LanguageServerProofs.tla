------------------------ MODULE LanguageServerProofs -------------------------
(***************************************************************************)
(* Proofs about LanguageServers, for any keys, lookups, texts and limits.  *)
(* Types first, then where servers and threads stand (InPlace), then what  *)
(* the manager answers for: each server, each key and the budget; then the *)
(* crashes that a restart loop ends on; last, the documents.               *)
(***************************************************************************)
EXTENDS LanguageServers, FiniteSetTheorems, TLAPS

\* What is left of a sequence without one of its members.
LEMMA RemoveAtType ==
  ASSUME NEW S, NEW seq \in Seq(S), NEW at \in 1 .. Len(seq)
  PROVE  RemoveAt(seq, at) \in Seq(S) /\ Len(RemoveAt(seq, at)) = Len(seq) - 1
<1>1. SubSeq(seq, 1, at - 1) \in Seq(S) /\ Len(SubSeq(seq, 1, at - 1)) = at - 1
  OBVIOUS
<1>2. /\ SubSeq(seq, at + 1, Len(seq)) \in Seq(S)
      /\ Len(SubSeq(seq, at + 1, Len(seq))) = Len(seq) - at
  OBVIOUS
<1>3. ASSUME NEW s \in Seq(S), NEW t \in Seq(S)
      PROVE  s \o t \in Seq(S) /\ Len(s \o t) = Len(s) + Len(t)
  OBVIOUS
<1>4. /\ RemoveAt(seq, at) \in Seq(S)
      /\ Len(RemoveAt(seq, at)) = Len(SubSeq(seq, 1, at - 1)) + Len(SubSeq(seq, at + 1, Len(seq)))
  BY ONLY <1>1, <1>2, <1>3, Zenon DEF RemoveAt
<1>5. (at - 1) + (Len(seq) - at) = Len(seq) - 1
  OBVIOUS
<1> QED
  BY <1>1, <1>2, <1>4, <1>5, Zenon

\* Removing one document leaves one fewer, all of them documents.
LEMMA OthersType ==
  ASSUME NEW docs \in Seq(Docs), NEW f,
         \E n \in DOMAIN docs : docs[n].file = f
  PROVE  /\ Others(docs, f) \in Seq(Docs)
         /\ Len(Others(docs, f)) = Len(docs) - 1
<1> DEFINE at == CHOOSE n \in DOMAIN docs : docs[n].file = f
<1>1. at \in 1 .. Len(docs)  OBVIOUS
<1> QED
  BY <1>1, RemoveAtType DEF Others

\* The initial state.
LEMMA InitManager == Init => TypeOK /\ InPlace
<1> SUFFICES ASSUME Init PROVE TypeOK /\ InPlace
  OBVIOUS
<1>1. NoJob \in Jobs
  BY LookupAssumption DEF NoJob, Jobs
<1>2. <<>> \in Seq(Messages) /\ <<>> \in Seq(Notes) /\ Len(<<>>) = 0
      /\ <<>> \in Seq(Docs)
  OBVIOUS
<1>3. TypeOK
  <2>1. slot \in [Keys -> Entries]
    BY LookupAssumption DEF Init, Empty, Entries
  <2>2. copy \in [Servers -> [Files -> Texts \cup {Shut}]]
    BY DEF Init, Closing
  <2>3. /\ past \in [Servers -> 0 .. GiveUp] /\ starts \in 0 .. MaxStarts
        /\ finds \in Int /\ finds <= MaxFinds /\ recent \in [Keys -> Nat]
        /\ on \in [Lookups -> 0 .. MaxStarts]
    BY LookupAssumption DEF Init
  <2>4. job \in [Lookups -> Jobs]
    BY <1>1 DEF Init
  <2>5. /\ out \in [Servers -> Seq(Messages)] /\ msgs \in [Lookups -> Seq(Notes)]
        /\ known \in [Servers -> Seq(Docs)]
        /\ \A i \in Servers : Len(out[i]) <= Capacity /\ Len(known[i]) <= MaxDocs
    BY <1>2, LookupAssumption DEF Init
  <2> QED
    BY <2>1, <2>2, <2>3, <2>4, <2>5 DEF Init, TypeOK, Places
<1>4. InPlace
  BY LookupAssumption DEF Init, InPlace, ExitedIsDead, Numbered, Owned, Awaited, Empty, Starters, Servers, Threads
<1> QED
  BY <1>3, <1>4

\* Numbers of servers.
LEMMA ServerNumbers ==
  ASSUME TypeOK, InPlace
  PROVE  /\ 1 .. starts \subseteq Servers /\ starts \in Nat
         /\ \A l \in Lookups : on[l] # 0 => on[l] \in 1 .. starts
         /\ \A k \in Keys : slot[k].st = "running" => slot[k].server \in 1 .. starts
         /\ \A x \in Threads : todo[x] \subseteq 1 .. starts
BY LookupAssumption DEF TypeOK, InPlace, Numbered, Servers

\* The end of a client keeps the types.
LEMMA EndType ==
  ASSUME TypeOK, NEW i \in Servers, End(i)
  PROVE  /\ proc' \in [Servers -> {"none", "up", "dead"}] /\ exited' \subseteq Servers
         /\ out' \in [Servers -> Seq(Messages)]
         /\ copy' \in [Servers -> [Files -> Texts \cup {Shut}]]
         /\ \A j \in Servers : Len(out'[j]) <= Capacity
         /\ UNCHANGED <<ready, past, known>>
<1>1. <<>> \in Seq(Messages) /\ Len(<<>>) = 0 /\ Closing \in [Files -> Texts \cup {Shut}]
  BY DEF Closing
<1> QED
  BY <1>1, LookupAssumption DEF TypeOK, End

\* So does the end of a lookup.
LEMMA DoneType ==
  ASSUME TypeOK, NEW l \in Lookups, Done(l)
  PROVE  /\ pc' \in [Threads -> Places] /\ on' \in [Lookups -> 0 .. MaxStarts]
         /\ job' \in [Lookups -> Jobs]
         /\ msgs' = msgs
<1>1. NoJob \in Jobs
  BY LookupAssumption DEF NoJob, Jobs
<1>2. 0 \in 0 .. MaxStarts
  BY LookupAssumption
<1> QED
  BY <1>1, <1>2 DEF TypeOK, Done, Goto, Places

\* And a queued message that finds room.
LEMMA QueuedType ==
  ASSUME TypeOK, NEW i \in Servers, NEW m \in Messages, HasRoom(i), Queued(i, m)
  PROVE  out' \in [Servers -> Seq(Messages)] /\ \A j \in Servers : Len(out'[j]) <= Capacity
<1>1. /\ Append(out[i], m) \in Seq(Messages) /\ Len(Append(out[i], m)) = Len(out[i]) + 1
      /\ Len(out[i]) \in Nat
  BY DEF TypeOK
<1>2. Len(out[i]) + 1 <= Capacity
  BY <1>1, LookupAssumption DEF HasRoom
<1> QED
  BY <1>1, <1>2 DEF TypeOK, Queued

\* Sequences of one or two notifications.
LEMMA NotesType ==
  ASSUME NEW S, NEW a \in S, NEW b \in S
  PROVE  <<>> \in Seq(S) /\ <<a>> \in Seq(S) /\ <<a, b>> \in Seq(S)
OBVIOUS

\* Every step keeps the types.  A crash counts one more than what is remembered.
LEMMA TypeStep ==
  ASSUME TypeOK, InPlace, CrashesRemembered, [Next]_vars
  PROVE  TypeOK'
<1> USE DEF manager, clients, lookups
<1>0. CASE UNCHANGED vars
  BY <1>0 DEF vars, TypeOK
<1>1. ASSUME NEW l \in Lookups, NEW q \in Queries, Find(l, q) PROVE TypeOK'
  <2>1. [key |-> q.key, file |-> q.file, text |-> q.text, crashes |-> 0] \in Jobs
    BY LookupAssumption DEF Jobs
  <2>2. finds + 1 \in Int /\ finds + 1 <= MaxFinds
    BY <1>1, LookupAssumption DEF Find, TypeOK
  <2> QED
    BY <1>1, <2>1, <2>2 DEF Find, TypeOK, Goto, Places
<1>2. ASSUME NEW l \in Lookups, Ensure(l) PROVE TypeOK'
  <2>0. /\ slot[Key(l)] \in Entries /\ Key(l) \in Keys /\ slot[Key(l)].crashes \in 0 .. GiveUp
        /\ UNCHANGED <<clients, todo, starts>>
    BY <1>2 DEF Ensure, TypeOK, Entries, Jobs, Key
  <2>1. finds' \in Int /\ finds' <= MaxFinds
    BY <1>2, LookupAssumption DEF Ensure, TypeOK
  <2>2. CASE Refuse(l)
    BY <2>0, <2>1, <2>2, DoneType DEF Refuse, TypeOK
  <2>3. CASE slot[Key(l)].st = "running" /\ Found(l)
    <3>1. slot[Key(l)].server \in 0 .. MaxStarts
      BY <2>0 DEF Entries
    <3> QED
      BY <2>0, <2>1, <2>3, <3>1 DEF Found, Goto, TypeOK, Places
  <2>4. CASE slot[Key(l)].st = "running" /\ Crash(l)
    <3>1. PICK kept \in 0 .. past[slot[Key(l)].server] :
            /\ Put(Key(l), "crashed", 0, Recorded(kept), NextDelay(Recorded(kept)))
            /\ recent' = [recent EXCEPT ![Key(l)] =
                           (@ - (past[slot[Key(l)].server] - kept)) + 1]
      BY <2>4 DEF Crash
    <3>2. past[slot[Key(l)].server] = recent[Key(l)] /\ recent[Key(l)] \in 0 .. GiveUp
      BY <2>0, <2>4, ServerNumbers DEF CrashesRemembered, TypeOK
    <3>3. Recorded(kept) \in 0 .. GiveUp /\ NextDelay(Recorded(kept)) \in {"later", "never"}
      BY <3>1, <3>2, LookupAssumption DEF Recorded, NextDelay
    <3>4. (recent[Key(l)] - (recent[Key(l)] - kept)) + 1 \in Nat
      BY <3>1, <3>2, LookupAssumption
    <3>5. slot' \in [Keys -> Entries]
      <4>1. [st |-> "crashed", server |-> 0, crashes |-> Recorded(kept),
             retry |-> NextDelay(Recorded(kept))] \in Entries
        BY <3>3, LookupAssumption DEF Entries
      <4> QED
        BY <3>1, <4>1 DEF Put, TypeOK
    <3>6. recent' \in [Keys -> Nat]
      BY <3>1, <3>2, <3>4 DEF TypeOK
    <3>7. Done(l) /\ UNCHANGED closed
      BY <2>4 DEF Crash
    <3> QED
      BY <2>0, <2>1, <3>5, <3>6, <3>7, DoneType DEF TypeOK
  <2>5. CASE Claim(l)
    <3>1. slot' \in [Keys -> Entries]
      <4>1. [st |-> "starting", server |-> 0, crashes |-> 0, retry |-> "never"] \in Entries
        BY LookupAssumption DEF Entries
      <4> QED
        BY <2>5, <4>1 DEF Claim, Put, TypeOK
    <3>2. job' \in [Lookups -> Jobs]
      BY <2>0, <2>5 DEF Claim, Jobs, TypeOK
    <3> QED
      BY <2>0, <2>1, <2>5, <3>1, <3>2 DEF Claim, Goto, TypeOK, Places
  <2> QED
    BY <1>2, <2>2, <2>3, <2>4, <2>5 DEF Ensure
<1>3. ASSUME NEW l \in Lookups, StartFails(l) PROVE TypeOK'
  BY <1>3 DEF StartFails, Goto, TypeOK, Places
<1>4. ASSUME NEW l \in Lookups, StartServer(l) PROVE TypeOK'
  <2>1. starts + 1 \in 1 .. MaxStarts /\ starts + 1 \in 0 .. MaxStarts
    BY <1>4, LookupAssumption DEF StartServer, TypeOK
  <2>2. job[l].crashes \in 0 .. GiveUp
    BY DEF TypeOK, Jobs
  <2> QED
    BY <1>4, <2>1, <2>2 DEF StartServer, Goto, TypeOK, Places
<1>5. ASSUME NEW l \in Lookups, Adopt(l) PROVE TypeOK'
  <2>0. Empty \in Entries /\ Serving(on[l]) \in Entries
    <3>1. on[l] \in 0 .. MaxStarts /\ 0 \in 0 .. GiveUp /\ 0 \in 0 .. MaxStarts
      BY LookupAssumption DEF TypeOK
    <3> QED
      BY <3>1 DEF Empty, Serving, Entries
  <2>1. pc' \in [Threads -> Places] /\ UNCHANGED <<closed, clients, job, msgs, answer, since,
                                                   finds, starts>>
    BY <1>5 DEF Adopt, Goto, TypeOK, Places
  <2>2. CASE closed
    <3>1. {on[l]} \ {0} \subseteq Servers
      BY ServerNumbers
    <3>2. on' \in [Lookups -> 0 .. MaxStarts]
      <4>1. on' = [on EXCEPT ![l] = 0] /\ 0 \in 0 .. MaxStarts
        BY <1>5, <2>2, LookupAssumption DEF Adopt
      <4> QED
        BY <4>1 DEF TypeOK
    <3>3. slot' \in [Keys -> Entries] /\ todo' \in [Threads -> SUBSET Servers]
      BY <1>5, <2>0, <2>2, <3>1 DEF Adopt, TypeOK
    <3> QED
      BY <1>5, <2>1, <2>2, <3>2, <3>3 DEF Adopt, TypeOK
  <2>3. CASE ~closed
    <3> DEFINE forgotten(gone) == gone \cup (IF on[l] = 0 THEN {Key(l)} ELSE {})
    <3>1. PICK gone \in Evicted(Key(l)) :
            /\ slot' = [k \in Keys |->
                  IF k \in forgotten(gone) THEN Empty
                  ELSE IF k = Key(l) THEN Serving(on[l])
                  ELSE slot[k]]
            /\ todo' = [todo EXCEPT ![l] = {slot[k].server : k \in gone}]
            /\ recent' = [k \in Keys |-> IF k \in forgotten(gone) THEN 0 ELSE recent[k]]
            /\ UNCHANGED on
      BY <1>5, <2>3 DEF Adopt
    <3>2. {slot[k].server : k \in gone} \subseteq Servers
      BY ServerNumbers DEF Evicted, Running
    <3> QED
      BY <2>0, <2>1, <3>1, <3>2 DEF TypeOK
  <2> QED
    BY <2>2, <2>3
<1>6. ASSUME NEW l \in Lookups, WaitReady(l) PROVE TypeOK'
  <2>1. CASE Done(l)
    BY <1>6, <2>1, DoneType DEF WaitReady, TypeOK
  <2>2. CASE Goto(l, "sync") /\ UNCHANGED lookups
    BY <1>6, <2>2 DEF WaitReady, Goto, TypeOK, Places
  <2> QED
    BY <1>6, <2>1, <2>2 DEF WaitReady
<1>7. ASSUME NEW l \in Lookups, Sync(l) PROVE TypeOK'
  <2> DEFINE docs == known[on[l]]
             mine == [file |-> job[l].file, text |-> job[l].text]
  <2>1. on[l] \in Servers
    BY <1>7, ServerNumbers DEF Sync, InPlace, Numbered
  <2>2. /\ docs \in Seq(Docs) /\ Len(docs) <= MaxDocs /\ mine \in Docs
        /\ job[l].file \in Files /\ job[l].text \in Texts
    BY <2>1 DEF TypeOK, Docs, Jobs
  <2>3. ASSUME NEW more \in Seq(Docs), Len(more) <= MaxDocs, NEW notes \in Seq(Notes), NEW shut,
               SyncWith(l, more, notes, shut)
        PROVE  TypeOK'
    BY <2>1, <2>3 DEF SyncWith, Goto, TypeOK, Places
  <2> HIDE DEF docs, mine
  <2>4. ASSUME NEW some \in Seq(Docs) PROVE Append(some, mine) \in Seq(Docs)
                                            /\ Len(Append(some, mine)) = Len(some) + 1
    BY <2>2
  <2>5. ASSUME NEW op \in {"open", "change"} PROVE Doc(op, job[l].file, job[l].text) \in Notes
    BY <2>2 DEF Doc, Notes
  <2>6. CASE \E n \in DOMAIN docs : docs[n].file = job[l].file
    <3>1. Append(Others(docs, job[l].file), mine) \in Seq(Docs)
          /\ Len(Append(Others(docs, job[l].file), mine)) <= MaxDocs
      BY <2>2, <2>4, <2>6, OthersType, LookupAssumption
    <3>2. PICK notes \in {<<>>, <<Doc("change", job[l].file, job[l].text)>>} :
            SyncWith(l, Append(Others(docs, job[l].file), mine), notes, {})
      BY <1>7, <2>6 DEF Sync, docs, mine
    <3>3. notes \in Seq(Notes)
      BY <2>5, <3>2, NotesType
    <3> QED
      BY <2>3, <3>1, <3>2, <3>3
  <2>7. CASE ~(\E n \in DOMAIN docs : docs[n].file = job[l].file) /\ Len(docs) < MaxDocs
    <3>1. Append(docs, mine) \in Seq(Docs) /\ Len(Append(docs, mine)) <= MaxDocs
      BY <2>2, <2>4, <2>7, LookupAssumption
    <3>2. SyncWith(l, Append(docs, mine), <<Doc("open", job[l].file, job[l].text)>>, {})
      BY <1>7, <2>7 DEF Sync, docs, mine
    <3>3. <<Doc("open", job[l].file, job[l].text)>> \in Seq(Notes)
      BY <2>5, NotesType
    <3> QED
      BY <2>3, <3>1, <3>2, <3>3
  <2>8. CASE ~(\E n \in DOMAIN docs : docs[n].file = job[l].file) /\ ~(Len(docs) < MaxDocs)
    <3>1. /\ docs # <<>> /\ Tail(docs) \in Seq(Docs) /\ Len(Tail(docs)) = Len(docs) - 1
          /\ docs[1] \in Docs
      BY <2>2, <2>8, LookupAssumption
    <3>2. /\ Append(Tail(docs), mine) \in Seq(Docs) /\ Len(Append(Tail(docs), mine)) <= MaxDocs
      BY <2>2, <2>4, <3>1, LookupAssumption
    <3>3. Doc("close", docs[1].file, Shut) \in Notes
      BY <3>1 DEF Doc, Docs, Notes
    <3>4. SyncWith(l, Append(Tail(docs), mine),
                   <<Doc("close", docs[1].file, Shut), Doc("open", job[l].file, job[l].text)>>,
                   {docs[1].file})
      BY <1>7, <2>8 DEF Sync, docs, mine
    <3>5. <<Doc("close", docs[1].file, Shut), Doc("open", job[l].file, job[l].text)>> \in Seq(Notes)
      BY <2>5, <3>3, NotesType
    <3> QED
      BY <2>3, <3>2, <3>4, <3>5
  <2> QED
    BY <2>6, <2>7, <2>8
<1>8. ASSUME NEW l \in Lookups, Notify(l) PROVE TypeOK'
  <2>1. /\ msgs[l] \in Seq(Notes) /\ msgs[l] # <<>> /\ Tail(msgs[l]) \in Seq(Notes)
        /\ msgs[l][1] \in Messages
    BY <1>8 DEF Notify, InPlace, Numbered, TypeOK, Messages
  <2>2. on[l] \in Servers
    BY <1>8, ServerNumbers DEF Notify, InPlace, Numbered
  <2>3. /\ out' \in [Servers -> Seq(Messages)]
        /\ \A j \in Servers : Len(out'[j]) <= Capacity
    BY <1>8, <2>1, <2>2, QueuedType DEF Notify, TypeOK
  <2> QED
    BY <1>8, <2>1, <2>3 DEF Notify, Goto, TypeOK, Places
<1>9. ASSUME NEW l \in Lookups, Stall(l) PROVE TypeOK'
  <2>1. on[l] \in Servers
    BY <1>9, ServerNumbers DEF Stall, InPlace, Numbered
  <2> QED
    BY <1>9, <2>1, EndType DEF Stall, TypeOK
<1>10. ASSUME NEW l \in Lookups, Ask(l) PROVE TypeOK'
  <2>1. on[l] \in Servers /\ [op |-> "ask", by |-> l] \in Messages
    BY <1>10, ServerNumbers DEF Ask, InPlace, Numbered, Messages
  <2>2. CASE Done(l) /\ UNCHANGED out
    BY <1>10, <2>2, DoneType DEF Ask, TypeOK
  <2>3. CASE HasRoom(on[l]) /\ Queued(on[l], [op |-> "ask", by |-> l]) /\ Goto(l, "await")
             /\ UNCHANGED lookups
    BY <1>10, <2>1, <2>3, QueuedType DEF Ask, Goto, TypeOK, Places
  <2> QED
    BY <1>10, <2>2, <2>3 DEF Ask
<1>11. ASSUME NEW l \in Lookups, AskTimeout(l) PROVE TypeOK'
  BY <1>11, DoneType DEF AskTimeout, TypeOK
<1>12. ASSUME NEW l \in Lookups, Abandon(l) PROVE TypeOK'
  <2> DEFINE i == on[l]
             rest == [n \in DOMAIN out[i] |->
                       IF out[i][n] = [op |-> "ask", by |-> l]
                       THEN [op |-> "ask", by |-> Sweeper] ELSE out[i][n]]
  <2>1. i \in Servers /\ [op |-> "ask", by |-> Sweeper] \in Messages
        /\ [op |-> "cancel"] \in Messages
    BY <1>12, ServerNumbers DEF Abandon, InPlace, Numbered, Messages
  <2>2. rest \in Seq(Messages) /\ Len(rest) = Len(out[i]) /\ Len(out[i]) <= Capacity
    <3>1. out[i] \in Seq(Messages) /\ Len(out[i]) <= Capacity
      BY <2>1 DEF TypeOK
    <3>2. ASSUME NEW S, NEW q \in Seq(S), NEW a, NEW b \in S
          PROVE  /\ [n \in DOMAIN q |-> IF q[n] = a THEN b ELSE q[n]] \in Seq(S)
                 /\ Len([n \in DOMAIN q |-> IF q[n] = a THEN b ELSE q[n]]) = Len(q)
      OBVIOUS
    <3> QED
      BY <2>1, <3>1, <3>2
  <2>3. /\ out' = [out EXCEPT ![i] = IF i \notin exited /\ proc[i] = "up" /\ HasRoom(i)
                                     THEN Append(rest, [op |-> "cancel"]) ELSE rest]
        /\ Done(l)
        /\ UNCHANGED <<manager, proc, ready, exited, past, copy, known, todo, finds, starts>>
    BY <1>12 DEF Abandon
  <2> HIDE DEF i, rest
  <2>4. /\ Append(rest, [op |-> "cancel"]) \in Seq(Messages)
        /\ Len(Append(rest, [op |-> "cancel"])) = Len(rest) + 1
        /\ Len(rest) \in Nat
    BY <2>1, <2>2
  <2>5. HasRoom(i) => Len(rest) + 1 <= Capacity
    BY <2>2, <2>4, LookupAssumption DEF HasRoom
  <2>6. out' \in [Servers -> Seq(Messages)] /\ \A j \in Servers : Len(out'[j]) <= Capacity
    BY <2>1, <2>2, <2>3, <2>4, <2>5 DEF TypeOK
  <2> QED
    BY <2>3, <2>6, DoneType DEF TypeOK
<1>13. ASSUME NEW l \in Lookups, Answered(l) PROVE TypeOK'
  BY <1>13, DoneType DEF Answered, TypeOK
<1>14. ASSUME NEW x \in Threads, Shutdown(x) PROVE TypeOK'
  <2>1. PICK i \in todo[x] : End(i) /\ todo' = [todo EXCEPT ![x] = @ \ {i}]
    BY <1>14 DEF Shutdown
  <2>2. i \in Servers /\ todo' \in [Threads -> SUBSET Servers]
    BY <2>1 DEF TypeOK
  <2> QED
    BY <1>14, <2>1, <2>2, EndType DEF Shutdown, TypeOK
<1>15. ASSUME NEW x \in Threads, Stopped(x) PROVE TypeOK'
  <2>1. CASE x \in Lookups /\ Done(x)
    BY <1>15, <2>1, DoneType DEF Stopped, TypeOK
  <2>2. CASE Goto(x, IF x \in Lookups THEN "wait" ELSE "idle") /\ UNCHANGED lookups
    BY <1>15, <2>2 DEF Stopped, Goto, TypeOK, Places
  <2> QED
    BY <1>15, <2>1, <2>2 DEF Stopped
<1>16. ASSUME NEW gone \in SUBSET Keys, Sweep(gone) PROVE TypeOK'
  <2>1. {slot[k].server : k \in gone} \subseteq Servers /\ Empty \in Entries
    BY <1>16, ServerNumbers, LookupAssumption DEF Sweep, Running, Empty, Entries
  <2> QED
    BY <1>16, <2>1 DEF Sweep, Goto, TypeOK, Places
<1>17. ASSUME ShutdownAll PROVE TypeOK'
  <2>1. {slot[k].server : k \in Running} \subseteq Servers /\ Empty \in Entries
    BY ServerNumbers, LookupAssumption DEF Running, Empty, Entries
  <2> QED
    BY <1>17, <2>1 DEF ShutdownAll, Goto, TypeOK, Places
<1>18. ASSUME NEW i \in Servers, Initialized(i) PROVE TypeOK'
  BY <1>18 DEF Initialized, TypeOK
<1>19. ASSUME NEW i \in Servers, InitializeFails(i) PROVE TypeOK'
  BY <1>19, EndType DEF InitializeFails, TypeOK
<1>20. ASSUME NEW i \in Servers, Serve(i) PROVE TypeOK'
  <2>1. /\ out[i] \in Seq(Messages) /\ out[i] # <<>> /\ Tail(out[i]) \in Seq(Messages)
        /\ Len(Tail(out[i])) <= Capacity /\ out[i][1] \in Messages
    BY <1>20, LookupAssumption DEF Serve, TypeOK
  <2>2. /\ out' \in [Servers -> Seq(Messages)]
        /\ \A j \in Servers : Len(out'[j]) <= Capacity
    BY <1>20, <2>1 DEF Serve, TypeOK
  <2>3. /\ copy' \in [Servers -> [Files -> Texts \cup {Shut}]]
        /\ pc' \in [Threads -> Places]
    <3>1. CASE /\ out[i][1].op \in {"open", "change", "close"}
               /\ copy' = [copy EXCEPT ![i][out[i][1].file] = out[i][1].text]
               /\ UNCHANGED pc
      <4>1. out[i][1] \in Notes
        BY <2>1, <3>1 DEF Messages
      <4>2. out[i][1].text \in Texts \cup {Shut}
        BY <4>1 DEF Notes
      <4> QED
        BY <3>1, <4>2 DEF TypeOK
    <3>2. CASE UNCHANGED copy /\ (UNCHANGED pc \/ Goto(out[i][1].by, "answered"))
      BY <3>2 DEF Goto, TypeOK, Places
    <3> QED
      BY <1>20, <3>1, <3>2 DEF Serve
  <2> QED
    BY <1>20, <2>2, <2>3 DEF Serve, TypeOK
<1>21. ASSUME NEW i \in Servers, Dies(i) PROVE TypeOK'
  <2>1. <<>> \in Seq(Messages) /\ Len(<<>>) = 0 /\ Closing \in [Files -> Texts \cup {Shut}]
    BY DEF Closing
  <2> QED
    BY <1>21, <2>1, LookupAssumption DEF Dies, TypeOK
<1>22. ASSUME NEW i \in Servers, ReadEof(i) PROVE TypeOK'
  BY <1>22 DEF ReadEof, TypeOK
<1> QED
  BY <1>0, <1>1, <1>2, <1>3, <1>4, <1>5, <1>6, <1>7, <1>8, <1>9, <1>10, <1>11, <1>12, <1>13,
     <1>14, <1>15, <1>16, <1>17, <1>18, <1>19, <1>20, <1>21, <1>22 DEF Next, Step

\* Whoever ends a client kills its server.
LEMMA ProcStep ==
  ASSUME TypeOK, InPlace, [Next]_vars
  PROVE  ExitedIsDead'
<1> USE DEF manager, clients, lookups
<1>0. ExitedIsDead /\ Numbered
  BY DEF InPlace
<1>1. ASSUME NEW i \in 1 .. starts, End(i), UNCHANGED starts PROVE ExitedIsDead'
  BY <1>0, <1>1, ServerNumbers DEF End, ExitedIsDead, TypeOK, Servers
<1>2. CASE UNCHANGED <<proc, exited, starts>>
  BY <1>0, <1>2 DEF ExitedIsDead
<1>3. ASSUME NEW l \in Lookups, Step(l) PROVE ExitedIsDead'
  <2>1. CASE Stall(l)
    <3>1. on[l] \in 1 .. starts
      BY <1>0, <2>1, ServerNumbers DEF Stall, Numbered
    <3> QED
      BY <1>1, <2>1, <3>1 DEF Stall
  <2>2. CASE StartServer(l)
    <3>1. /\ starts' = starts + 1 /\ proc' = [proc EXCEPT ![starts + 1] = "up"]
          /\ UNCHANGED exited /\ starts \in Nat /\ starts + 1 \in Servers
      BY <2>2, ServerNumbers, LookupAssumption DEF StartServer, Servers
    <3>2. starts + 1 \notin exited
      BY <1>0, <3>1 DEF ExitedIsDead
    <3> QED
      BY <1>0, <3>1, <3>2 DEF ExitedIsDead, TypeOK, Servers
  <2> QED
    BY <1>2, <1>3, <2>1, <2>2 DEF Step, Ensure, StartFails, Adopt, WaitReady, Sync, SyncWith,
       Notify, Ask, AskTimeout, Abandon, Answered
<1>4. ASSUME NEW x \in Threads, Shutdown(x) PROVE ExitedIsDead'
  BY <1>1, <1>4, ServerNumbers DEF Shutdown
<1>5. ASSUME NEW i \in Servers, Initialized(i) \/ InitializeFails(i) \/ Serve(i) \/ Dies(i) \/ ReadEof(i)
      PROVE  ExitedIsDead'
  <2>1. CASE InitializeFails(i)
    <3>1. i \in 1 .. starts
      BY <1>0, <2>1, ServerNumbers DEF InitializeFails, ExitedIsDead, Servers
    <3> QED
      BY <1>1, <2>1, <3>1 DEF InitializeFails
  <2>2. CASE Dies(i)
    BY <1>0, <2>2 DEF Dies, ExitedIsDead, TypeOK
  <2>3. CASE ReadEof(i)
    BY <1>0, <2>3 DEF ReadEof, ExitedIsDead
  <2> QED
    BY <1>2, <1>5, <2>1, <2>2, <2>3 DEF Initialized, Serve
<1> QED
  BY <1>2, <1>3, <1>4, <1>5 DEF Next, vars, Find, Stopped, Sweep, ShutdownAll

\* The request at the head of a queue is one a lookup waits for.
LEMMA HeadAwaited ==
  ASSUME TypeOK, InPlace, NEW i \in Servers, Serve(i),
         out[i][1].op = "ask", out[i][1].by \in Lookups
  PROVE  pc[out[i][1].by] = "await" /\ on[out[i][1].by] = i
<1>1. 1 \in DOMAIN out[i]
  BY DEF Serve, TypeOK
<1> QED
  BY <1>1 DEF InPlace, Awaited

\* Threads and the map keep to servers that were started.
LEMMA NumberedStep ==
  ASSUME TypeOK, InPlace, [Next]_vars
  PROVE  Numbered'
<1> USE DEF manager, clients, lookups
<1>0. /\ Numbered /\ starts \in Nat /\ Lookups \subseteq Threads
      /\ \A l \in Lookups : on[l] \in Nat
  BY ServerNumbers, LookupAssumption DEF InPlace, Threads, TypeOK
<1>1. CASE UNCHANGED <<slot, closed, pc, on, msgs, todo, starts>>
  BY <1>0, <1>1 DEF Numbered
<1>2. ASSUME NEW l \in Lookups, Done(l), pc[l] # "stop" \/ todo[l] = {},
             UNCHANGED <<slot, closed, todo, starts>>
      PROVE  Numbered'
  BY <1>0, <1>2 DEF Done, Goto, Numbered, TypeOK
<1>3. ASSUME NEW l \in Lookups, Ensure(l) PROVE Numbered'
  <2>1. CASE Refuse(l)
    BY <1>2, <1>3, <2>1 DEF Refuse, Ensure
  <2>2. CASE slot[Key(l)].st = "running" /\ Found(l)
    <3>1. Key(l) \in Keys
      BY DEF Key, TypeOK, Jobs
    <3>2. slot[Key(l)].server \in 1 .. starts /\ todo[l] = {}
      BY <1>0, <1>3, <2>2, <3>1 DEF Numbered, Ensure
    <3> QED
      BY <1>0, <1>3, <2>2, <3>2 DEF Found, Ensure, Goto, Numbered, TypeOK
  <2>3. CASE ~closed /\ Crash(l)
    <3>1. /\ Done(l) /\ UNCHANGED <<closed, todo, starts>> /\ todo[l] = {}
      BY <1>0, <1>3, <2>3 DEF Crash, Ensure, Numbered
    <3>2. PICK kept : Put(Key(l), "crashed", 0, Recorded(kept), NextDelay(Recorded(kept)))
      BY <2>3 DEF Crash
    <3>3. \A k \in Keys : slot'[k].st = "running" => slot'[k] = slot[k]
      BY <3>2 DEF Put, TypeOK
    <3> QED
      BY <1>0, <2>3, <3>1, <3>3 DEF Done, Goto, Numbered, TypeOK
  <2>4. CASE ~closed /\ Claim(l)
    <3>1. /\ \A k \in Keys : slot'[k].st = "running" => slot'[k] = slot[k]
          /\ on[l] = 0 /\ todo[l] = {}
      BY <1>0, <1>3, <2>4 DEF Claim, Put, Ensure, Numbered, TypeOK
    <3> QED
      BY <1>0, <1>3, <2>4, <3>1 DEF Claim, Ensure, Goto, Numbered, TypeOK
  <2> QED
    BY <1>3, <2>1, <2>2, <2>3, <2>4 DEF Ensure
<1>4. ASSUME NEW l \in Lookups, StartFails(l) \/ WaitReady(l) \/ AskTimeout(l) \/ Answered(l)
      PROVE  Numbered'
  <2>1. CASE Done(l) /\ pc[l] \in {"wait", "ask", "answered"} /\ UNCHANGED <<manager, todo, starts>>
    BY <1>2, <2>1
  <2>2. CASE Goto(l, "sync") /\ pc[l] = "wait" /\ UNCHANGED <<manager, lookups, todo, starts>>
    BY <1>0, <2>2 DEF Goto, Numbered, TypeOK
  <2>3. CASE Goto(l, "adopt") /\ pc[l] = "start" /\ UNCHANGED <<manager, lookups, todo, starts>>
    BY <1>0, <2>3 DEF Goto, Numbered, TypeOK
  <2> QED
    BY <1>4, <2>1, <2>2, <2>3 DEF StartFails, WaitReady, AskTimeout, Answered
<1>5. ASSUME NEW l \in Lookups, StartServer(l) PROVE Numbered'
  <2>1. \A n \in 1 .. starts : n \in 1 .. starts + 1
    BY <1>0
  <2> QED
    BY <1>0, <1>5, <2>1 DEF StartServer, Goto, Numbered, TypeOK
<1>6. ASSUME NEW l \in Lookups, Adopt(l) PROVE Numbered'
  <2>0. /\ Goto(l, "stop") /\ pc[l] = "adopt"
        /\ UNCHANGED <<closed, msgs, starts>> /\ Empty.st = "none"
    BY <1>6 DEF Adopt, Empty
  <2>1. CASE closed
    <3>1. /\ slot' = [slot EXCEPT ![Key(l)] = Empty]
          /\ todo' = [todo EXCEPT ![l] = {on[l]} \ {0}]
          /\ on' = [on EXCEPT ![l] = 0]
      BY <1>6, <2>1 DEF Adopt
    <3>2. {on[l]} \ {0} \subseteq 1 .. starts
      BY <1>0 DEF Numbered
    <3> QED
      BY <1>0, <2>0, <2>1, <3>1, <3>2 DEF Goto, Numbered, TypeOK
  <2>2. CASE ~closed
    <3>1. PICK gone \in Evicted(Key(l)) :
            /\ slot' = [k \in Keys |->
                  IF k \in gone \cup (IF on[l] = 0 THEN {Key(l)} ELSE {}) THEN Empty
                  ELSE IF k = Key(l) THEN Serving(on[l])
                  ELSE slot[k]]
            /\ todo' = [todo EXCEPT ![l] = {slot[k].server : k \in gone}]
            /\ UNCHANGED on
      BY <1>6, <2>2 DEF Adopt
    <3>2. {slot[k].server : k \in gone} \subseteq 1 .. starts
      BY ServerNumbers DEF Evicted, Running
    <3>3. \A k \in Keys : slot'[k].st = "running" => slot'[k].server \in 1 .. starts
      <4>1. on[l] # 0 => Serving(on[l]).server \in 1 .. starts
        BY ServerNumbers DEF Serving
      <4> QED
        BY <1>0, <2>0, <3>1, <4>1 DEF Numbered
    <3> QED
      BY <1>0, <2>0, <2>2, <3>1, <3>2, <3>3 DEF Goto, Numbered, TypeOK
  <2> QED
    BY <2>1, <2>2
<1>7. ASSUME NEW l \in Lookups, Sync(l) PROVE Numbered'
  <2>1. ASSUME NEW docs, NEW notes, NEW shut, SyncWith(l, docs, notes, shut)
        PROVE  Numbered'
    BY <1>0, <1>7, <2>1 DEF Sync, SyncWith, Goto, Numbered, TypeOK
  <2> QED
    BY <1>7, <2>1 DEF Sync
<1>8. ASSUME NEW l \in Lookups, Notify(l) PROVE Numbered'
  <2>1. /\ pc' = [pc EXCEPT ![l] = IF Len(msgs[l]) = 1 THEN "ask" ELSE "send"]
        /\ msgs' = [msgs EXCEPT ![l] = Tail(@)] /\ pc[l] = "send"
        /\ UNCHANGED <<slot, closed, on, todo, starts>>
    BY <1>8 DEF Notify, Goto
  <2>2. msgs[l] \in Seq(Notes) /\ msgs[l] # <<>>
    BY <1>0, <2>1 DEF TypeOK, Numbered
  <2>3. Len(msgs[l]) # 1 => Tail(msgs[l]) # <<>>
    <3>1. Len(msgs[l]) \in Nat /\ Len(msgs[l]) # 0 /\ Len(Tail(msgs[l])) = Len(msgs[l]) - 1
      BY <2>2
    <3>2. Len(msgs[l]) # 1 => Len(Tail(msgs[l])) # 0
      BY <3>1
    <3>3. Len(<<>>) = 0
      OBVIOUS
    <3> QED
      BY <3>2, <3>3, Zenon
  <2> QED
    BY <1>0, <2>1, <2>3 DEF Numbered, TypeOK
<1>9. ASSUME NEW l \in Lookups, Ask(l) PROVE Numbered'
  <2>1. CASE Done(l)
    BY <1>2, <1>9, <2>1 DEF Ask
  <2>2. CASE Goto(l, "await") /\ UNCHANGED lookups
    BY <1>0, <1>9, <2>2 DEF Ask, Goto, Numbered, TypeOK
  <2> QED
    BY <1>9, <2>1, <2>2 DEF Ask
<1>10. ASSUME NEW l \in Lookups, Abandon(l) PROVE Numbered'
  BY <1>2, <1>10 DEF Abandon
<1>11. ASSUME NEW l \in Lookups, NEW q \in Queries, Find(l, q) PROVE Numbered'
  BY <1>0, <1>11 DEF Find, Goto, Numbered, TypeOK
<1>12. ASSUME NEW x \in Threads, Shutdown(x) PROVE Numbered'
  BY <1>0, <1>12 DEF Shutdown, Numbered, TypeOK
<1>13. ASSUME NEW x \in Threads, Stopped(x) PROVE Numbered'
  <2>1. CASE x \in Lookups /\ on[x] = 0 /\ Done(x)
    BY <1>2, <1>13, <2>1 DEF Stopped
  <2>2. CASE ~(x \in Lookups /\ on[x] = 0)
    <3>1. /\ pc' = [pc EXCEPT ![x] = IF x \in Lookups THEN "wait" ELSE "idle"]
          /\ x \in Lookups => on[x] # 0
          /\ todo[x] = {} /\ UNCHANGED <<slot, closed, on, msgs, todo, starts>>
      BY <1>13, <2>2 DEF Stopped, Goto
    <3>2. \A y \in Threads : todo'[y] # {} => pc'[y] = "stop"
      BY <1>0, <3>1 DEF Numbered, TypeOK
    <3>3. \A l \in Lookups :
            /\ pc'[l] \in {"idle", "ensure", "start"} => on'[l] = 0
            /\ pc'[l] \in {"wait", "sync", "send", "ask", "await", "answered"} => on'[l] # 0
            /\ pc'[l] = "send" => msgs'[l] # <<>>
      BY <1>0, <3>1 DEF Numbered, TypeOK
    <3> QED
      BY <1>0, <3>1, <3>2, <3>3 DEF Numbered
  <2> QED
    BY <1>13, <2>1, <2>2 DEF Stopped
<1>14. ASSUME NEW gone \in SUBSET Keys, Sweep(gone) PROVE Numbered'
  <2>1. {slot[k].server : k \in gone} \subseteq 1 .. starts /\ Empty.st = "none"
    BY <1>14, ServerNumbers DEF Sweep, Running, Empty
  <2>2. Sweeper \in Threads /\ Sweeper \notin Lookups
    BY LookupAssumption DEF Threads
  <2> QED
    BY <1>0, <1>14, <2>1, <2>2 DEF Sweep, Goto, Numbered, TypeOK
<1>15. ASSUME ShutdownAll PROVE Numbered'
  <2>1. {slot[k].server : k \in Running} \subseteq 1 .. starts /\ Empty.st = "none"
    BY ServerNumbers DEF Running, Empty
  <2>2. Closer \in Threads /\ Closer \notin Lookups
    BY LookupAssumption DEF Threads
  <2> QED
    BY <1>0, <1>15, <2>1, <2>2 DEF ShutdownAll, Goto, Numbered, TypeOK
<1>16. ASSUME NEW i \in Servers, Serve(i) PROVE Numbered'
  <2>1. CASE UNCHANGED pc
    BY <1>1, <1>16, <2>1 DEF Serve
  <2>2. CASE out[i][1].op = "ask" /\ out[i][1].by \in Lookups /\ Goto(out[i][1].by, "answered")
    <3>1. pc[out[i][1].by] = "await"
      BY <1>16, <2>2, HeadAwaited
    <3> QED
      BY <1>0, <1>16, <2>2, <3>1 DEF Serve, Goto, Numbered, TypeOK
  <2> QED
    BY <1>16, <2>1, <2>2 DEF Serve
<1> QED
  BY <1>1, <1>3, <1>4, <1>5, <1>6, <1>7, <1>8, <1>9, <1>10, <1>11, <1>12, <1>13, <1>14, <1>15,
     <1>16 DEF Next, Step, vars, Stall, End, Initialized, InitializeFails, Dies, ReadEof

\* What a step that is not about starting a server leaves alone.
StartersStay ==
  /\ closed' = closed
  /\ \A l \in Lookups :
       IF l \in Starters THEN pc'[l] = pc[l] /\ on'[l] = on[l] /\ job'[l] = job[l]
                         ELSE pc'[l] \notin {"start", "adopt"}
  /\ \A k \in Keys : slot'[k].st = "starting" <=> slot[k].st = "starting"

\* Few steps are about starting a server.
LEMMA Bystanders ==
  ASSUME TypeOK, InPlace, [Next]_vars
  PROVE  \/ StartersStay \/ ShutdownAll
         \/ \E l \in Lookups : (Ensure(l) /\ ~closed /\ Claim(l)) \/ StartFails(l)
                               \/ StartServer(l) \/ Adopt(l)
<1> USE DEF manager, clients, lookups
<1>0. Numbered /\ Lookups \subseteq Threads
  BY DEF InPlace, Threads
<1>1. CASE UNCHANGED <<slot, closed, pc, on, job>>
  BY <1>1 DEF StartersStay, Starters
<1>2. ASSUME NEW l \in Lookups, l \notin Starters, Done(l), UNCHANGED <<slot, closed>>
      PROVE  StartersStay
  BY <1>2 DEF StartersStay, Starters, Done, Goto, TypeOK
<1>3. ASSUME NEW x \in Threads, x \notin Starters, NEW place \in Places \ {"start", "adopt"},
             Goto(x, place), UNCHANGED <<slot, closed, on, job>>
      PROVE  StartersStay
  BY <1>0, <1>3 DEF StartersStay, Starters, Goto, TypeOK
<1>4. ASSUME NEW l \in Lookups, Ensure(l) PROVE StartersStay \/ (~closed /\ Claim(l))
  <2>1. CASE Refuse(l)
    BY <1>2, <1>4, <2>1 DEF Refuse, Ensure, Starters
  <2>2. CASE Found(l)
    BY <1>0, <1>4, <2>2 DEF Found, Ensure, Goto, StartersStay, Starters, TypeOK
  <2>3. CASE slot[Key(l)].st = "running" /\ Crash(l)
    <3>1. PICK kept : Put(Key(l), "crashed", 0, Recorded(kept), NextDelay(Recorded(kept)))
      BY <2>3 DEF Crash
    <3>2. \A k \in Keys : slot'[k].st = "starting" <=> slot[k].st = "starting"
      BY <2>3, <3>1 DEF Put, TypeOK
    <3> QED
      BY <1>4, <2>3, <3>2 DEF Crash, Ensure, Done, Goto, StartersStay, Starters, TypeOK
  <2> QED
    BY <1>4, <2>1, <2>2, <2>3 DEF Ensure
<1>5. ASSUME NEW l \in Lookups, WaitReady(l) \/ AskTimeout(l) \/ Answered(l) \/ Abandon(l) \/ Ask(l)
      PROVE  StartersStay
  <2>1. pc[l] \in {"wait", "ask", "answered", "await"} /\ l \notin Starters
    BY <1>5 DEF WaitReady, AskTimeout, Answered, Abandon, Ask, Starters
  <2> QED
    BY <1>2, <1>3, <1>5, <2>1 DEF WaitReady, AskTimeout, Answered, Abandon, Ask, Places, Threads
<1>6. ASSUME NEW l \in Lookups, Sync(l) PROVE StartersStay
  <2>1. ASSUME NEW docs, NEW notes, NEW shut, SyncWith(l, docs, notes, shut)
        PROVE  StartersStay
    <3>1. Goto(l, IF notes = <<>> THEN "ask" ELSE "send") /\ UNCHANGED <<slot, closed, on, job>>
      BY <2>1 DEF SyncWith
    <3> QED
      BY <1>3, <1>6, <3>1 DEF Sync, Starters, Places, Threads
  <2> QED
    BY <1>6, <2>1 DEF Sync
<1>7. ASSUME NEW l \in Lookups, Notify(l) PROVE StartersStay
  BY <1>3, <1>7 DEF Notify, Starters, Places, Threads
<1>8. ASSUME NEW l \in Lookups, NEW q \in Queries, Find(l, q) PROVE StartersStay
  BY <1>8 DEF Find, Goto, StartersStay, Starters, TypeOK
<1>9. ASSUME NEW x \in Threads, Stopped(x) PROVE StartersStay
  BY <1>2, <1>3, <1>9 DEF Stopped, Starters, Places
<1>10. ASSUME NEW gone \in SUBSET Keys, Sweep(gone) PROVE StartersStay
  <2>1. \A k \in Keys : slot'[k].st = "starting" <=> slot[k].st = "starting"
    BY <1>10 DEF Sweep, Running, Empty
  <2>2. Sweeper \in Threads /\ Sweeper \notin Lookups
    BY LookupAssumption DEF Threads
  <2> QED
    BY <1>10, <2>1, <2>2 DEF Sweep, Goto, StartersStay, Starters, TypeOK
<1>11. ASSUME NEW i \in Servers, Serve(i) PROVE StartersStay
  <2>0. UNCHANGED <<slot, closed, on, job>>
    BY <1>11 DEF Serve
  <2>1. CASE UNCHANGED pc
    BY <2>0, <2>1 DEF StartersStay, Starters
  <2>2. CASE out[i][1].op = "ask" /\ out[i][1].by \in Lookups /\ Goto(out[i][1].by, "answered")
    <3>1. out[i][1].by \notin Starters
      BY <1>11, <2>2, HeadAwaited DEF Starters
    <3> QED
      BY <1>3, <2>0, <2>2, <3>1 DEF Places, Threads
  <2> QED
    BY <1>11, <2>1, <2>2 DEF Serve
<1> QED
  BY <1>1, <1>4, <1>5, <1>6, <1>7, <1>8, <1>9, <1>10, <1>11
     DEF Next, Step, vars, Stall, Shutdown, End, Initialized, InitializeFails, Dies, ReadEof

\* Keys have one owner while they are started, and never none.
LEMMA OwnerStep ==
  ASSUME TypeOK, InPlace, StartingAttended, [Next]_vars
  PROVE  Owned' /\ StartingAttended'
<1> USE DEF manager, clients, lookups
<1>0. /\ Owned /\ Numbered /\ Lookups \subseteq Threads
      /\ \A l \in Lookups : job[l].key \in Keys
  BY DEF InPlace, Threads, TypeOK, Jobs
<1>1. CASE StartersStay
  BY <1>0, <1>1 DEF StartersStay, Owned, StartingAttended, Starters, Key
<1>2. CASE ShutdownAll
  BY <1>2 DEF ShutdownAll, Owned, StartingAttended, Empty
<1>3. ASSUME NEW l \in Lookups, Ensure(l), ~closed, Claim(l) PROVE Owned' /\ StartingAttended'
  <2>1. /\ slot' = [slot EXCEPT ![Key(l)] =
              [st |-> "starting", server |-> 0, crashes |-> 0, retry |-> "never"]]
        /\ pc' = [pc EXCEPT ![l] = "start"] /\ closed' = closed
        /\ job' = [job EXCEPT ![l].crashes = slot[Key(l)].crashes]
        /\ pc[l] = "ensure"
    BY <1>3 DEF Claim, Put, Goto, Ensure
  <2>2. slot[Key(l)].st # "starting" \/ closed'
    <3>1. pc'[l] = "start"
      BY <1>0, <2>1 DEF TypeOK
    <3>2. ~Refuse(l) /\ ~Found(l) /\ ~Crash(l)
      BY <1>0, <3>1 DEF Found, Crash, Refuse, Done, Goto, TypeOK
    <3> QED
      BY <1>3, <3>2 DEF Ensure
  <2>3. \A m \in Lookups : job'[m].key = job[m].key
    BY <2>1 DEF TypeOK, Jobs
  <2>4. \A m \in Lookups : m \in Starters' <=> m \in Starters \/ m = l
    BY <1>0, <2>1 DEF Starters, TypeOK
  <2>5. \A m \in Starters : Key(m) # Key(l)
    BY <1>0, <1>3, <2>1, <2>2 DEF Owned
  <2>6. \A k \in Keys : slot'[k].st = IF k = Key(l) THEN "starting" ELSE slot[k].st
    BY <2>1 DEF TypeOK
  <2>7. Owned'
    BY <1>0, <1>3, <2>3, <2>4, <2>5, <2>6 DEF Owned, Key, Starters
  <2>8. StartingAttended'
    BY <1>0, <2>3, <2>4, <2>6 DEF StartingAttended, Key, Starters
  <2> QED
    BY <2>7, <2>8
<1>4. ASSUME NEW l \in Lookups, StartFails(l) \/ StartServer(l) PROVE Owned' /\ StartingAttended'
  <2>1. pc[l] = "start" /\ pc' = [pc EXCEPT ![l] = "adopt"] /\ UNCHANGED <<slot, closed, job>>
    BY <1>4 DEF StartFails, StartServer, Goto
  <2>2. Starters' = Starters
    BY <1>0, <2>1 DEF Starters, TypeOK
  <2> QED
    BY <1>0, <2>1, <2>2 DEF Owned, StartingAttended, Key, Starters
<1>5. ASSUME NEW l \in Lookups, Adopt(l) PROVE Owned' /\ StartingAttended'
  <2>1. /\ pc[l] = "adopt" /\ pc' = [pc EXCEPT ![l] = "stop"] /\ UNCHANGED <<closed, job>>
        /\ \A k \in Keys : slot'[k].st = "starting" => slot[k].st = "starting" /\ k # Key(l)
        /\ ~closed => \A k \in Keys \ {Key(l)} : slot[k].st = "starting" => slot'[k] = slot[k]
    <3>1. pc[l] = "adopt" /\ pc' = [pc EXCEPT ![l] = "stop"] /\ UNCHANGED <<closed, job>>
      BY <1>5 DEF Adopt, Goto
    <3>2. CASE closed
      <4>1. slot' = [slot EXCEPT ![Key(l)] = Empty]
        BY <1>5, <3>2 DEF Adopt
      <4> QED
        BY <3>1, <3>2, <4>1 DEF TypeOK, Empty
    <3>3. CASE ~closed
      <4>1. PICK gone \in Evicted(Key(l)) :
              slot' = [k \in Keys |->
                  IF k \in gone \cup (IF on[l] = 0 THEN {Key(l)} ELSE {}) THEN Empty
                  ELSE IF k = Key(l) THEN Serving(on[l])
                  ELSE slot[k]]
        BY <1>5, <3>3 DEF Adopt
      <4>2. \A k \in gone : slot[k].st = "running"
        BY DEF Evicted, Running
      <4> QED
        BY <3>1, <3>3, <4>1, <4>2 DEF Empty, Serving
    <3> QED
      BY <3>2, <3>3
  <2>2. Starters' = Starters \ {l}
    BY <1>0, <2>1 DEF Starters, TypeOK
  <2>3. l \in Starters
    BY <2>1 DEF Starters
  <2>4. Owned'
    BY <1>0, <2>1, <2>2, <2>3 DEF Owned, Key, Starters
  <2>5. StartingAttended'
    BY <1>0, <2>1, <2>2 DEF StartingAttended, Key, Starters
  <2> QED
    BY <2>4, <2>5
<1> QED
  BY <1>1, <1>2, <1>3, <1>4, <1>5, Bystanders

\* Adding a message to a queue, and taking the first one.
LEMMA QueueIndices ==
  ASSUME NEW S, NEW q \in Seq(S), NEW a \in S
  PROVE  /\ DOMAIN q = 1 .. Len(q) /\ Len(q) \in Nat
         /\ DOMAIN Append(q, a) = 1 .. (Len(q) + 1)
         /\ \A n \in 1 .. Len(q) : Append(q, a)[n] = q[n]
         /\ Append(q, a)[Len(q) + 1] = a
         /\ q # <<>> => /\ DOMAIN Tail(q) = 1 .. (Len(q) - 1)
                        /\ \A n \in 1 .. (Len(q) - 1) : Tail(q)[n] = q[n + 1]
OBVIOUS

\* A request is told by who asks.
LEMMA RequestForm ==
  ASSUME NEW m \in Messages, m.op = "ask"
  PROVE  m = [op |-> "ask", by |-> m.by] /\ m.by \in Lookups \cup {Sweeper}
BY DEF Messages, Notes

\* The lookups that wait for an answer go on waiting, in the same server.
AwaitersStay ==
  \A l \in Lookups : pc[l] = "await" => pc'[l] = "await" /\ on'[l] = on[l]

\* A lookup that does not wait leaves those that do alone.
LEMMA OneMoves ==
  ASSUME TypeOK, NEW x \in Threads, x \notin Lookups \/ pc[x] # "await",
         \/ x \in Lookups /\ Done(x)
         \/ (\E place : Goto(x, place))
            /\ \A l \in Lookups : l # x => on'[l] = on[l]
  PROVE  AwaitersStay
BY DEF AwaitersStay, Done, Goto, TypeOK, Threads

\* Which steps touch neither a request nor who waits for it.
LEMMA RequestsStay ==
  ASSUME TypeOK, InPlace, [Next]_vars
  PROVE  \/ AwaitersStay /\ \A i \in Servers : out'[i] = out[i] \/ out'[i] = <<>>
         \/ \E l \in Lookups : Notify(l) \/ Ask(l) \/ Abandon(l)
         \/ \E i \in Servers : Serve(i)
<1> USE DEF manager, clients, lookups
<1>0. Lookups \subseteq Threads
  BY DEF Threads
<1> DEFINE Quiet == \A i \in Servers : out'[i] = out[i] \/ out'[i] = <<>>
<1>1. CASE UNCHANGED <<pc, on, out>>
  BY <1>1 DEF AwaitersStay
<1>2. ASSUME NEW i, End(i) PROVE Quiet
  BY <1>2 DEF End, TypeOK
<1>3. ASSUME NEW l \in Lookups, Ensure(l) PROVE AwaitersStay /\ Quiet
  <2>1. pc[l] # "await" /\ UNCHANGED out
    BY <1>3 DEF Ensure
  <2>2. Done(l) \/ ((\E place : Goto(l, place)) /\ \A m \in Lookups : m # l => on'[m] = on[m])
    BY <1>3 DEF Ensure, Refuse, Found, Crash, Claim, TypeOK
  <2> QED
    BY <1>0, <2>1, <2>2, OneMoves
<1>4. ASSUME NEW l \in Lookups,
             StartFails(l) \/ StartServer(l) \/ WaitReady(l) \/ AskTimeout(l) \/ Answered(l)
      PROVE  AwaitersStay /\ Quiet
  <2>1. pc[l] # "await" /\ UNCHANGED out
    BY <1>4 DEF StartFails, StartServer, WaitReady, AskTimeout, Answered
  <2>2. Done(l) \/ ((\E place : Goto(l, place)) /\ \A m \in Lookups : m # l => on'[m] = on[m])
    BY <1>4 DEF StartFails, StartServer, WaitReady, AskTimeout, Answered, TypeOK
  <2> QED
    BY <1>0, <2>1, <2>2, OneMoves
<1>5. ASSUME NEW l \in Lookups, Adopt(l) PROVE AwaitersStay /\ Quiet
  <2>1. pc[l] # "await" /\ UNCHANGED out /\ Goto(l, "stop")
    BY <1>5 DEF Adopt
  <2>2. \A m \in Lookups : m # l => on'[m] = on[m]
    BY <1>5 DEF Adopt, TypeOK
  <2> QED
    BY <1>0, <2>1, <2>2, OneMoves
<1>6. ASSUME NEW l \in Lookups, Sync(l) PROVE AwaitersStay /\ Quiet
  <2>1. ASSUME NEW docs, NEW notes, NEW shut, SyncWith(l, docs, notes, shut)
        PROVE  (\E place : Goto(l, place)) /\ UNCHANGED <<out, on>>
    BY <2>1 DEF SyncWith
  <2>2. pc[l] # "await" /\ (\E place : Goto(l, place)) /\ UNCHANGED <<out, on>>
    BY <1>6, <2>1 DEF Sync
  <2> QED
    BY <1>0, <2>2, OneMoves
<1>7. ASSUME NEW l \in Lookups, Stall(l) PROVE AwaitersStay /\ Quiet
  BY <1>2, <1>7 DEF Stall, AwaitersStay
<1>8. ASSUME NEW l \in Lookups, NEW q \in Queries, Find(l, q) PROVE AwaitersStay /\ Quiet
  <2>1. pc[l] # "await" /\ (\E place : Goto(l, place)) /\ UNCHANGED <<out, on>>
    BY <1>8 DEF Find
  <2> QED
    BY <1>0, <2>1, OneMoves
<1>9. ASSUME NEW x \in Threads, Shutdown(x) PROVE AwaitersStay /\ Quiet
  BY <1>2, <1>9 DEF Shutdown, AwaitersStay
<1>10. ASSUME NEW x \in Threads, Stopped(x) PROVE AwaitersStay /\ Quiet
  <2>1. pc[x] # "await" /\ UNCHANGED out
    BY <1>10 DEF Stopped
  <2>2. (x \in Lookups /\ Done(x)) \/ ((\E place : Goto(x, place)) /\ UNCHANGED on)
    BY <1>10 DEF Stopped
  <2> QED
    BY <2>1, <2>2, OneMoves
<1>11. ASSUME NEW gone \in SUBSET Keys, Sweep(gone) PROVE AwaitersStay /\ Quiet
  <2>1. Goto(Sweeper, "stop") /\ UNCHANGED <<on, out>>
    BY <1>11 DEF Sweep
  <2> QED
    BY <2>1, OneMoves, LookupAssumption DEF Threads
<1>12. ASSUME ShutdownAll PROVE AwaitersStay /\ Quiet
  <2>1. Goto(Closer, "stop") /\ UNCHANGED <<on, out>>
    BY <1>12 DEF ShutdownAll
  <2> QED
    BY <2>1, OneMoves, LookupAssumption DEF Threads
<1>13. ASSUME NEW i \in Servers, Initialized(i) \/ InitializeFails(i) \/ Dies(i) \/ ReadEof(i)
       PROVE  AwaitersStay /\ Quiet
  <2>1. CASE Dies(i)
    BY <2>1 DEF Dies, AwaitersStay, TypeOK
  <2> QED
    BY <1>2, <1>13, <2>1 DEF Initialized, InitializeFails, ReadEof, AwaitersStay
<1> QED
  BY <1>1, <1>3, <1>4, <1>5, <1>6, <1>7, <1>8, <1>9, <1>10, <1>11, <1>12, <1>13
     DEF Next, Step, vars

\* Requests that are queued are those that are waited for, once each.
LEMMA AwaitedStep ==
  ASSUME TypeOK, InPlace, [Next]_vars
  PROVE  Awaited'
<1> USE DEF manager, clients, lookups
<1>0. /\ Awaited /\ Lookups \subseteq Threads
      /\ \A i \in Servers : out[i] \in Seq(Messages) /\ DOMAIN out[i] = 1 .. Len(out[i])
      /\ \A l \in Lookups : on[l] # 0 => on[l] \in Servers
  BY ServerNumbers DEF InPlace, Threads, TypeOK
<1>1. CASE AwaitersStay /\ \A i \in Servers : out'[i] = out[i] \/ out'[i] = <<>>
  BY <1>0, <1>1 DEF AwaitersStay, Awaited
<1>2. ASSUME NEW l \in Lookups, Notify(l) PROVE Awaited'
  <2>1. /\ msgs[l] \in Seq(Notes) /\ msgs[l] # <<>> /\ pc[l] = "send" /\ UNCHANGED on
        /\ \E place : Goto(l, place)
    BY <1>2 DEF Notify, TypeOK, InPlace, Numbered
  <2>2. msgs[l][1] \in Messages /\ msgs[l][1].op # "ask"
    <3>1. msgs[l][1] \in Notes
      BY <2>1
    <3> QED
      BY <3>1 DEF Messages, Notes
  <2>3. AwaitersStay
    BY <1>0, <2>1, OneMoves
  <2>4. UNCHANGED out \/ Queued(on[l], msgs[l][1])
    BY <1>2 DEF Notify
  <2>5. ASSUME NEW i \in Servers PROVE out'[i] = out[i] \/ out'[i] = Append(out[i], msgs[l][1])
    BY <2>4 DEF Queued, TypeOK
  <2>6. ASSUME NEW i \in Servers, NEW n \in DOMAIN out'[i], out'[i][n].op = "ask"
        PROVE  n \in DOMAIN out[i] /\ out'[i][n] = out[i][n]
    BY <1>0, <2>2, <2>5, <2>6, QueueIndices
  <2> QED
    BY <1>0, <2>3, <2>6 DEF AwaitersStay, Awaited
<1>3. ASSUME NEW l \in Lookups, Ask(l) PROVE Awaited'
  <2> DEFINE mine == [op |-> "ask", by |-> l]
  <2>1. pc[l] = "ask" /\ on[l] \in Servers /\ mine \in Messages
    BY <1>0, <1>3 DEF Ask, InPlace, Numbered, Messages
  <2>2. AwaitersStay
    <3>1. Done(l) \/ ((\E place : Goto(l, place)) /\ UNCHANGED on)
      BY <1>3 DEF Ask
    <3> QED
      BY <1>0, <2>1, <3>1, OneMoves
  <2>3. CASE UNCHANGED out
    BY <1>0, <2>2, <2>3 DEF AwaitersStay, Awaited
  <2>4. CASE Queued(on[l], mine) /\ Goto(l, "await") /\ UNCHANGED on
    <3>1. \A i \in Servers : out'[i] = out[i] \/ (i = on[l] /\ out'[i] = Append(out[i], mine))
      BY <2>1, <2>4 DEF Queued, TypeOK
    <3>2. pc'[l] = "await" /\ on'[l] = on[l]
      BY <1>0, <2>4 DEF Goto, TypeOK
    <3>3. \A i \in Servers : \A n \in DOMAIN out[i] : out[i][n] # mine
      BY <1>0, <2>1 DEF Awaited
    <3>4. mine.op = "ask" /\ mine.by = l
      OBVIOUS
    <3> HIDE DEF mine
    <3>5. ASSUME NEW i \in Servers, NEW n \in DOMAIN out'[i],
                 out'[i][n].op = "ask", out'[i][n].by \in Lookups
          PROVE  /\ pc'[out'[i][n].by] = "await" /\ on'[out'[i][n].by] = i
                 /\ \A m \in DOMAIN out'[i] : out'[i][m] = out'[i][n] => m = n
      <4>1. CASE out'[i] = out[i]
        BY <1>0, <2>2, <3>5, <4>1 DEF AwaitersStay, Awaited
      <4>2. CASE i = on[l] /\ out'[i] = Append(out[i], mine)
        <5>1. /\ DOMAIN out'[i] = 1 .. (Len(out[i]) + 1) /\ Len(out[i]) \in Nat
              /\ \A m \in 1 .. Len(out[i]) : out'[i][m] = out[i][m]
              /\ out'[i][Len(out[i]) + 1] = mine
          BY <1>0, <2>1, <4>2, QueueIndices
        <5>2. CASE n = Len(out[i]) + 1
          <6>1. \A m \in DOMAIN out'[i] : out'[i][m] = mine => m = Len(out[i]) + 1
            BY <1>0, <3>3, <5>1
          <6>2. out'[i][n] = mine
            BY <5>1, <5>2
          <6> QED
            BY <3>2, <3>4, <4>2, <5>2, <6>1, <6>2
        <5>3. CASE n \in 1 .. Len(out[i])
          <6> DEFINE asked == out'[i][n]
          <6>1. n \in DOMAIN out[i] /\ asked = out[i][n] /\ asked # mine
            BY <1>0, <3>3, <5>1, <5>3
          <6>2. /\ pc[asked.by] = "await" /\ on[asked.by] = i
                /\ \A m \in DOMAIN out[i] : out[i][m] = asked => m = n
            BY <1>0, <3>5, <6>1 DEF Awaited
          <6>3. \A m \in DOMAIN out'[i] : out'[i][m] = asked => m \in DOMAIN out[i] /\ out[i][m] = asked
            BY <1>0, <5>1, <6>1
          <6> QED
            BY <2>2, <3>5, <6>2, <6>3 DEF AwaitersStay
        <5> QED
          BY <3>5, <5>1, <5>2, <5>3
      <4> QED
        BY <3>1, <4>1, <4>2
    <3> QED
      BY <3>5 DEF Awaited
  <2> QED
    BY <1>3, <2>3, <2>4 DEF Ask
<1>4. ASSUME NEW l \in Lookups, Abandon(l) PROVE Awaited'
  <2> DEFINE i == on[l]
             mine == [op |-> "ask", by |-> l]
             lost == [op |-> "ask", by |-> Sweeper]
             rest == [n \in DOMAIN out[i] |-> IF out[i][n] = mine THEN lost ELSE out[i][n]]
             cancel == [op |-> "cancel"]
  <2>1. /\ pc[l] = "await" /\ i \in Servers
        /\ lost \in Messages /\ cancel \in Messages
        /\ cancel.op # "ask" /\ lost.by \notin Lookups
    BY <1>0, <1>4, LookupAssumption DEF Abandon, InPlace, Numbered, Messages
  <2>2. /\ out' = [out EXCEPT ![i] = IF i \notin exited /\ proc[i] = "up" /\ HasRoom(i)
                                     THEN Append(rest, cancel) ELSE rest]
        /\ Done(l)
    BY <1>4 DEF Abandon
  <2>3. \A m \in Lookups \ {l} : pc'[m] = pc[m] /\ on'[m] = on[m]
    BY <2>2 DEF Done, Goto, TypeOK
  <2>4. \A n \in DOMAIN out[i] : out[i][n].op = "ask" /\ out[i][n].by = l => out[i][n] = mine
    BY <1>0, <2>1, RequestForm
  <2>5. /\ rest \in Seq(Messages) /\ DOMAIN rest = DOMAIN out[i]
        /\ \A n \in DOMAIN out[i] : rest[n].op = "ask" /\ rest[n].by \in Lookups =>
             rest[n] = out[i][n] /\ out[i][n].by # l
    <3>1. ASSUME NEW S, NEW q \in Seq(S), NEW a, NEW b \in S
          PROVE  [n \in DOMAIN q |-> IF q[n] = a THEN b ELSE q[n]] \in Seq(S)
      OBVIOUS
    <3>2. rest \in Seq(Messages)
      BY <1>0, <2>1, <3>1
    <3> HIDE DEF mine, lost
    <3>3. /\ DOMAIN rest = DOMAIN out[i]
          /\ \A n \in DOMAIN out[i] : rest[n] = IF out[i][n] = mine THEN lost ELSE out[i][n]
      OBVIOUS
    <3> QED
      BY <2>1, <2>4, <3>2, <3>3
  <2> HIDE DEF i, rest, mine, lost, cancel
  <2>6. out'[i] = rest \/ out'[i] = Append(rest, cancel)
    BY <2>1, <2>2 DEF TypeOK
  <2>7. \A n \in DOMAIN out'[i] : out'[i][n].op = "ask" => n \in DOMAIN out[i] /\ out'[i][n] = rest[n]
    BY <1>0, <2>1, <2>5, <2>6, QueueIndices
  <2>8. ASSUME NEW n \in DOMAIN out'[i], out'[i][n].op = "ask", out'[i][n].by \in Lookups
        PROVE  /\ pc'[out'[i][n].by] = "await" /\ on'[out'[i][n].by] = i
               /\ \A m \in DOMAIN out'[i] : out'[i][m] = out'[i][n] => m = n
    <3>1. /\ n \in DOMAIN out[i] /\ out'[i][n] = out[i][n] /\ out[i][n].by \in Lookups \ {l}
          /\ out[i][n].op = "ask"
      BY <2>5, <2>7, <2>8
    <3>2. \A m \in DOMAIN out'[i] : out'[i][m] = out'[i][n] =>
            m \in DOMAIN out[i] /\ out[i][m] = out[i][n]
      BY <2>5, <2>7, <2>8, <3>1
    <3> QED
      BY <1>0, <2>1, <2>3, <3>1, <3>2 DEF Awaited
  <2>9. ASSUME NEW j \in Servers, j # i, NEW n \in DOMAIN out'[j],
               out'[j][n].op = "ask", out'[j][n].by \in Lookups
        PROVE  /\ pc'[out'[j][n].by] = "await" /\ on'[out'[j][n].by] = j
               /\ \A m \in DOMAIN out'[j] : out'[j][m] = out'[j][n] => m = n
    <3>1. out'[j] = out[j]
      BY <2>2, <2>9 DEF TypeOK
    <3>2. out[j][n].by # l
      BY <1>0, <2>9, <3>1 DEF Awaited, i
    <3> QED
      BY <1>0, <2>3, <2>9, <3>1, <3>2 DEF Awaited
  <2> QED
    BY <2>8, <2>9 DEF Awaited
<1>5. ASSUME NEW i \in Servers, Serve(i) PROVE Awaited'
  <2>1. /\ out[i] \in Seq(Messages) /\ out[i] # <<>> /\ out' = [out EXCEPT ![i] = Tail(@)]
        /\ UNCHANGED on /\ out[i][1] \in Messages
    BY <1>0, <1>5 DEF Serve
  <2>2. /\ DOMAIN out[i] = 1 .. Len(out[i]) /\ Len(out[i]) \in Nat
        /\ DOMAIN out'[i] = 1 .. (Len(out[i]) - 1)
        /\ \A n \in 1 .. (Len(out[i]) - 1) : out'[i][n] = out[i][n + 1]
    BY <2>1, QueueIndices DEF TypeOK
  <2>3. \/ UNCHANGED pc
        \/ /\ out[i][1].op = "ask" /\ out[i][1].by \in Lookups
           /\ pc' = [pc EXCEPT ![out[i][1].by] = "answered"]
    BY <1>5 DEF Serve, Goto
  <2>4. \A l \in Lookups : pc'[l] = pc[l] \/ (out[i][1].op = "ask" /\ out[i][1].by = l)
    BY <1>0, <2>3 DEF TypeOK
  <2>5. ASSUME NEW n \in DOMAIN out'[i], out'[i][n].op = "ask", out'[i][n].by \in Lookups
        PROVE  /\ pc'[out'[i][n].by] = "await" /\ on'[out'[i][n].by] = i
               /\ \A m \in DOMAIN out'[i] : out'[i][m] = out'[i][n] => m = n
    <3>1. n + 1 \in DOMAIN out[i] /\ out[i][n + 1] = out'[i][n] /\ 1 \in DOMAIN out[i] /\ n + 1 # 1
      BY <2>2
    <3>2. out[i][n + 1] \in Messages
      BY <1>0, <3>1
    <3>3. \A m \in DOMAIN out[i] : out[i][m] = out[i][n + 1] => m = n + 1
      BY <1>0, <2>5, <3>1 DEF Awaited
    <3>4. out[i][1].op = "ask" => out[i][1].by # out[i][n + 1].by
      BY <2>1, <2>5, <3>1, <3>2, <3>3, RequestForm
    <3>5. pc[out[i][n + 1].by] = "await" /\ on[out[i][n + 1].by] = i
      BY <1>0, <2>5, <3>1 DEF Awaited
    <3>6. ASSUME NEW m \in DOMAIN out'[i], out'[i][m] = out'[i][n] PROVE m = n
      <4>1. m + 1 \in DOMAIN out[i] /\ out[i][m + 1] = out[i][n + 1]
        BY <2>2, <3>1, <3>6
      <4>2. m + 1 = n + 1
        BY <3>3, <4>1
      <4>3. m \in Int /\ n \in Int
        BY <2>2, <2>5, <3>6
      <4> QED
        BY <4>2, <4>3
    <3> QED
      BY <2>1, <2>4, <2>5, <3>1, <3>4, <3>5, <3>6
  <2>6. ASSUME NEW j \in Servers, j # i, NEW n \in DOMAIN out'[j],
               out'[j][n].op = "ask", out'[j][n].by \in Lookups
        PROVE  /\ pc'[out'[j][n].by] = "await" /\ on'[out'[j][n].by] = j
               /\ \A m \in DOMAIN out'[j] : out'[j][m] = out'[j][n] => m = n
    <3>1. out'[j] = out[j]
      BY <2>1, <2>6 DEF TypeOK
    <3>2. out[i][1].op = "ask" => out[i][1].by # out[j][n].by
      BY <1>0, <1>5, <2>6, <3>1, HeadAwaited DEF Awaited
    <3> QED
      BY <1>0, <2>1, <2>4, <2>6, <3>1, <3>2 DEF Awaited
  <2> QED
    BY <2>5, <2>6 DEF Awaited
<1> QED
  BY <1>1, <1>2, <1>3, <1>4, <1>5, RequestsStay

\* Which steps change the map, what threads have to stop, or bring a server up.
LEMMA ManagerStays ==
  ASSUME TypeOK, [Next]_vars
  PROVE  \/ /\ UNCHANGED <<slot, closed, recent, past, todo>>
            /\ \A i \in Servers : proc'[i] = "up" => proc[i] = "up"
         \/ \E l \in Lookups : Ensure(l) \/ StartServer(l) \/ Adopt(l)
         \/ \E x \in Threads : Shutdown(x)
         \/ \E gone \in SUBSET Keys : Sweep(gone)
         \/ ShutdownAll
<1> USE DEF manager, clients, lookups
<1>1. CASE UNCHANGED <<slot, closed, recent, past, todo, proc>>
  BY <1>1
<1>2. ASSUME NEW i, End(i) PROVE UNCHANGED past /\ \A j \in Servers : proc'[j] = "up" => proc[j] = "up"
  BY <1>2 DEF End, TypeOK
<1>3. ASSUME NEW l \in Lookups, Stall(l)
      PROVE  /\ UNCHANGED <<slot, closed, recent, past, todo>>
             /\ \A i \in Servers : proc'[i] = "up" => proc[i] = "up"
  BY <1>2, <1>3 DEF Stall
<1>4. ASSUME NEW i \in Servers, InitializeFails(i) \/ Dies(i)
      PROVE  /\ UNCHANGED <<slot, closed, recent, past, todo>>
             /\ \A j \in Servers : proc'[j] = "up" => proc[j] = "up"
  BY <1>2, <1>4 DEF InitializeFails, Dies, TypeOK
<1>5. ASSUME NEW l \in Lookups, StartFails(l) \/ WaitReady(l) \/ Sync(l) \/ Notify(l) \/ Ask(l)
                                \/ AskTimeout(l) \/ Abandon(l) \/ Answered(l)
      PROVE  UNCHANGED <<slot, closed, recent, past, todo, proc>>
  BY <1>5 DEF StartFails, WaitReady, Sync, SyncWith, Notify, Ask, AskTimeout, Abandon, Answered
<1>6. ASSUME NEW l \in Lookups, NEW q \in Queries, Find(l, q)
      PROVE  UNCHANGED <<slot, closed, recent, past, todo, proc>>
  BY <1>6 DEF Find
<1>7. ASSUME NEW x \in Threads, Stopped(x)
      PROVE  UNCHANGED <<slot, closed, recent, past, todo, proc>>
  BY <1>7 DEF Stopped
<1>8. ASSUME NEW i \in Servers, Initialized(i) \/ Serve(i) \/ ReadEof(i)
      PROVE  UNCHANGED <<slot, closed, recent, past, todo, proc>>
  BY <1>8 DEF Initialized, Serve, ReadEof
<1> QED
  BY <1>1, <1>3, <1>4, <1>5, <1>6, <1>7, <1>8 DEF Next, Step, vars

\* What a lookup does to the map when it looks for its server.
LEMMA EnsureCases ==
  ASSUME TypeOK, InPlace, NEW l \in Lookups, Ensure(l)
  PROVE  /\ Key(l) \in Keys /\ pc[l] = "ensure"
         /\ UNCHANGED <<closed, todo, proc, past, starts, exited>>
         /\ \/ StartersStay /\ UNCHANGED <<slot, recent>>
            \/ /\ StartersStay
               /\ ~closed /\ slot[Key(l)].st = "running" /\ slot[Key(l)].server \in exited
               /\ Crash(l)
            \/ /\ ~closed /\ Claim(l)
               /\ \/ slot[Key(l)].st = "none"
                  \/ slot[Key(l)].st = "crashed" /\ slot[Key(l)].retry = "later"
<1> USE DEF manager, clients, lookups
<1>1. /\ Key(l) \in Keys /\ pc[l] = "ensure" /\ on[l] = 0 /\ l \notin Starters /\ l \in Threads
      /\ UNCHANGED <<closed, todo, proc, past, starts, exited>>
  BY DEF Key, TypeOK, Jobs, InPlace, Numbered, Starters, Threads, Ensure, Refuse, Found, Crash, Claim
<1>2. CASE Refuse(l)
  <2>1. StartersStay
    BY <1>1, <1>2 DEF Refuse, StartersStay, Starters, Done, Goto, TypeOK
  <2> QED
    BY <1>1, <1>2, <2>1 DEF Refuse
<1>3. CASE Found(l)
  <2>1. StartersStay
    BY <1>1, <1>3 DEF Found, Goto, StartersStay, Starters, TypeOK
  <2> QED
    BY <1>1, <1>3, <2>1 DEF Found
<1>4. CASE ~closed /\ slot[Key(l)].st = "running" /\ slot[Key(l)].server \in exited /\ Crash(l)
  <2>1. PICK kept : Put(Key(l), "crashed", 0, Recorded(kept), NextDelay(Recorded(kept)))
    BY <1>4 DEF Crash
  <2>2. \A k \in Keys : slot'[k].st = "starting" <=> slot[k].st = "starting"
    BY <1>4, <2>1 DEF Put, TypeOK
  <2>3. StartersStay
    BY <1>1, <1>4, <2>2 DEF Crash, Done, Goto, StartersStay, Starters, TypeOK
  <2> QED
    BY <1>1, <1>4, <2>3
<1> QED
  BY <1>1, <1>2, <1>3, <1>4 DEF Ensure

\* A server that runs is always somebody's.
LEMMA NoServerLeftStep ==
  ASSUME TypeOK, InPlace, NoServerLeft, [Next]_vars
  PROVE  NoServerLeft'
<1> USE DEF manager, clients, lookups
<1>0. /\ ExitedIsDead /\ Numbered /\ Owned /\ Lookups \subseteq Threads
      /\ Sweeper \in Threads /\ Closer \in Threads
      /\ \A l \in Lookups : Key(l) \in Keys
  BY DEF InPlace, Threads, TypeOK, Jobs, Key
<1>1. ASSUME UNCHANGED closed,
             \A k \in Keys : slot[k].st = "running" => slot'[k] = slot[k],
             \A x \in Threads : todo[x] \subseteq todo'[x],
             \A l \in Lookups : pc[l] = "adopt" => pc'[l] = "adopt" /\ on'[l] = on[l],
             \A i \in Servers : proc'[i] = "up" => proc[i] = "up"
      PROVE  NoServerLeft'
  BY <1>1 DEF NoServerLeft
<1>2. ASSUME NEW l \in Lookups, StartFails(l) PROVE NoServerLeft'
  <2>1. \A m \in Lookups : pc[m] = "adopt" => pc'[m] = "adopt" /\ on'[m] = on[m]
    BY <1>2 DEF StartFails, Goto, TypeOK
  <2> QED
    BY <1>1, <1>2, <2>1 DEF StartFails
<1>3. ASSUME NEW l \in Lookups, StartServer(l) PROVE NoServerLeft'
  <2>1. /\ \A i \in Servers : proc'[i] = "up" => proc[i] = "up" \/ i = starts + 1
        /\ pc'[l] = "adopt" /\ on'[l] = starts + 1
        /\ \A m \in Lookups : pc[m] = "adopt" => pc'[m] = "adopt" /\ on'[m] = on[m]
        /\ UNCHANGED <<slot, closed, todo>>
    BY <1>0, <1>3 DEF StartServer, Goto, TypeOK
  <2> QED
    BY <2>1 DEF NoServerLeft
<1>4. ASSUME NEW l \in Lookups, Adopt(l) PROVE NoServerLeft'
  <2>0. /\ pc[l] = "adopt" /\ todo[l] = {} /\ UNCHANGED <<closed, proc>>
        /\ \A m \in Lookups \ {l} : pc[m] = "adopt" => pc'[m] = "adopt"
    BY <1>0, <1>4 DEF Adopt, Numbered, Goto, TypeOK
  <2>1. CASE closed
    <3>1. /\ todo' = [todo EXCEPT ![l] = {on[l]} \ {0}] /\ on' = [on EXCEPT ![l] = 0]
      BY <1>4, <2>1 DEF Adopt
    <3>2. /\ \A x \in Threads : todo[x] \subseteq todo'[x]
          /\ \A m \in Lookups \ {l} : on'[m] = on[m]
          /\ on[l] \in Servers => on[l] \in todo'[l]
      BY <1>0, <2>0, <3>1 DEF TypeOK, Servers
    <3> QED
      BY <1>0, <2>0, <2>1, <3>2 DEF NoServerLeft
  <2>2. CASE ~closed
    <3>1. PICK gone \in Evicted(Key(l)) :
            /\ slot' = [k \in Keys |->
                IF k \in gone \cup (IF on[l] = 0 THEN {Key(l)} ELSE {}) THEN Empty
                ELSE IF k = Key(l) THEN Serving(on[l])
                ELSE slot[k]]
            /\ todo' = [todo EXCEPT ![l] = {slot[k].server : k \in gone}]
            /\ UNCHANGED on
      BY <1>4, <2>2 DEF Adopt
    <3>2. /\ todo'[l] = {slot[k].server : k \in gone}
          /\ \A x \in Threads : todo[x] \subseteq todo'[x]
          /\ \A k \in Keys \ {Key(l)} : k \in gone \/ slot'[k] = slot[k]
          /\ Key(l) \notin gone /\ gone \subseteq Keys
      BY <1>0, <2>0, <3>1 DEF TypeOK, Evicted, Running
    <3>3. on[l] # 0 => slot'[Key(l)].st = "running" /\ slot'[Key(l)].server = on[l]
      BY <1>0, <3>1, <3>2 DEF Serving
    <3>4. slot[Key(l)].st = "starting"
      BY <1>0, <2>0, <2>2 DEF Owned, Starters
    <3>5. ASSUME NEW i \in Servers, proc'[i] = "up"
          PROVE  \/ \E k \in Keys : slot'[k].st = "running" /\ slot'[k].server = i
                 \/ \E x \in Threads : i \in todo'[x]
                 \/ \E m \in Lookups : pc'[m] = "adopt" /\ on'[m] = i
      <4>1. CASE \E k \in Keys : slot[k].st = "running" /\ slot[k].server = i
        BY <1>0, <3>2, <3>4, <4>1
      <4>2. CASE \E x \in Threads : i \in todo[x]
        BY <3>2, <4>2
      <4>3. CASE \E m \in Lookups : pc[m] = "adopt" /\ on[m] = i
        BY <1>0, <2>0, <3>1, <3>3, <4>3 DEF Servers
      <4> QED
        BY <2>0, <3>5, <4>1, <4>2, <4>3 DEF NoServerLeft
    <3> QED
      BY <2>0, <2>2, <3>5 DEF NoServerLeft
  <2> QED
    BY <2>1, <2>2
<1>5. ASSUME NEW l \in Lookups, Ensure(l) PROVE NoServerLeft'
  <2>0. \A m \in Lookups : pc[m] = "adopt" => pc'[m] = "adopt" /\ on'[m] = on[m]
    <3>1. CASE StartersStay
      BY <3>1 DEF StartersStay, Starters
    <3>2. CASE Claim(l)
      <4>1. pc' = [pc EXCEPT ![l] = "start"] /\ UNCHANGED on /\ pc[l] = "ensure"
        BY <1>5, <3>2, EnsureCases DEF Claim, Goto
      <4> QED
        BY <1>0, <4>1 DEF TypeOK
    <3> QED
      BY <1>5, <3>1, <3>2, EnsureCases
  <2>1. CASE UNCHANGED slot
    BY <1>1, <1>5, <2>0, <2>1, EnsureCases
  <2>2. CASE Claim(l) /\ slot[Key(l)].st \in {"none", "crashed"}
    <3>1. \A k \in Keys : slot[k].st = "running" => slot'[k] = slot[k]
      BY <2>2 DEF Claim, Put, TypeOK
    <3> QED
      BY <1>1, <1>5, <2>0, <3>1, EnsureCases
  <2>3. CASE ~closed /\ slot[Key(l)].server \in exited /\ Crash(l)
    <3>1. \A k \in Keys : k # Key(l) => slot'[k] = slot[k]
      <4>1. PICK kept : Put(Key(l), "crashed", 0, Recorded(kept), NextDelay(Recorded(kept)))
        BY <2>3 DEF Crash
      <4> QED
        BY <4>1 DEF Put, TypeOK
    <3>2. \A i \in Servers : proc[i] = "up" => i # slot[Key(l)].server
      BY <1>0, <2>3 DEF ExitedIsDead
    <3>3. UNCHANGED <<closed, todo, proc>>
      BY <1>5, EnsureCases
    <3> QED
      BY <2>0, <2>3, <3>1, <3>2, <3>3 DEF NoServerLeft
  <2> QED
    BY <1>5, <2>1, <2>2, <2>3, EnsureCases
<1>6. ASSUME NEW x \in Threads, Shutdown(x) PROVE NoServerLeft'
  <2>1. PICK i \in todo[x] : /\ proc' = [proc EXCEPT ![i] = "dead"]
                             /\ todo' = [todo EXCEPT ![x] = @ \ {i}]
    BY <1>6 DEF Shutdown, End
  <2>2. /\ \A j \in Servers : proc'[j] = "up" => proc[j] = "up" /\ j # i
        /\ \A y \in Threads : todo[y] \ {i} \subseteq todo'[y]
    BY <2>1 DEF TypeOK
  <2>3. UNCHANGED <<slot, closed, pc, on>>
    BY <1>6 DEF Shutdown
  <2> QED
    BY <2>2, <2>3 DEF NoServerLeft
<1>7. ASSUME NEW gone \in SUBSET Keys, Sweep(gone), StartersStay PROVE NoServerLeft'
  <2>1. /\ todo'[Sweeper] = {slot[k].server : k \in gone} /\ UNCHANGED <<closed, proc, on>>
        /\ \A k \in Keys \ gone : slot'[k] = slot[k]
        /\ \A x \in Threads \ {Sweeper} : todo'[x] = todo[x]
        /\ todo[Sweeper] = {}
    BY <1>0, <1>7 DEF Sweep, Numbered, TypeOK
  <2>2. \A l \in Lookups : pc[l] = "adopt" => pc'[l] = "adopt"
    BY <1>7 DEF StartersStay, Starters
  <2> QED
    BY <1>0, <2>1, <2>2 DEF NoServerLeft
<1>8. ASSUME ShutdownAll PROVE NoServerLeft'
  <2>1. /\ todo'[Closer] = {slot[k].server : k \in Running} /\ UNCHANGED <<proc, on>>
        /\ \A x \in Threads \ {Closer} : todo'[x] = todo[x]
        /\ todo[Closer] = {} /\ closed'
    BY <1>0, <1>8 DEF ShutdownAll, Numbered, TypeOK
  <2>2. \A l \in Lookups : pc'[l] = pc[l]
    BY <1>8, LookupAssumption DEF ShutdownAll, Goto, TypeOK, Threads
  <2>3. \A k \in Keys : slot[k].st = "running" => slot[k].server \in todo'[Closer]
    BY <2>1 DEF Running
  <2> QED
    BY <1>0, <2>1, <2>2, <2>3 DEF NoServerLeft
<1>9. CASE StartersStay /\ UNCHANGED <<slot, closed, todo>>
           /\ \A i \in Servers : proc'[i] = "up" => proc[i] = "up"
  BY <1>1, <1>9 DEF StartersStay, Starters
<1> QED
  BY <1>2, <1>3, <1>4, <1>5, <1>6, <1>7, <1>8, <1>9, ManagerStays, Bystanders

\* The budget: never more servers than it allows, or one.
Budget == IF MaxServers = 0 THEN 1 ELSE MaxServers

\* Fewer servers run, or as many.
LEMMA FewerRun ==
  ASSUME WithinBudget, NEW R \in SUBSET Running
  PROVE  IsFiniteSet(R) /\ Cardinality(R) <= Budget
<1>1. IsFiniteSet(Running)
  BY FS_Subset, LookupAssumption DEF Running
<1>2. IsFiniteSet(R) /\ Cardinality(R) <= Cardinality(Running)
  BY <1>1, FS_Subset
<1>3. Cardinality(R) \in Nat /\ Cardinality(Running) \in Nat
  BY <1>1, <1>2, FS_CardinalityType
<1> QED
  BY <1>2, <1>3, LookupAssumption DEF WithinBudget, Budget

\* What is evicted leaves room for the server that was just started.
LEMMA EvictionMakesRoom ==
  ASSUME WithinBudget, NEW k, NEW gone \in Evicted(k)
  PROVE  Cardinality((Running \ gone) \cup {k}) <= Budget
<1> DEFINE others == Running \ {k}
           budget == IF MaxServers = 0 THEN 0 ELSE MaxServers - 1
           excess == IF Cardinality(others) <= budget THEN 0 ELSE Cardinality(others) - budget
<1>1. IsFiniteSet(others) /\ gone \in SUBSET others /\ Cardinality(gone) = excess
  BY FewerRun DEF Evicted
<1>2. IsFiniteSet(gone)
  BY <1>1, FS_Subset
<1>3. /\ IsFiniteSet(others \ gone)
      /\ Cardinality(others \ gone) = Cardinality(others) - Cardinality(others \cap gone)
  BY <1>1, FS_Difference
<1>4. others \cap gone = gone
  BY <1>1
<1>5. Cardinality(others) \in Nat /\ Cardinality(gone) \in Nat /\ Cardinality(others \ gone) \in Nat
  BY <1>1, <1>2, <1>3, FS_CardinalityType
<1>6. budget \in Nat /\ Budget = budget + 1
  BY LookupAssumption DEF Budget
<1> HIDE DEF others, budget
<1>7. Cardinality(others \ gone) = Cardinality(others) - Cardinality(gone)
  BY <1>3, <1>4
<1>8. Cardinality(others \ gone) <= budget
  BY <1>1, <1>5, <1>6, <1>7
<1> DEFINE left == others \ gone
<1> HIDE DEF left
<1>9. Cardinality(left \cup {k}) <= Cardinality(left) + 1
  <2>1. IsFiniteSet(left)
    BY <1>3 DEF left
  <2>2. Cardinality(left \cup {k}) = IF k \in left THEN Cardinality(left) ELSE Cardinality(left) + 1
    BY <2>1, FS_AddElement
  <2>3. Cardinality(left) \in Nat
    BY <2>1, FS_CardinalityType
  <2> QED
    BY <2>2, <2>3
<1>10. (Running \ gone) \cup {k} = left \cup {k}
  BY DEF others, left
<1>11. IsFiniteSet(left \cup {k})
  BY <1>3, FS_AddElement DEF left
<1>12. Cardinality(left \cup {k}) \in Nat /\ Cardinality(left) \in Nat
  BY <1>3, <1>11, FS_CardinalityType DEF left
<1>13. Cardinality(left) <= budget
  BY <1>8 DEF left
<1>14. Cardinality(left \cup {k}) <= Budget
  BY <1>6, <1>9, <1>12, <1>13
<1> QED
  BY <1>10, <1>14

\* The budget holds.
LEMMA BudgetStep ==
  ASSUME TypeOK, InPlace, WithinBudget, [Next]_vars
  PROVE  WithinBudget'
<1> USE DEF manager
<1>1. CASE Running' \subseteq Running
  <2>1. Running' \in SUBSET Running
    BY <1>1
  <2>2. Cardinality(Running') <= Budget
    BY <2>1, FewerRun
  <2> QED
    BY <2>2 DEF WithinBudget, Budget
<1>2. CASE UNCHANGED slot
  <2>1. Running' \subseteq Running
    BY <1>2 DEF Running
  <2> QED
    BY <1>1, <2>1
<1>3. ASSUME NEW l \in Lookups, Ensure(l) PROVE WithinBudget'
  <2>1. UNCHANGED slot \/ Crash(l) \/ Claim(l)
    BY <1>3, EnsureCases
  <2>2. CASE Crash(l) \/ Claim(l)
    <3>1. PICK st \in {"crashed", "starting"} : \E crashes, retry : Put(Key(l), st, 0, crashes, retry)
      BY <2>2 DEF Crash, Claim
    <3>2. Running' \subseteq Running
      BY <3>1 DEF Put, Running, TypeOK
    <3> QED
      BY <1>1, <3>2
  <2> QED
    BY <1>2, <2>1, <2>2
<1>4. ASSUME NEW l \in Lookups, Adopt(l) PROVE WithinBudget'
  <2>1. CASE closed
    <3>1. slot' = [slot EXCEPT ![Key(l)] = Empty]
      BY <1>4, <2>1 DEF Adopt
    <3>2. Running' \subseteq Running
      BY <3>1 DEF Running, Empty, TypeOK
    <3> QED
      BY <1>1, <3>2
  <2>2. CASE ~closed
    <3>1. PICK gone \in Evicted(Key(l)) :
            slot' = [k \in Keys |->
                IF k \in gone \cup (IF on[l] = 0 THEN {Key(l)} ELSE {}) THEN Empty
                ELSE IF k = Key(l) THEN Serving(on[l])
                ELSE slot[k]]
      BY <1>4, <2>2 DEF Adopt
    <3>2. Running' \subseteq (Running \ gone) \cup {Key(l)}
      BY <3>1 DEF Running, Empty
    <3>3. Cardinality((Running \ gone) \cup {Key(l)}) <= Budget
      BY <3>1, EvictionMakesRoom
    <3>4. IsFiniteSet((Running \ gone) \cup {Key(l)})
      BY FewerRun, FS_AddElement
    <3>5. Running' \in SUBSET ((Running \ gone) \cup {Key(l)})
      BY <3>2
    <3>6. IsFiniteSet(Running') /\ Cardinality(Running') <= Cardinality((Running \ gone) \cup {Key(l)})
      BY <3>4, <3>5, FS_Subset
    <3>7. Cardinality(Running') \in Nat /\ Cardinality((Running \ gone) \cup {Key(l)}) \in Nat
      BY <3>4, <3>6, FS_CardinalityType
    <3> QED
      BY <3>3, <3>6, <3>7, LookupAssumption DEF WithinBudget, Budget
  <2> QED
    BY <2>1, <2>2
<1>5. ASSUME NEW gone \in SUBSET Keys, Sweep(gone) PROVE WithinBudget'
  <2>1. Running' \subseteq Running
    BY <1>5 DEF Sweep, Running, Empty
  <2> QED
    BY <1>1, <2>1
<1>6. ASSUME ShutdownAll PROVE WithinBudget'
  <2>1. Running' \subseteq Running
    BY <1>6 DEF ShutdownAll, Running, Empty
  <2> QED
    BY <1>1, <2>1
<1>7. ASSUME NEW x \in Threads, Shutdown(x) PROVE UNCHANGED slot
  BY <1>7 DEF Shutdown
<1>8. ASSUME NEW l \in Lookups, StartServer(l) PROVE UNCHANGED slot
  BY <1>8 DEF StartServer
<1> QED
  BY <1>2, <1>3, <1>4, <1>5, <1>6, <1>7, <1>8, ManagerStays

-----------------------------------------------------------------------------
(* Crashes.                                                                *)

\* What is known of the crashes of a key that is not running: nothing when nobody has it;
\* who starts it again knows of them all, and so does the server.
CrashesHeld ==
  /\ \A k \in Keys :
       /\ slot[k].st = "none" => recent[k] = 0 /\ slot[k].crashes = 0
       /\ slot[k].st = "crashed" /\ slot[k].retry = "later" => recent[k] < GiveUp
  /\ ~closed => \A l \in Starters :
       /\ pc[l] = "start" => job[l].crashes = recent[Key(l)]
       /\ pc[l] = "adopt" /\ on[l] # 0 => past[on[l]] = recent[Key(l)]

\* The crashes of a key are remembered as long as it is started again.
LEMMA CrashesStep ==
  ASSUME TypeOK, InPlace, CrashesHeld, CrashesRemembered, [Next]_vars
  PROVE  CrashesHeld' /\ CrashesRemembered'
<1> USE DEF manager, clients, lookups
<1>0. /\ Numbered /\ Owned /\ Lookups \subseteq Threads /\ GiveUp \in Nat \ {0} /\ starts \in Nat
      /\ \A l \in Lookups : Key(l) \in Keys /\ on[l] <= starts /\ on[l] \in Nat
      /\ recent \in [Keys -> Nat]
  BY ServerNumbers, LookupAssumption DEF InPlace, Numbered, Threads, TypeOK, Jobs, Key
<1>1. CASE StartersStay /\ UNCHANGED <<slot, recent, past>>
  BY <1>0, <1>1 DEF StartersStay, Starters, CrashesHeld, CrashesRemembered, Key
<1>2. ASSUME NEW l \in Lookups, Ensure(l)
      PROVE  CrashesHeld' /\ CrashesRemembered'
  <2>0. Key(l) \in Keys /\ pc[l] = "ensure" /\ UNCHANGED <<closed, todo, proc, past, starts, exited>>
    BY <1>2, EnsureCases
  <2>1. CASE StartersStay /\ UNCHANGED <<slot, recent>>
    BY <1>1, <2>0, <2>1
  <2>2. CASE Claim(l) /\ ~closed
             /\ \/ slot[Key(l)].st = "none"
                \/ slot[Key(l)].st = "crashed" /\ slot[Key(l)].retry = "later"
    <3>1. /\ slot' = [slot EXCEPT ![Key(l)] =
                [st |-> "starting", server |-> 0, crashes |-> 0, retry |-> "never"]]
          /\ pc' = [pc EXCEPT ![l] = "start"] /\ UNCHANGED <<recent, on>>
          /\ job' = [job EXCEPT ![l].crashes = slot[Key(l)].crashes]
      BY <2>2 DEF Claim, Put, Goto
    <3>2. /\ \A m \in Lookups : job'[m].key = job[m].key
          /\ \A m \in Lookups : m # l => job'[m] = job[m] /\ pc'[m] = pc[m]
          /\ job'[l].crashes = slot[Key(l)].crashes /\ pc'[l] = "start"
      BY <1>0, <3>1 DEF TypeOK, Jobs
    <3>3. recent[Key(l)] < GiveUp
      BY <1>0, <2>0, <2>2 DEF CrashesHeld
    <3>4. slot[Key(l)].crashes = recent[Key(l)]
      <4>1. CASE slot[Key(l)].st = "crashed"
        BY <2>0, <4>1 DEF CrashesRemembered
      <4>2. CASE slot[Key(l)].st = "none"
        BY <2>0, <2>2, <4>2 DEF CrashesHeld
      <4> QED
        BY <2>2, <4>1, <4>2
    <3>5. \A k \in Keys : IF k = Key(l) THEN slot'[k].st = "starting" ELSE slot'[k] = slot[k]
      BY <3>1 DEF TypeOK
    <3>6. CrashesHeld'
      BY <1>0, <2>0, <2>2, <3>1, <3>2, <3>4, <3>5 DEF CrashesHeld, Starters, Key
    <3>7. CrashesRemembered'
      BY <1>0, <2>0, <3>1, <3>3, <3>5 DEF CrashesRemembered
    <3> QED
      BY <3>6, <3>7
  <2>3. CASE /\ StartersStay /\ ~closed /\ slot[Key(l)].st = "running" /\ Crash(l)
    <3> DEFINE held == past[slot[Key(l)].server]
    <3>1. held = recent[Key(l)] /\ held \in Nat /\ held < GiveUp
      <4>1. ~(recent[Key(l)] >= GiveUp)
        BY <2>0, <2>3 DEF CrashesRemembered
      <4> QED
        BY <1>0, <2>0, <2>3, <4>1 DEF CrashesRemembered
    <3>2. PICK kept \in 0 .. held :
            /\ Put(Key(l), "crashed", 0, Recorded(kept), NextDelay(Recorded(kept)))
            /\ recent' = [recent EXCEPT ![Key(l)] = (@ - (held - kept)) + 1]
      BY <2>3 DEF Crash
    <3> HIDE DEF held
    <3>3. Recorded(kept) = kept + 1 /\ kept + 1 \in Nat
          /\ (recent[Key(l)] - (held - kept)) + 1 = kept + 1
      BY <1>0, <3>1, <3>2 DEF Recorded
    <3>4. /\ recent'[Key(l)] = kept + 1
          /\ \A k \in Keys : k # Key(l) => recent'[k] = recent[k] /\ slot'[k] = slot[k]
          /\ slot'[Key(l)].st = "crashed" /\ slot'[Key(l)].crashes = kept + 1
          /\ slot'[Key(l)].retry = NextDelay(kept + 1)
      BY <1>0, <2>0, <3>2, <3>3 DEF Put, TypeOK
    <3>5. /\ kept + 1 >= GiveUp => slot'[Key(l)].retry = "never"
          /\ slot'[Key(l)].retry = "later" => kept + 1 < GiveUp
      BY <1>0, <3>3, <3>4 DEF NextDelay
    <3>6. \A m \in Starters : Key(m) # Key(l)
      BY <1>0, <2>3 DEF Owned
    <3>7. CrashesHeld'
      BY <1>0, <2>0, <2>3, <3>4, <3>5, <3>6 DEF CrashesHeld, StartersStay, Starters, Key
    <3>8. CrashesRemembered'
      BY <1>0, <2>0, <3>4, <3>5 DEF CrashesRemembered
    <3> QED
      BY <3>7, <3>8
  <2> QED
    BY <1>2, <2>1, <2>2, <2>3, EnsureCases
<1>3. ASSUME NEW l \in Lookups, StartFails(l) PROVE CrashesHeld' /\ CrashesRemembered'
  <2>1. /\ pc[l] = "start" /\ pc'[l] = "adopt" /\ on[l] = 0
        /\ \A m \in Lookups : m # l => pc'[m] = pc[m]
        /\ UNCHANGED <<slot, closed, recent, past, job, on>>
    BY <1>0, <1>3 DEF StartFails, Goto, Numbered, TypeOK
  <2> QED
    BY <1>0, <2>1 DEF CrashesHeld, CrashesRemembered, Starters, Key
<1>4. ASSUME NEW l \in Lookups, StartServer(l) PROVE CrashesHeld' /\ CrashesRemembered'
  <2>0. /\ pc[l] = "start" /\ pc' = [pc EXCEPT ![l] = "adopt"]
        /\ on' = [on EXCEPT ![l] = starts + 1] /\ starts < MaxStarts
        /\ past' = [past EXCEPT ![starts + 1] = job[l].crashes]
        /\ UNCHANGED <<slot, closed, recent, job>>
    BY <1>4 DEF StartServer, Goto
  <2>1. /\ pc'[l] = "adopt" /\ on'[l] = starts + 1
        /\ \A m \in Lookups : m # l => pc'[m] = pc[m] /\ on'[m] = on[m]
    BY <1>0, <2>0 DEF TypeOK
  <2>4. /\ past'[starts + 1] = job[l].crashes
        /\ \A i \in 1 .. starts : past'[i] = past[i]
    <3>1. starts + 1 \in Servers /\ 1 .. starts \subseteq Servers /\ starts + 1 \notin 1 .. starts
      BY <1>0, <2>0, LookupAssumption DEF Servers
    <3>2. DOMAIN past = Servers
      BY DEF TypeOK
    <3> QED
      BY <2>0, <3>1, <3>2
  <2>2. CrashesHeld'
    <3>1. \A m \in Lookups : m # l /\ on[m] # 0 => past'[on[m]] = past[on[m]]
      BY <1>0, <2>4
    <3> QED
      BY <1>0, <2>0, <2>1, <2>4, <3>1 DEF CrashesHeld, Starters, Key
  <2>3. CrashesRemembered'
    BY <1>0, <2>0, <2>4 DEF CrashesRemembered, Numbered
  <2> QED
    BY <2>2, <2>3
<1>5. ASSUME NEW l \in Lookups, Adopt(l) PROVE CrashesHeld' /\ CrashesRemembered'
  <2>0. /\ pc[l] = "adopt" /\ l \in Starters /\ pc'[l] = "stop"
        /\ \A m \in Lookups : m # l => pc'[m] = pc[m]
        /\ UNCHANGED <<closed, past, job>>
    BY <1>0, <1>5 DEF Adopt, Goto, TypeOK, Starters
  <2>1. CASE closed
    <3>1. slot' = [slot EXCEPT ![Key(l)] = Empty] /\ UNCHANGED recent /\ slot[Key(l)] = Empty
      BY <1>0, <1>5, <2>1 DEF Adopt, Numbered
    <3>2. UNCHANGED <<slot, recent>>
      BY <3>1 DEF TypeOK
    <3> QED
      BY <2>0, <2>1, <3>2 DEF CrashesHeld, CrashesRemembered
  <2>2. CASE ~closed
    <3>1. PICK gone \in Evicted(Key(l)) :
            /\ slot' = [k \in Keys |->
                IF k \in gone \cup (IF on[l] = 0 THEN {Key(l)} ELSE {}) THEN Empty
                ELSE IF k = Key(l) THEN Serving(on[l])
                ELSE slot[k]]
            /\ recent' = [k \in Keys |->
                IF k \in gone \cup (IF on[l] = 0 THEN {Key(l)} ELSE {}) THEN 0 ELSE recent[k]]
            /\ UNCHANGED on
      BY <1>5, <2>2 DEF Adopt
    <3>2. gone \subseteq Running /\ Key(l) \notin gone
      BY DEF Evicted
    <3>3. \A k \in Keys : k # Key(l) =>
            IF k \in gone THEN slot'[k] = Empty /\ recent'[k] = 0
                          ELSE slot'[k] = slot[k] /\ recent'[k] = recent[k]
      BY <3>1
    <3>4. slot[Key(l)].st = "starting" /\ ~(recent[Key(l)] >= GiveUp)
      BY <1>0, <2>0, <2>2 DEF Owned, CrashesRemembered
    <3>5. IF on[l] = 0 THEN slot'[Key(l)] = Empty /\ recent'[Key(l)] = 0
          ELSE slot'[Key(l)] = Serving(on[l]) /\ recent'[Key(l)] = recent[Key(l)]
               /\ past[on[l]] = recent[Key(l)]
      BY <1>0, <2>0, <2>2, <3>1, <3>2 DEF CrashesHeld
    <3>6. \A m \in Starters : m # l => Key(m) # Key(l) /\ Key(m) \notin gone
      BY <1>0, <2>0, <2>2, <3>2 DEF Owned, Running
    <3>7. Empty.st = "none" /\ Empty.crashes = 0 /\ \A i : Serving(i).st = "running" /\ Serving(i).server = i
      BY DEF Empty, Serving
    <3> HIDE DEF Empty, Serving
    <3>8. CrashesHeld'
      BY <1>0, <2>0, <3>1, <3>3, <3>5, <3>6, <3>7 DEF CrashesHeld, Starters, Key
    <3>9. CrashesRemembered'
      BY <1>0, <2>0, <3>3, <3>4, <3>5, <3>7 DEF CrashesRemembered
    <3> QED
      BY <3>8, <3>9
  <2> QED
    BY <2>1, <2>2
<1>6. ASSUME NEW gone \in SUBSET Keys, Sweep(gone), StartersStay
      PROVE  CrashesHeld' /\ CrashesRemembered'
  <2>1. /\ UNCHANGED past /\ gone \subseteq Running
        /\ \A k \in Keys : IF k \in gone THEN slot'[k] = Empty /\ recent'[k] = 0
                           ELSE slot'[k] = slot[k] /\ recent'[k] = recent[k]
    BY <1>6 DEF Sweep
  <2>2. Empty.st = "none" /\ Empty.crashes = 0
    BY DEF Empty
  <2>3. ~closed => \A m \in Starters : Key(m) \notin gone
    BY <1>0, <2>1 DEF Owned, Running
  <2>4. CrashesHeld'
    BY <1>0, <1>6, <2>1, <2>2, <2>3 DEF CrashesHeld, StartersStay, Starters, Key
  <2>5. CrashesRemembered'
    BY <1>0, <2>1, <2>2 DEF CrashesRemembered
  <2> QED
    BY <2>4, <2>5
<1>7. ASSUME ShutdownAll PROVE CrashesHeld' /\ CrashesRemembered'
  <2>1. closed' /\ \A k \in Keys : slot'[k] = Empty /\ recent'[k] = 0
    BY <1>7 DEF ShutdownAll
  <2>2. Empty.st = "none" /\ Empty.crashes = 0
    BY DEF Empty
  <2> QED
    BY <1>0, <2>1, <2>2 DEF CrashesHeld, CrashesRemembered
<1>8. ASSUME NEW x \in Threads, Shutdown(x) PROVE CrashesHeld' /\ CrashesRemembered'
  <2>1. UNCHANGED <<slot, closed, recent, past, pc, on, job>>
    BY <1>8 DEF Shutdown, End
  <2> QED
    BY <2>1 DEF CrashesHeld, CrashesRemembered, Starters, Key
<1> QED
  BY <1>1, <1>2, <1>3, <1>4, <1>5, <1>6, <1>7, <1>8, ManagerStays, Bystanders

-----------------------------------------------------------------------------
(* The invariant.                                                          *)

IInv == ManagerOK /\ CrashesHeld /\ CrashesRemembered

\* Nobody runs, starts or crashed at first.
LEMMA InitBooks == Init => NoServerLeft /\ WithinBudget /\ StartingAttended /\ CrashesHeld /\ CrashesRemembered
<1> SUFFICES ASSUME Init PROVE NoServerLeft /\ WithinBudget /\ StartingAttended /\ CrashesHeld /\ CrashesRemembered
  OBVIOUS
<1>1. /\ \A k \in Keys : slot[k] = Empty /\ recent[k] = 0
      /\ \A i \in Servers : proc[i] = "none"
  BY DEF Init
<1>2. Empty.st = "none" /\ Empty.crashes = 0
  BY DEF Empty
<1>3. Starters = {}
  BY DEF Init, Starters, Threads
<1>4. NoServerLeft /\ StartingAttended
  BY <1>1, <1>2 DEF NoServerLeft, StartingAttended
<1>5. Running = {}
  BY <1>1, <1>2 DEF Running
<1>6. WithinBudget
  BY <1>5, FS_EmptySet, LookupAssumption DEF WithinBudget
<1>7. CrashesHeld
  BY <1>1, <1>2, <1>3, LookupAssumption DEF CrashesHeld
<1>8. CrashesRemembered
  BY <1>1, <1>2, LookupAssumption DEF CrashesRemembered
<1> QED
  BY <1>4, <1>6, <1>7, <1>8

\* The invariant holds throughout: each part needs the others, TypeOK the crashes as well
\* (no history is longer than GiveUp).
THEOREM ManagerInvariant == Spec => []IInv
<1>1. Init => IInv
  BY InitManager, InitBooks DEF IInv, ManagerOK
<1>2. IInv /\ [Next]_vars => IInv'
  <2> SUFFICES ASSUME IInv, [Next]_vars PROVE IInv'
    OBVIOUS
  <2>1. /\ TypeOK /\ InPlace /\ NoServerLeft /\ WithinBudget /\ StartingAttended
        /\ CrashesHeld /\ CrashesRemembered
    BY DEF IInv, ManagerOK
  <2>2. TypeOK'
    BY <2>1, TypeStep
  <2>3. InPlace'
    BY <2>1, ProcStep, NumberedStep, OwnerStep, AwaitedStep DEF InPlace
  <2>4. NoServerLeft' /\ WithinBudget' /\ StartingAttended'
    BY <2>1, NoServerLeftStep, BudgetStep, OwnerStep
  <2>5. CrashesHeld' /\ CrashesRemembered'
    BY <2>1, CrashesStep
  <2> QED
    BY <2>2, <2>3, <2>4, <2>5 DEF IInv, ManagerOK
<1> QED
  BY <1>1, <1>2, PTL DEF Spec

\* No server outlives the daemon, the budget holds, and no key is left Starting, for any
\* number of keys, lookups and servers (ensure, evict_over_budget, shutdown_all).
THEOREM ManagerSafe == Spec => []ManagerOK
<1>1. IInv => ManagerOK
  BY DEF IInv
<1> QED
  BY <1>1, ManagerInvariant, PTL

\* A server that is started again carries the crashes of its key, so that a restart loop
\* ends (CrashHistory).
THEOREM CrashesKept == Spec => []CrashesRemembered
<1>1. IInv => CrashesRemembered
  BY DEF IInv
<1> QED
  BY <1>1, ManagerInvariant, PTL

(***************************************************************************)
(* The documents: what the manager's entry of a server says is what the    *)
(* server will have, and no lookup is answered from a text older than its  *)
(* own.                                                                    *)
(*                                                                         *)
(* Both rest on one fact about the way of a text: between the entry of a   *)
(* server and its copies are the notifications that the lookup at work     *)
(* still holds and those that are queued, and whoever asks does so after   *)
(* its own.                                                                *)
(***************************************************************************)

AnyText    == Texts \cup {Shut}
Mine(l)    == [file |-> job[l].file, text |-> job[l].text]
Holders(i) == {l \in Lookups : on[l] = i /\ pc[l] = "send"}

\* Once queue q and then r are read, the server has what the entry says.
InStep(docs, had, q, r, f) ==
  \E s, t \in AnyText :
    /\ Reads(had, q, Len(q), f, s) /\ Reads(s, r, Len(r), f, t)
    /\ Knows(docs, f, t)

\* No document is listed twice; one lookup at a time brings a server up to date, and the
\* server is in step with its entry once it has what that lookup still has to queue.
Distinct(docs) == \A m, n \in DOMAIN docs : docs[m].file = docs[n].file => m = n

ServerOK(i) ==
  /\ Distinct(known[i])
  /\ proc[i] = "none" => known[i] = <<>> /\ out[i] = <<>> /\ copy[i] = Closing
  /\ \A l, m \in Holders(i) : l = m
  /\ \A l \in Holders(i) : \E n \in DOMAIN known[i] : known[i][n] = Mine(l)
  /\ proc[i] = "up" => \A f \in Files :
       /\ Holders(i) = {} => InStep(known[i], copy[i][f], out[i], <<>>, f)
       /\ \A l \in Holders(i) : InStep(known[i], copy[i][f], out[i], msgs[l], f)

\* What the server will have of the document when it reads the request is fresh.
FreshAt(l, n) ==
  \A t \in AnyText : Reads(copy[on[l]][job[l].file], out[on[l]], n, job[l].file, t) => t \in since[l]

LookupOK(l) ==
  /\ pc[l] # "answered" => answer[l] = "none"
  /\ answer[l] # "none" => answer[l] \in since[l]
  /\ pc[l] = "send" => job[l].text \in since[l]
  /\ pc[l] = "ask" /\ proc[on[l]] = "up" =>
       /\ FreshAt(l, Len(out[on[l]]))
       /\ \A m \in Holders(on[l]) : \A n \in DOMAIN msgs[m] :
            Tells(msgs[m][n], job[l].file) => msgs[m][n].text \in since[l]
  /\ pc[l] = "await" /\ proc[on[l]] = "up" =>
       \A n \in DOMAIN out[on[l]] :
         out[on[l]][n] = [op |-> "ask", by |-> l] => FreshAt(l, n - 1)

Histories == DOMAIN answer = Lookups /\ DOMAIN since = Lookups

TextInv ==
  /\ Histories
  /\ \A i \in Servers : ServerOK(i)
  /\ \A l \in Lookups : LookupOK(l)

-----------------------------------------------------------------------------
(* Reading a queue.                                                        *)

\* Nothing read, nothing changed.
LEMMA ReadsNone ==
  ASSUME NEW had, NEW q, NEW f, NEW t
  PROVE  Reads(had, q, 0, f, t) <=> t = had
BY DEF Reads

\* What was read does not depend on what is queued behind, nor on which requests are queued.
LEMMA ReadsPrefix ==
  ASSUME NEW had, NEW q, NEW r, NEW n \in Nat, NEW f, NEW t,
         \A k \in 1 .. n : /\ Tells(r[k], f) <=> Tells(q[k], f)
                           /\ Tells(q[k], f) => r[k].text = q[k].text
  PROVE  Reads(had, q, n, f, t) <=> Reads(had, r, n, f, t)
<1>1. \A k \in 1 .. n : \A j \in (k + 1) .. n : j \in 1 .. n
  OBVIOUS
<1> QED
  BY <1>1 DEF Reads

\* One text at most.
LEMMA ReadsOne ==
  ASSUME NEW had, NEW q, NEW n \in Nat, NEW f, NEW t, NEW u,
         Reads(had, q, n, f, t), Reads(had, q, n, f, u)
  PROVE  t = u
<1>1. CASE \A k \in 1 .. n : ~Tells(q[k], f)
  BY <1>1 DEF Reads
<1>2. CASE \E k \in 1 .. n : Tells(q[k], f)
  <2>1. PICK j \in 1 .. n : Tells(q[j], f) /\ q[j].text = t /\ \A i \in (j + 1) .. n : ~Tells(q[i], f)
    BY <1>2 DEF Reads
  <2>2. PICK k \in 1 .. n : Tells(q[k], f) /\ q[k].text = u /\ \A i \in (k + 1) .. n : ~Tells(q[i], f)
    BY <1>2 DEF Reads
  <2>3. j = k \/ k \in (j + 1) .. n \/ j \in (k + 1) .. n
    OBVIOUS
  <2> QED
    BY <2>1, <2>2, <2>3
<1> QED
  BY <1>1, <1>2

\* One message more.
LEMMA ReadsMore ==
  ASSUME NEW had, NEW q, NEW n \in Nat, NEW f, NEW t
  PROVE  Reads(had, q, n + 1, f, t) <=>
           IF Tells(q[n + 1], f) THEN t = q[n + 1].text ELSE Reads(had, q, n, f, t)
<1>1. \A k \in 1 .. (n + 1) : k \in 1 .. n \/ k = n + 1
  OBVIOUS
<1>2. /\ n + 1 \in 1 .. (n + 1)
      /\ \A k \in 1 .. n : k \in 1 .. (n + 1) /\ n + 1 \in (k + 1) .. (n + 1)
      /\ \A k \in 1 .. n : \A j \in (k + 1) .. n : j \in (k + 1) .. (n + 1)
      /\ \A k \in 1 .. n : \A j \in (k + 1) .. (n + 1) : j \in (k + 1) .. n \/ j = n + 1
      /\ \A j \in (n + 1 + 1) .. (n + 1) : FALSE
  OBVIOUS
<1>3. CASE Tells(q[n + 1], f)
  BY <1>1, <1>2, <1>3 DEF Reads
<1>4. CASE ~Tells(q[n + 1], f)
  BY <1>1, <1>2, <1>4 DEF Reads
<1> QED
  BY <1>3, <1>4

\* A message appended.
LEMMA ReadsAppend ==
  ASSUME NEW S, NEW q \in Seq(S), NEW m \in S, NEW had, NEW f, NEW t
  PROVE  /\ Reads(had, Append(q, m), Len(Append(q, m)), f, t) <=>
              IF Tells(m, f) THEN t = m.text ELSE Reads(had, q, Len(q), f, t)
         /\ \A n \in 0 .. Len(q) : Reads(had, Append(q, m), n, f, t) <=> Reads(had, q, n, f, t)
<1>1. /\ Len(q) \in Nat /\ Len(Append(q, m)) = Len(q) + 1 /\ Append(q, m)[Len(q) + 1] = m
      /\ \A k \in 1 .. Len(q) : Append(q, m)[k] = q[k]
  OBVIOUS
<1> DEFINE a == Append(q, m)
<1> HIDE DEF a
<1>2. ASSUME NEW n \in 0 .. Len(q) PROVE Reads(had, a, n, f, t) <=> Reads(had, q, n, f, t)
  <2>1. n \in Nat /\ \A k \in 1 .. n : a[k] = q[k]
    BY <1>1 DEF a
  <2> QED
    BY <2>1, ReadsPrefix
<1>3. Reads(had, a, Len(q) + 1, f, t) <=>
        IF Tells(a[Len(q) + 1], f) THEN t = a[Len(q) + 1].text ELSE Reads(had, a, Len(q), f, t)
  BY <1>1, ReadsMore
<1> QED
  BY <1>1, <1>2, <1>3 DEF a

\* The first message read.
LEMMA ReadsTail ==
  ASSUME NEW S, NEW q \in Seq(S), q # <<>>, NEW n \in 1 .. Len(q), NEW had, NEW f, NEW t
  PROVE  Reads(had, q, n, f, t) <=>
           Reads(IF Tells(q[1], f) THEN q[1].text ELSE had, Tail(q), n - 1, f, t)
<1> DEFINE r == Tail(q)
           now == IF Tells(q[1], f) THEN q[1].text ELSE had
<1>1. /\ Len(q) \in Nat /\ n - 1 \in Nat
      /\ \A k \in 1 .. (n - 1) : r[k] = q[k + 1] /\ k + 1 \in 1 .. n
      /\ \A k \in 1 .. n : k = 1 \/ (k - 1 \in 1 .. (n - 1) /\ (k - 1) + 1 = k)
      /\ 1 \in 1 .. n
  OBVIOUS
<1> HIDE DEF r
<1>2. ASSUME Reads(had, q, n, f, t) PROVE Reads(now, r, n - 1, f, t)
  <2>1. CASE \A k \in 1 .. n : ~Tells(q[k], f)
    <3>1. t = had /\ now = had /\ \A k \in 1 .. (n - 1) : ~Tells(r[k], f)
      BY <1>1, <1>2, <2>1 DEF Reads
    <3> QED
      BY <3>1 DEF Reads
  <2>2. ASSUME NEW k \in 1 .. n, Tells(q[k], f), q[k].text = t,
               \A j \in (k + 1) .. n : ~Tells(q[j], f)
        PROVE  Reads(now, r, n - 1, f, t)
    <3>1. CASE k = 1
      <4>1. \A j \in 1 .. (n - 1) : j + 1 \in (k + 1) .. n
        BY <3>1
      <4> QED
        BY <1>1, <2>2, <3>1, <4>1 DEF Reads
    <3>2. CASE k # 1
      <4>1. k - 1 \in 1 .. (n - 1) /\ r[k - 1] = q[k]
        BY <1>1, <3>2
      <4>2. \A j \in ((k - 1) + 1) .. (n - 1) : j + 1 \in (k + 1) .. n /\ j \in 1 .. (n - 1)
        OBVIOUS
      <4>3. \A j \in ((k - 1) + 1) .. (n - 1) : ~Tells(r[j], f)
        BY <1>1, <2>2, <4>2
      <4> QED
        BY <2>2, <4>1, <4>3 DEF Reads
    <3> QED
      BY <3>1, <3>2
  <2> QED
    BY <1>2, <2>1, <2>2 DEF Reads
<1>3. ASSUME Reads(now, r, n - 1, f, t) PROVE Reads(had, q, n, f, t)
  <2>1. CASE t = now /\ \A k \in 1 .. (n - 1) : ~Tells(r[k], f)
    <3>1. \A k \in 2 .. n : ~Tells(q[k], f)
      <4>1. \A k \in 2 .. n : k - 1 \in 1 .. (n - 1) /\ (k - 1) + 1 = k
        OBVIOUS
      <4> QED
        BY <1>1, <2>1, <4>1
    <3>2. CASE Tells(q[1], f)
      <4>1. now = q[1].text /\ \A j \in (1 + 1) .. n : ~Tells(q[j], f)
        BY <3>1, <3>2
      <4> QED
        BY <1>1, <2>1, <3>2, <4>1 DEF Reads
    <3>3. CASE ~Tells(q[1], f)
      <4>1. \A k \in 1 .. n : k = 1 \/ k \in 2 .. n
        OBVIOUS
      <4> QED
        BY <2>1, <3>1, <3>3, <4>1 DEF Reads
    <3> QED
      BY <3>2, <3>3
  <2>2. ASSUME NEW k \in 1 .. (n - 1), Tells(r[k], f), r[k].text = t,
               \A j \in (k + 1) .. (n - 1) : ~Tells(r[j], f)
        PROVE  Reads(had, q, n, f, t)
    <3>1. k + 1 \in 1 .. n /\ q[k + 1] = r[k]
      BY <1>1
    <3>2. \A j \in ((k + 1) + 1) .. n : j - 1 \in (k + 1) .. (n - 1) /\ j - 1 \in 1 .. (n - 1) /\ (j - 1) + 1 = j
      OBVIOUS
    <3>3. \A j \in ((k + 1) + 1) .. n : ~Tells(q[j], f)
      BY <1>1, <2>2, <3>2
    <3> QED
      BY <2>2, <3>1, <3>3 DEF Reads
  <2> QED
    BY <1>3, <2>1, <2>2 DEF Reads
<1> QED
  BY <1>2, <1>3 DEF r

-----------------------------------------------------------------------------
(* The open documents of a server.                                         *)

\* Which documents are left, and where.
LEMMA OthersAt ==
  ASSUME NEW docs \in Seq(Docs), NEW f, \E n \in DOMAIN docs : docs[n].file = f
  PROVE  \E at \in 1 .. Len(docs) :
           /\ docs[at].file = f
           /\ Others(docs, f) \in Seq(Docs) /\ Len(Others(docs, f)) = Len(docs) - 1
           /\ \A n \in 1 .. (Len(docs) - 1) :
                Others(docs, f)[n] = IF n < at THEN docs[n] ELSE docs[n + 1]
<1> DEFINE at == CHOOSE n \in DOMAIN docs : docs[n].file = f
<1>1. at \in 1 .. Len(docs) /\ docs[at].file = f
  OBVIOUS
<1>2. ASSUME NEW S, NEW q \in Seq(S), NEW i \in 1 .. Len(q)
      PROVE  \A n \in 1 .. (Len(q) - 1) : RemoveAt(q, i)[n] = IF n < i THEN q[n] ELSE q[n + 1]
  <2>1. /\ SubSeq(q, 1, i - 1) \in Seq(S) /\ Len(SubSeq(q, 1, i - 1)) = i - 1
        /\ \A n \in 1 .. (i - 1) : SubSeq(q, 1, i - 1)[n] = q[n]
    OBVIOUS
  <2>2. /\ SubSeq(q, i + 1, Len(q)) \in Seq(S) /\ Len(SubSeq(q, i + 1, Len(q))) = Len(q) - i
        /\ \A n \in 1 .. (Len(q) - i) : SubSeq(q, i + 1, Len(q))[n] = q[n + i]
    OBVIOUS
  <2>3. ASSUME NEW a \in Seq(S), NEW b \in Seq(S), NEW n \in 1 .. (Len(a) + Len(b))
        PROVE  (a \o b)[n] = IF n <= Len(a) THEN a[n] ELSE b[n - Len(a)]
    OBVIOUS
  <2> DEFINE a == SubSeq(q, 1, i - 1)
             b == SubSeq(q, i + 1, Len(q))
  <2> HIDE DEF a, b
  <2>4. SUFFICES ASSUME NEW n \in 1 .. (Len(q) - 1)
                 PROVE  RemoveAt(q, i)[n] = IF n < i THEN q[n] ELSE q[n + 1]
    OBVIOUS
  <2>5. RemoveAt(q, i)[n] = (a \o b)[n]
    BY Zenon DEF RemoveAt, a, b
  <2>6. (a \o b)[n] = IF n <= i - 1 THEN a[n] ELSE b[n - (i - 1)]
    <3>1. /\ a \in Seq(S) /\ b \in Seq(S)
          /\ Len(a) = i - 1 /\ Len(b) = Len(q) - i
      BY <2>1, <2>2, Zenon DEF a, b
    <3>2. n \in 1 .. ((i - 1) + (Len(q) - i))
      OBVIOUS
    <3>3. n \in 1 .. (Len(a) + Len(b))
      BY <3>1, <3>2, Zenon
    <3>4. (a \o b)[n] = IF n <= Len(a) THEN a[n] ELSE b[n - Len(a)]
      BY <2>3, <3>1, <3>3, Zenon
    <3> QED
      BY <3>1, <3>4, Zenon
  <2>7. CASE n < i
    BY <2>1, <2>5, <2>6, <2>7 DEF a
  <2>8. CASE ~(n < i)
    <3>1. n - (i - 1) \in 1 .. (Len(q) - i) /\ (n - (i - 1)) + i = n + 1 /\ ~(n <= i - 1)
      BY <2>8
    <3> QED
      BY <2>2, <2>5, <2>6, <2>8, <3>1 DEF b
  <2> QED
    BY <2>7, <2>8
<1> HIDE DEF at
<1>3. Others(docs, f) = RemoveAt(docs, at)
  BY DEF Others, at
<1> QED
  BY <1>1, <1>2, <1>3, OthersType

\* A list of documents after a sync: the one that is asked about, and of the others all but
\* those that made room.
Moved(docs, more, mine, shut) ==
  /\ Distinct(more)
  /\ \E n \in DOMAIN more : more[n] = mine
  /\ \A n \in DOMAIN more :
       \/ more[n] = mine
       \/ /\ more[n].file \notin shut \cup {mine.file}
          /\ \E m \in DOMAIN docs : docs[m] = more[n]
  /\ \A m \in DOMAIN docs : docs[m].file \notin shut \cup {mine.file} =>
       \E n \in DOMAIN more : more[n] = docs[m]

\* What such a list says.
LEMMA MovedKnows ==
  ASSUME NEW docs, NEW more, NEW mine, NEW shut, Moved(docs, more, mine, shut),
         mine.file \notin shut, NEW g, NEW t
  PROVE  Knows(more, g, t) <=>
           IF g = mine.file THEN t = mine.text
           ELSE IF g \in shut THEN t = Shut ELSE Knows(docs, g, t)
<1>1. CASE g = mine.file
  BY <1>1 DEF Moved, Knows
<1>2. CASE g # mine.file /\ g \in shut
  BY <1>2 DEF Moved, Knows
<1>3. CASE g \notin shut \cup {mine.file}
  <2>1. \A n \in DOMAIN more : more[n].file = g => \E m \in DOMAIN docs : docs[m] = more[n]
    BY <1>3 DEF Moved
  <2>2. \A m \in DOMAIN docs : docs[m].file = g => \E n \in DOMAIN more : more[n] = docs[m]
    BY <1>3 DEF Moved
  <2> QED
    BY <1>3, <2>1, <2>2 DEF Knows
<1> QED
  BY <1>1, <1>2, <1>3

\* A document appended to a list that does not have its file.
LEMMA AppendMoved ==
  ASSUME NEW docs, NEW some \in Seq(Docs), NEW mine \in Docs, NEW shut, Distinct(some),
         \A n \in DOMAIN some : some[n].file \notin shut \cup {mine.file}
                                /\ \E m \in DOMAIN docs : docs[m] = some[n],
         \A m \in DOMAIN docs : docs[m].file \notin shut \cup {mine.file} =>
           \E n \in DOMAIN some : some[n] = docs[m]
  PROVE  Moved(docs, Append(some, mine), mine, shut)
<1>1. /\ DOMAIN some = 1 .. Len(some) /\ Len(some) \in Nat
      /\ DOMAIN Append(some, mine) = 1 .. (Len(some) + 1)
      /\ \A n \in 1 .. Len(some) : Append(some, mine)[n] = some[n]
      /\ Append(some, mine)[Len(some) + 1] = mine
  BY QueueIndices
<1> DEFINE more == Append(some, mine)
<1> HIDE DEF more
<1>2. \A n \in DOMAIN more : n \in DOMAIN some \/ n = Len(some) + 1
  BY <1>1 DEF more
<1>3. \A n \in DOMAIN some : n \in DOMAIN more /\ more[n] = some[n]
  BY <1>1 DEF more
<1>4. Len(some) + 1 \in DOMAIN more /\ more[Len(some) + 1] = mine
  BY <1>1 DEF more
<1>5. Distinct(more)
  BY <1>2, <1>3, <1>4 DEF Distinct
<1>6. Moved(docs, more, mine, shut)
  <2>1. \A n \in DOMAIN more : more[n] = mine \/
          (more[n].file \notin shut \cup {mine.file} /\ \E m \in DOMAIN docs : docs[m] = more[n])
    BY <1>2, <1>3, <1>4
  <2>2. \A m \in DOMAIN docs : docs[m].file \notin shut \cup {mine.file} =>
          \E n \in DOMAIN more : more[n] = docs[m]
    BY <1>3
  <2> QED
    BY <1>4, <1>5, <2>1, <2>2 DEF Moved
<1> QED
  BY <1>6 DEF more

\* Each text that the notes of a sync carry is what its new list says of the file, and what
\* the other lookups are shown.
Noted(l, docs, more, notes, shut) ==
  /\ job[l].file \notin shut
  /\ notes \in Seq(Notes)
  /\ \A g \in Files : \A s \in AnyText :
       Knows(docs, g, s) => \E t \in AnyText : Reads(s, notes, Len(notes), g, t) /\ Knows(more, g, t)
  /\ \A n \in DOMAIN notes : \A g \in Files : Tells(notes[n], g) =>
       \/ g = job[l].file /\ notes[n].text = job[l].text
       \/ g \in shut /\ notes[n].text = Shut


\* The cases of sync.
LEMMA SyncCases ==
  ASSUME TypeOK, InPlace, NEW l \in Lookups, Sync(l), Distinct(known[on[l]])
  PROVE  \E more, notes, shut :
           /\ SyncWith(l, more, notes, shut)
           /\ Moved(known[on[l]], more, Mine(l), shut)
           /\ Noted(l, known[on[l]], more, notes, shut)
<1> DEFINE docs == known[on[l]]
           f == job[l].file
           mine == [file |-> job[l].file, text |-> job[l].text]
<1>1. on[l] \in Servers
  BY ServerNumbers DEF Sync, InPlace, Numbered
<1>2. /\ docs \in Seq(Docs) /\ mine \in Docs /\ mine.file = f /\ mine.text = job[l].text
      /\ job[l].text \in Texts /\ Mine(l) = mine /\ f \in Files
  BY <1>1 DEF TypeOK, Docs, Jobs, Mine
<1>3. /\ \A n \in DOMAIN docs : docs[n] \in Docs /\ docs[n].file \in Files /\ docs[n].text \in Texts
      /\ DOMAIN docs = 1 .. Len(docs) /\ Len(docs) \in Nat
  <2>1. docs \in Seq(Docs)
    BY <1>2
  <2> HIDE DEF docs
  <2>2. /\ \A n \in DOMAIN docs : docs[n] \in Docs
        /\ DOMAIN docs = 1 .. Len(docs) /\ Len(docs) \in Nat
    BY <2>1
  <2> QED
    BY <2>2 DEF Docs
<1>4. Distinct(docs)
  OBVIOUS
<1>5. ASSUME NEW op \in {"open", "change"}
      PROVE  /\ Doc(op, f, job[l].text) \in Notes
             /\ \A g : Tells(Doc(op, f, job[l].text), g) <=> g = f
             /\ Doc(op, f, job[l].text).text = job[l].text
  BY <1>2 DEF Doc, Notes, Tells
<1>6. ASSUME NEW m, NEW had, NEW g, NEW t
      PROVE  /\ Reads(had, <<>>, 0, g, t) <=> t = had
             /\ Reads(had, <<m>>, 1, g, t) <=> IF Tells(m, g) THEN t = m.text ELSE t = had
  BY DEF Reads
<1> HIDE DEF docs, f, mine
<1>7. CASE \E n \in DOMAIN docs : docs[n].file = f
  <2>1. PICK at \in 1 .. Len(docs) :
          /\ docs[at].file = f
          /\ Others(docs, f) \in Seq(Docs) /\ Len(Others(docs, f)) = Len(docs) - 1
          /\ \A n \in 1 .. (Len(docs) - 1) :
               Others(docs, f)[n] = IF n < at THEN docs[n] ELSE docs[n + 1]
    BY <1>2, <1>7, OthersAt
  <2> DEFINE some == Others(docs, f)
  <2> HIDE DEF some
  <2>2. /\ some \in Seq(Docs) /\ DOMAIN some = 1 .. (Len(docs) - 1)
        /\ \A n \in DOMAIN some : /\ n < at => some[n] = docs[n] /\ n \in DOMAIN docs
                                  /\ ~(n < at) => some[n] = docs[n + 1] /\ n + 1 \in DOMAIN docs
    BY <1>3, <2>1 DEF some
  <2>3. \A n \in DOMAIN some : \E m \in DOMAIN docs : docs[m] = some[n] /\ m # at
                               /\ m = (IF n < at THEN n ELSE n + 1)
    <3>1. \A n \in DOMAIN some : ~(n < at) => n + 1 # at
      BY <2>2
    <3> QED
      BY <2>2, <3>1
  <2>4. \A m \in DOMAIN docs : m # at => \E n \in DOMAIN some : some[n] = docs[m]
    <3>1. SUFFICES ASSUME NEW m \in DOMAIN docs, m # at PROVE \E n \in DOMAIN some : some[n] = docs[m]
      OBVIOUS
    <3>2. CASE m < at
      <4>1. m \in DOMAIN some
        BY <1>3, <2>1, <2>2, <3>2
      <4> QED
        BY <2>2, <3>2, <4>1
    <3>3. CASE ~(m < at)
      <4>1. m - 1 \in DOMAIN some /\ ~(m - 1 < at) /\ (m - 1) + 1 = m
        BY <1>3, <2>1, <2>2, <3>1, <3>3
      <4> QED
        BY <2>2, <4>1
    <3> QED
      BY <3>2, <3>3
  <2>5. \A m \in DOMAIN docs : docs[m].file = f <=> m = at
    BY <1>3, <1>4, <2>1 DEF Distinct
  <2>6. Distinct(some)
    <3>1. \A a, b \in DOMAIN some : (IF a < at THEN a ELSE a + 1) = (IF b < at THEN b ELSE b + 1) => a = b
      BY <2>1, <2>2
    <3> QED
      BY <1>4, <2>3, <3>1 DEF Distinct
  <2>7. Moved(docs, Append(some, mine), mine, {})
    <3>1. \A n \in DOMAIN some : some[n].file \notin {} \cup {mine.file}
                                /\ \E m \in DOMAIN docs : docs[m] = some[n]
      BY <1>2, <2>3, <2>5
    <3>2. \A m \in DOMAIN docs : docs[m].file \notin {} \cup {mine.file} =>
            \E n \in DOMAIN some : some[n] = docs[m]
      BY <1>2, <2>1, <2>4
    <3> QED
      BY <1>2, <2>2, <2>6, <3>1, <3>2, AppendMoved
  <2>8. \A g, t : Knows(Append(some, mine), g, t) <=>
                    IF g = f THEN t = job[l].text ELSE Knows(docs, g, t)
    BY <1>2, <2>7, MovedKnows
  <2>9. CASE \E n \in DOMAIN docs : docs[n] = mine
    <3>1. SyncWith(l, Append(some, mine), <<>>, {})
      BY <1>7, <2>9 DEF Sync, docs, mine, f, some
    <3>2. \A t : Knows(docs, f, t) => t = job[l].text
      BY <1>2, <2>9 DEF Knows
    <3>3. Noted(l, docs, Append(some, mine), <<>>, {})
      <4>1. Len(<<>>) = 0 /\ DOMAIN <<>> = {}
        OBVIOUS
      <4>2. \A g \in Files : \A s \in AnyText : Knows(docs, g, s) =>
              \E t \in AnyText : Reads(s, <<>>, 0, g, t) /\ Knows(Append(some, mine), g, t)
        <5>1. ASSUME NEW g \in Files, NEW s \in AnyText, Knows(docs, g, s)
              PROVE  Reads(s, <<>>, 0, g, s) /\ Knows(Append(some, mine), g, s)
          <6>1. Reads(s, <<>>, 0, g, s)
            BY <1>6, Zenon
          <6>2. Knows(Append(some, mine), g, s)
            BY <2>8, <3>2, <5>1, Zenon
          <6> QED
            BY <6>1, <6>2
        <5> QED
          BY <5>1, Zenon
      <4>3. <<>> \in Seq(Notes)
        OBVIOUS
      <4> QED
        BY <4>1, <4>2, <4>3 DEF Noted
    <3> QED
      BY <1>2, <2>7, <3>1, <3>3 DEF docs
  <2>10. CASE ~(\E n \in DOMAIN docs : docs[n] = mine)
    <3> DEFINE note == Doc("change", f, job[l].text)
    <3> HIDE DEF note
    <3>1. SyncWith(l, Append(some, mine), <<note>>, {})
      BY <1>7, <2>10 DEF Sync, docs, mine, f, some, note
    <3>2. Noted(l, docs, Append(some, mine), <<note>>, {})
      <4>1. Len(<<note>>) = 1 /\ DOMAIN <<note>> = {1} /\ <<note>>[1] = note
        OBVIOUS
      <4>2. note \in Notes /\ note.text = job[l].text /\ \A g : Tells(note, g) <=> g = f
        BY <1>5 DEF note
      <4>3. <<note>> \in Seq(Notes)
        BY <4>2, NotesType
      <4>4. \A g \in Files : \A s \in AnyText : Knows(docs, g, s) =>
              \E t \in AnyText : Reads(s, <<note>>, 1, g, t) /\ Knows(Append(some, mine), g, t)
        BY <1>2, <1>6, <2>8, <4>2 DEF AnyText
      <4> QED
        BY <4>1, <4>2, <4>3, <4>4 DEF Noted, f
    <3> QED
      BY <1>2, <2>7, <3>1, <3>2 DEF docs
  <2> QED
    BY <2>9, <2>10
<1>8. CASE ~(\E n \in DOMAIN docs : docs[n].file = f) /\ Len(docs) < MaxDocs
  <2> DEFINE note == Doc("open", f, job[l].text)
  <2> HIDE DEF note
  <2>1. SyncWith(l, Append(docs, mine), <<note>>, {})
    BY <1>8 DEF Sync, docs, mine, f, note
  <2>2. Moved(docs, Append(docs, mine), mine, {})
    <3>1. \A n \in DOMAIN docs : docs[n].file \notin {} \cup {mine.file}
                                /\ \E m \in DOMAIN docs : docs[m] = docs[n]
      BY <1>2, <1>8
    <3> QED
      BY <1>2, <1>4, <3>1, AppendMoved
  <2>3. \A g, t : Knows(Append(docs, mine), g, t) <=>
                    IF g = f THEN t = job[l].text ELSE Knows(docs, g, t)
    BY <1>2, <2>2, MovedKnows
  <2>4. Noted(l, docs, Append(docs, mine), <<note>>, {})
    <3>1. Len(<<note>>) = 1 /\ DOMAIN <<note>> = {1} /\ <<note>>[1] = note
      OBVIOUS
    <3>2. note \in Notes /\ note.text = job[l].text /\ \A g : Tells(note, g) <=> g = f
      BY <1>5 DEF note
    <3>3. <<note>> \in Seq(Notes)
      BY <3>2, NotesType
    <3>4. \A g \in Files : \A s \in AnyText : Knows(docs, g, s) =>
            \E t \in AnyText : Reads(s, <<note>>, 1, g, t) /\ Knows(Append(docs, mine), g, t)
      BY <1>2, <1>6, <2>3, <3>2 DEF AnyText
    <3> QED
      BY <3>1, <3>2, <3>3, <3>4 DEF Noted, f
  <2> QED
    BY <1>2, <2>1, <2>2, <2>4 DEF docs
<1>9. CASE ~(\E n \in DOMAIN docs : docs[n].file = f) /\ ~(Len(docs) < MaxDocs)
  <2> DEFINE note == Doc("open", f, job[l].text)
             bye  == Doc("close", docs[1].file, Shut)
             gone == docs[1].file
             some == Tail(docs)
  <2>1. SyncWith(l, Append(some, mine), <<bye, note>>, {gone})
    BY <1>9 DEF Sync, docs, mine, f
  <2>2. docs # <<>> /\ 1 \in DOMAIN docs
    BY <1>2, <1>3, <1>9, LookupAssumption
  <2>3. /\ some \in Seq(Docs) /\ DOMAIN some = 1 .. (Len(docs) - 1)
        /\ \A n \in DOMAIN some : some[n] = docs[n + 1] /\ n + 1 \in DOMAIN docs /\ n + 1 # 1
    BY <1>2, <1>3, <2>2
  <2>4. \A m \in DOMAIN docs : m # 1 => m - 1 \in DOMAIN some /\ some[m - 1] = docs[m]
    <3>1. \A m \in DOMAIN docs : m # 1 => m - 1 \in DOMAIN some /\ (m - 1) + 1 = m
      BY <1>3, <2>3
    <3> QED
      BY <2>3, <3>1
  <2>5. \A m \in DOMAIN docs : docs[m].file = gone <=> m = 1
    BY <1>4, <2>2 DEF Distinct
  <2>6. gone # f /\ gone \in Files
    BY <1>3, <1>9, <2>2
  <2>7. bye \in Notes /\ bye.text = Shut /\ \A g : Tells(bye, g) <=> g = gone
    BY <2>6 DEF Doc, Notes, Tells
  <2> HIDE DEF note, bye, gone, some
  <2>8. Distinct(some)
    BY <1>4, <2>3 DEF Distinct
  <2>9. Moved(docs, Append(some, mine), mine, {gone})
    <3>1. \A n \in DOMAIN some : some[n].file \notin {gone} \cup {mine.file}
                                /\ \E m \in DOMAIN docs : docs[m] = some[n]
      BY <1>2, <1>9, <2>3, <2>5
    <3>2. \A m \in DOMAIN docs : docs[m].file \notin {gone} \cup {mine.file} =>
            \E n \in DOMAIN some : some[n] = docs[m]
      BY <2>4, <2>5
    <3> QED
      BY <1>2, <2>3, <2>8, <3>1, <3>2, AppendMoved
  <2>10. \A g, t : Knows(Append(some, mine), g, t) <=>
                    IF g = f THEN t = job[l].text ELSE IF g \in {gone} THEN t = Shut ELSE Knows(docs, g, t)
    BY <1>2, <2>6, <2>9, MovedKnows
  <2>11. Noted(l, docs, Append(some, mine), <<bye, note>>, {gone})
    <3>1. /\ Len(<<bye, note>>) = 2 /\ DOMAIN <<bye, note>> = {1, 2}
          /\ <<bye, note>>[1] = bye /\ <<bye, note>>[2] = note
      OBVIOUS
    <3>2. note \in Notes /\ note.text = job[l].text /\ \A g : Tells(note, g) <=> g = f
      BY <1>5 DEF note
    <3>3. <<bye, note>> \in Seq(Notes)
      BY <2>7, <3>2, NotesType
    <3>4. ASSUME NEW had, NEW g, NEW t
          PROVE  Reads(had, <<bye, note>>, 2, g, t) <=>
                   IF g = f THEN t = job[l].text ELSE IF g = gone THEN t = Shut ELSE t = had
      <4>1. Reads(had, <<bye, note>>, 0, g, t) <=> t = had
        BY ReadsNone
      <4>2. Reads(had, <<bye, note>>, 1, g, t) <=> IF g = gone THEN t = Shut ELSE t = had
        <5>1. Reads(had, <<bye, note>>, 0 + 1, g, t) <=>
                IF Tells(<<bye, note>>[0 + 1], g) THEN t = <<bye, note>>[0 + 1].text
                ELSE Reads(had, <<bye, note>>, 0, g, t)
          BY ReadsMore
        <5> QED
          BY <2>7, <3>1, <4>1, <5>1
      <4>3. Reads(had, <<bye, note>>, 1 + 1, g, t) <=>
                IF Tells(<<bye, note>>[1 + 1], g) THEN t = <<bye, note>>[1 + 1].text
                ELSE Reads(had, <<bye, note>>, 1, g, t)
        BY ReadsMore
      <4> QED
        BY <3>1, <3>2, <4>2, <4>3
    <3>5. \A g \in Files : \A s \in AnyText : Knows(docs, g, s) =>
            \E t \in AnyText : Reads(s, <<bye, note>>, 2, g, t) /\ Knows(Append(some, mine), g, t)
      BY <1>2, <2>10, <3>4 DEF AnyText
    <3> QED
      BY <2>6, <2>7, <3>1, <3>2, <3>3, <3>5 DEF Noted, f
  <2> QED
    BY <1>2, <2>1, <2>9, <2>11 DEF docs
<1> QED
  BY <1>7, <1>8, <1>9


-----------------------------------------------------------------------------
(* The steps that carry no text.                                           *)

\* A lookup stays where it is, or leaves off what it does with documents.
Same(l) ==
  /\ pc'[l] = pc[l] /\ on'[l] = on[l] /\ job'[l] = job[l]
  /\ since'[l] = since[l] /\ answer'[l] = answer[l]

Elsewhere(l) ==
  /\ pc[l] # "send" /\ pc'[l] \notin {"send", "ask", "await", "answered"}
  /\ answer'[l] = "none"

\* A server is as it was, starts or dies.
Kept(i) ==
  \/ proc'[i] = "dead"
  \/ /\ out'[i] = out[i] /\ copy'[i] = copy[i]
     /\ proc'[i] = proc[i] \/ proc[i] = "none"

Calm ==
  /\ msgs' = msgs /\ \A l \in Lookups : Same(l) \/ Elsewhere(l)
  /\ known' = known /\ \A i \in Servers : Kept(i)

\* What the history tells is about the lookups.
LEMMA HistoryStep ==
  ASSUME Histories, [Next]_vars
  PROVE  Histories'
<1> USE DEF manager, clients, lookups
<1>1. CASE UNCHANGED <<answer, since>>
  BY <1>1 DEF Histories
<1>2. ASSUME NEW l, Done(l) PROVE Histories'
  BY <1>2 DEF Histories, Done
<1>3. ASSUME NEW l, NEW docs, NEW notes, NEW shut, SyncWith(l, docs, notes, shut) PROVE Histories'
  BY <1>3 DEF Histories, SyncWith
<1>4. ASSUME NEW l \in Lookups, Ensure(l) PROVE Histories'
  BY <1>1, <1>2, <1>4 DEF Ensure, Refuse, Found, Crash, Claim
<1>5. ASSUME NEW l \in Lookups, StartFails(l) \/ StartServer(l) \/ Notify(l) \/ Stall(l) PROVE Histories'
  BY <1>1, <1>5 DEF StartFails, StartServer, Notify, Stall
<1>6. ASSUME NEW l \in Lookups, Adopt(l) PROVE Histories'
  BY <1>1, <1>6 DEF Adopt
<1>7. ASSUME NEW l \in Lookups, WaitReady(l) \/ Ask(l) \/ AskTimeout(l) \/ Abandon(l) \/ Answered(l)
      PROVE  Histories'
  BY <1>1, <1>2, <1>7 DEF WaitReady, Ask, AskTimeout, Abandon, Answered
<1>8. ASSUME NEW l \in Lookups, Sync(l) PROVE Histories'
  BY <1>3, <1>8 DEF Sync
<1>9. ASSUME NEW l \in Lookups, NEW q \in Queries, Find(l, q) PROVE Histories'
  BY <1>1, <1>9 DEF Find
<1>10. ASSUME NEW x \in Threads, Shutdown(x) \/ Stopped(x) PROVE Histories'
  BY <1>1, <1>2, <1>10 DEF Shutdown, Stopped
<1>11. ASSUME NEW gone \in SUBSET Keys, Sweep(gone) PROVE Histories'
  BY <1>1, <1>11 DEF Sweep
<1>12. ASSUME ShutdownAll PROVE Histories'
  BY <1>1, <1>12 DEF ShutdownAll
<1>13. ASSUME NEW i \in Servers, Initialized(i) \/ InitializeFails(i) \/ Dies(i) \/ ReadEof(i)
       PROVE  Histories'
  BY <1>1, <1>13 DEF Initialized, InitializeFails, Dies, ReadEof
<1>14. ASSUME NEW i \in Servers, Serve(i) PROVE Histories'
  <2>1. UNCHANGED since /\ (UNCHANGED answer \/ \E m, t : answer' = [answer EXCEPT ![m] = t])
    BY <1>14 DEF Serve
  <2> QED
    BY <2>1 DEF Histories
<1> QED
  BY <1>1, <1>4, <1>5, <1>6, <1>7, <1>8, <1>9, <1>10, <1>11, <1>12, <1>13, <1>14 DEF Next, Step, vars

\* They are calm.
LEMMA CalmSteps ==
  ASSUME TypeOK, InPlace, TextInv, [Next]_vars
  PROVE  \/ Calm
         \/ \E l \in Lookups :
              Sync(l) \/ Notify(l) \/ Abandon(l)
              \/ (Ask(l) /\ on[l] \notin exited /\ HasRoom(on[l])
                  /\ Queued(on[l], [op |-> "ask", by |-> l])
                  /\ Goto(l, "await") /\ UNCHANGED lookups)
         \/ \E i \in Servers : Serve(i)
<1> USE DEF manager, clients, lookups
<1>0. /\ Lookups \subseteq Threads /\ Sweeper \notin Lookups /\ Closer \notin Lookups
      /\ Histories /\ \A l \in Lookups : pc[l] # "answered" => answer[l] = "none"
  BY LookupAssumption DEF Threads, TextInv, LookupOK
<1> DEFINE Still == msgs' = msgs /\ \A l \in Lookups : Same(l) \/ Elsewhere(l)
           Steady == known' = known /\ \A i \in Servers : Kept(i)
<1>1. ASSUME UNCHANGED <<pc, lookups>> PROVE Still
  BY <1>1 DEF Same
<1>2. ASSUME NEW l \in Lookups, pc[l] # "send", Done(l) PROVE Still
  BY <1>0, <1>2 DEF Done, Goto, Same, Elsewhere, TypeOK, Histories
<1>3. ASSUME NEW x \in Threads, x \in Lookups => pc[x] \notin {"send", "answered"},
             NEW place \in Places \ {"send", "ask", "await", "answered"}, Goto(x, place),
             UNCHANGED <<msgs, answer, since>>,
             \A m \in Lookups : m # x => on'[m] = on[m] /\ job'[m] = job[m]
      PROVE  Still
  BY <1>0, <1>3 DEF Goto, Same, Elsewhere, TypeOK
<1>4. ASSUME UNCHANGED <<proc, out, copy, known>> PROVE Steady
  BY <1>4 DEF Kept
<1>5. ASSUME NEW i \in Servers, End(i) PROVE Steady
  BY <1>5 DEF End, Kept, TypeOK
<1>6. CASE UNCHANGED vars
  BY <1>1, <1>4, <1>6 DEF vars, Calm
<1>7. ASSUME NEW l \in Lookups, NEW q \in Queries, Find(l, q) PROVE Calm
  <2>1. Still
    <3>1. \A m \in Lookups : m # l => job'[m] = job[m]
      BY <1>7 DEF Find, TypeOK
    <3> QED
      BY <1>0, <1>3, <1>7, <3>1 DEF Find, Places
  <2> QED
    BY <1>4, <1>7, <2>1 DEF Find, Calm
<1>8. ASSUME NEW l \in Lookups, Ensure(l) PROVE Calm
  <2>1. CASE Done(l) /\ UNCHANGED clients
    BY <1>2, <1>4, <1>8, <2>1 DEF Ensure, Calm
  <2>2. CASE Found(l) /\ UNCHANGED clients
    <3>1. \A m \in Lookups : m # l => on'[m] = on[m]
      BY <2>2 DEF Found, TypeOK
    <3>2. Still
      BY <1>0, <1>3, <1>8, <2>2, <3>1 DEF Ensure, Found, Places
    <3> QED
      BY <1>4, <2>2, <3>2 DEF Calm
  <2>3. CASE Claim(l) /\ UNCHANGED clients
    <3>1. \A m \in Lookups : m # l => job'[m] = job[m]
      BY <2>3 DEF Claim, TypeOK
    <3>2. Still
      BY <1>0, <1>3, <1>8, <2>3, <3>1 DEF Ensure, Claim, Places
    <3> QED
      BY <1>4, <2>3, <3>2 DEF Calm
  <2> QED
    BY <1>8, <2>1, <2>2, <2>3 DEF Ensure, Refuse, Crash
<1>9. ASSUME NEW l \in Lookups, StartFails(l) PROVE Calm
  <2>1. Still
    BY <1>0, <1>3, <1>9 DEF StartFails, Places
  <2> QED
    BY <1>4, <1>9, <2>1 DEF StartFails, Calm
<1>10. ASSUME NEW l \in Lookups, StartServer(l) PROVE Calm
  <2>1. Still
    <3>1. \A m \in Lookups : m # l => on'[m] = on[m]
      BY <1>10 DEF StartServer, TypeOK
    <3> QED
      BY <1>0, <1>3, <1>10, <3>1 DEF StartServer, Places
  <2>2. proc[starts + 1] = "none" /\ starts + 1 \in Servers
    BY <1>10, LookupAssumption DEF StartServer, InPlace, ExitedIsDead, TypeOK, Servers
  <2>3. Steady
    BY <1>10, <2>2 DEF StartServer, Kept, TypeOK
  <2> QED
    BY <2>1, <2>3 DEF Calm
<1>11. ASSUME NEW l \in Lookups, Adopt(l) PROVE Calm
  <2>1. Still
    <3>1. \A m \in Lookups : m # l => on'[m] = on[m]
      BY <1>11 DEF Adopt, TypeOK
    <3> QED
      BY <1>0, <1>3, <1>11, <3>1 DEF Adopt, Places
  <2> QED
    BY <1>4, <1>11, <2>1 DEF Adopt, Calm
<1>12. ASSUME NEW l \in Lookups, WaitReady(l) PROVE Calm
  <2>1. Still
    BY <1>0, <1>2, <1>3, <1>12 DEF WaitReady, Places
  <2> QED
    BY <1>4, <1>12, <2>1 DEF WaitReady, Calm
<1>13. ASSUME NEW l \in Lookups, Stall(l) PROVE Calm
  <2>1. on[l] \in Servers
    BY <1>13, ServerNumbers DEF Stall, InPlace, Numbered
  <2> QED
    BY <1>1, <1>5, <1>13, <2>1 DEF Stall, Calm
<1>14. ASSUME NEW l \in Lookups, AskTimeout(l) \/ Answered(l) PROVE Calm
  <2>1. pc[l] # "send" /\ Done(l) /\ UNCHANGED clients
    BY <1>14 DEF AskTimeout, Answered
  <2> QED
    BY <1>2, <1>4, <2>1 DEF Calm
<1>15. ASSUME NEW l \in Lookups, Ask(l), Done(l), UNCHANGED out PROVE Calm
  BY <1>2, <1>4, <1>15 DEF Ask, Calm
<1>16. ASSUME NEW x \in Threads, Shutdown(x) PROVE Calm
  <2>1. PICK i \in todo[x] : End(i)
    BY <1>16 DEF Shutdown
  <2>2. i \in Servers
    BY <2>1 DEF TypeOK
  <2> QED
    BY <1>1, <1>5, <1>16, <2>1, <2>2 DEF Shutdown, Calm
<1>17. ASSUME NEW x \in Threads, Stopped(x) PROVE Calm
  <2>1. Still
    <3>1. CASE x \in Lookups /\ Done(x)
      BY <1>2, <1>17, <3>1 DEF Stopped
    <3>2. CASE Goto(x, IF x \in Lookups THEN "wait" ELSE "idle") /\ UNCHANGED lookups
      <4>1. PICK place \in {"wait", "idle"} : Goto(x, place)
        BY <3>2
      <4>2. place \in Places \ {"send", "ask", "await", "answered"}
        BY DEF Places
      <4> QED
        BY <1>0, <1>3, <1>17, <3>2, <4>1, <4>2 DEF Stopped
    <3> QED
      BY <1>17, <3>1, <3>2 DEF Stopped
  <2> QED
    BY <1>4, <1>17, <2>1 DEF Stopped, Calm
<1>18. ASSUME NEW gone \in SUBSET Keys, Sweep(gone) PROVE Calm
  <2>1. Still
    BY <1>0, <1>3, <1>18 DEF Sweep, Places, Threads
  <2> QED
    BY <1>4, <1>18, <2>1 DEF Sweep, Calm
<1>19. ASSUME ShutdownAll PROVE Calm
  <2>1. Still
    BY <1>0, <1>3, <1>19 DEF ShutdownAll, Places, Threads
  <2> QED
    BY <1>4, <1>19, <2>1 DEF ShutdownAll, Calm
<1>20. ASSUME NEW i \in Servers, Initialized(i) \/ ReadEof(i) PROVE Calm
  BY <1>1, <1>4, <1>20 DEF Initialized, ReadEof, Calm
<1>21. ASSUME NEW i \in Servers, InitializeFails(i) PROVE Calm
  BY <1>1, <1>5, <1>21 DEF InitializeFails, Calm
<1>22. ASSUME NEW i \in Servers, Dies(i) PROVE Calm
  <2>1. Steady
    BY <1>22 DEF Dies, Kept, TypeOK
  <2> QED
    BY <1>1, <1>22, <2>1 DEF Dies, Calm
<1>23. ASSUME NEW l \in Lookups, Ask(l)
       PROVE  \/ Done(l) /\ UNCHANGED out
              \/ on[l] \notin exited /\ HasRoom(on[l]) /\ Queued(on[l], [op |-> "ask", by |-> l])
                 /\ Goto(l, "await") /\ UNCHANGED lookups
  BY <1>23 DEF Ask
<1> QED
  BY <1>6, <1>7, <1>8, <1>9, <1>10, <1>11, <1>12, <1>13, <1>14, <1>15, <1>16, <1>17, <1>18,
     <1>19, <1>20, <1>21, <1>22, <1>23 DEF Next, Step


\* Who is at work with a document works in a server that was started.
LEMMA AtWork ==
  ASSUME TypeOK, InPlace, NEW l \in Lookups,
         pc[l] \in {"wait", "sync", "send", "ask", "await", "answered"}
  PROVE  /\ on[l] \in Servers /\ on[l] <= starts /\ proc[on[l]] # "none"
         /\ on[l] \notin exited => (proc[on[l]] \in {"up", "dead"})
<1>1. on[l] \in Servers /\ on[l] <= starts /\ starts \in Nat
  BY ServerNumbers DEF InPlace, Numbered
<1> QED
  BY <1>1 DEF InPlace, ExitedIsDead, TypeOK, Servers

\* A calm step leaves the texts as they are.
LEMMA CalmText ==
  ASSUME TypeOK, InPlace, TextInv, Calm, Histories'
  PROVE  TextInv'
<1>1. \A i : Holders(i)' = Holders(i)
  BY DEF Calm, Same, Elsewhere, Holders
<1>2. ASSUME NEW i, NEW l \in Holders(i)
      PROVE  l \in Lookups /\ Same(l) /\ msgs'[l] = msgs[l] /\ Mine(l)' = Mine(l)
  BY <1>2 DEF Calm, Same, Elsewhere, Holders, Mine
<1>3. ASSUME NEW i \in Servers PROVE ServerOK(i)'
  <2>1. ServerOK(i) /\ known'[i] = known[i]
    BY DEF TextInv, Calm
  <2>2. /\ Distinct(known[i])'
        /\ \A l, m \in Holders(i)' : l = m
        /\ \A l \in Holders(i)' : \E n \in DOMAIN known'[i] : known'[i][n] = Mine(l)'
    BY <1>1, <1>2, <2>1 DEF ServerOK, Distinct
  <2>3. CASE proc'[i] = "dead"
    BY <2>2, <2>3 DEF ServerOK
  <2>4. CASE proc'[i] = proc[i] /\ out'[i] = out[i] /\ copy'[i] = copy[i]
    <3>1. proc[i] = "up" => \A f \in Files :
            /\ Holders(i)' = {} => InStep(known[i], copy[i][f], out[i], <<>>, f)
            /\ \A l \in Holders(i)' : InStep(known[i], copy[i][f], out[i], msgs'[l], f)
      BY <1>1, <1>2, <2>1 DEF ServerOK
    <3>2. proc[i] = "none" => known[i] = <<>> /\ out[i] = <<>> /\ copy[i] = Closing
      BY <2>1 DEF ServerOK
    <3>3. /\ proc'[i] = "none" => known'[i] = <<>> /\ out'[i] = <<>> /\ copy'[i] = Closing
          /\ proc'[i] = "up" => \A f \in Files :
            /\ Holders(i)' = {} => InStep(known'[i], copy'[i][f], out'[i], <<>>, f)
            /\ \A l \in Holders(i)' : InStep(known'[i], copy'[i][f], out'[i], msgs'[l], f)
      BY <2>1, <2>4, <3>1, <3>2
    <3> QED
      BY <2>2, <3>3 DEF ServerOK, InStep, Knows, Reads, Tells
  <2>5. CASE proc[i] = "none" /\ out'[i] = out[i] /\ copy'[i] = copy[i]
    <3>1. known'[i] = <<>> /\ out'[i] = <<>> /\ copy'[i] = Closing
      BY <2>1, <2>5 DEF ServerOK
    <3>2. Holders(i)' = {}
      BY <1>1, <2>5, AtWork DEF Holders
    <3>3. ASSUME NEW f \in Files PROVE InStep(<<>>, Closing[f], <<>>, <<>>, f)
      <4>1. Closing[f] = Shut /\ Shut \in AnyText
        BY DEF Closing, AnyText
      <4>2. Knows(<<>>, f, Shut) /\ Reads(Shut, <<>>, Len(<<>>), f, Shut)
        BY DEF Knows, Reads
      <4> QED
        BY <4>1, <4>2 DEF InStep
    <3>4. \A f \in Files : InStep(known'[i], copy'[i][f], out'[i], <<>>, f)
      BY <3>1, <3>3
    <3> QED
      BY <2>2, <3>1, <3>2, <3>4 DEF ServerOK, InStep, Knows, Reads, Tells
  <2> QED
    BY <2>3, <2>4, <2>5 DEF Calm, Kept
<1>4. ASSUME NEW l \in Lookups PROVE LookupOK(l)'
  <2>1. LookupOK(l)
    BY DEF TextInv
  <2>2. CASE Elsewhere(l)
    BY <2>2 DEF Elsewhere, LookupOK
  <2>3. CASE Same(l)
    <3>1. /\ pc'[l] # "answered" => answer'[l] = "none"
          /\ answer'[l] # "none" => answer'[l] \in since'[l]
          /\ pc'[l] = "send" => job'[l].text \in since'[l]
      BY <2>1, <2>3 DEF Same, LookupOK
    <3>2. ASSUME pc'[l] \in {"ask", "await"}, proc'[on'[l]] = "up"
          PROVE  /\ pc[l] = pc'[l] /\ proc[on[l]] = "up" /\ out'[on'[l]] = out[on[l]]
                 /\ copy'[on'[l]] = copy[on[l]] /\ on'[l] = on[l] /\ job'[l] = job[l]
                 /\ since'[l] = since[l]
      BY <2>3, <3>2, AtWork DEF Same, Calm, Kept
    <3>3. ASSUME pc'[l] \in {"ask", "await"}, proc'[on'[l]] = "up"
          PROVE  \A n : FreshAt(l, n) => FreshAt(l, n)'
      BY <3>2, <3>3 DEF FreshAt, Reads, Tells
    <3>4. ASSUME pc'[l] = "ask", proc'[on'[l]] = "up"
          PROVE  /\ FreshAt(l, Len(out[on[l]]))'
                 /\ \A m \in Holders(on[l])' : \A n \in DOMAIN msgs'[m] :
                      Tells(msgs'[m][n], job'[l].file) => msgs'[m][n].text \in since'[l]
      <4>1. FreshAt(l, Len(out[on[l]])) /\ out'[on'[l]] = out[on[l]]
        BY <2>1, <3>2, <3>4 DEF LookupOK
      <4> QED
        BY <1>1, <1>2, <2>1, <3>2, <3>3, <3>4, <4>1 DEF LookupOK
    <3>5. ASSUME pc'[l] = "await", proc'[on'[l]] = "up", NEW n \in DOMAIN out'[on'[l]],
                 out'[on'[l]][n] = [op |-> "ask", by |-> l]
          PROVE  FreshAt(l, n - 1)'
      BY <2>1, <3>2, <3>3, <3>5 DEF LookupOK
    <3> QED
      BY <3>1, <3>4, <3>5 DEF LookupOK, FreshAt, Holders, Reads, Tells
  <2> QED
    BY <2>2, <2>3 DEF Calm
<1> QED
  BY <1>3, <1>4 DEF TextInv


-----------------------------------------------------------------------------
(* The steps that carry a text.                                            *)

\* A server that nobody brings up to date and to which nothing happens.
LEMMA ServerAside ==
  ASSUME NEW i \in Servers, ServerOK(i), Holders(i)' = Holders(i),
         known'[i] = known[i], proc'[i] = proc[i], out'[i] = out[i], copy'[i] = copy[i],
         \A l \in Holders(i) : msgs'[l] = msgs[l] /\ job'[l] = job[l]
  PROVE  ServerOK(i)'
<1>1. /\ Distinct(known[i])'
      /\ \A l, m \in Holders(i)' : l = m
      /\ \A l \in Holders(i)' : \E n \in DOMAIN known'[i] : known'[i][n] = Mine(l)'
  BY DEF ServerOK, Distinct, Mine
<1>2. /\ proc'[i] = "none" => known'[i] = <<>> /\ out'[i] = <<>> /\ copy'[i] = Closing
      /\ proc'[i] = "up" => \A f \in Files :
           /\ Holders(i)' = {} => InStep(known'[i], copy'[i][f], out'[i], <<>>, f)
           /\ \A l \in Holders(i)' : InStep(known'[i], copy'[i][f], out'[i], msgs'[l], f)
  BY DEF ServerOK
<1> QED
  BY <1>1, <1>2 DEF ServerOK, InStep, Knows, Reads, Tells

\* A lookup to whose server nothing happens, and whose document may get more texts.
LEMMA LookupAside ==
  ASSUME NEW l \in Lookups, LookupOK(l), pc'[l] = pc[l], on'[l] = on[l], job'[l] = job[l],
         answer'[l] = answer[l], since[l] \subseteq since'[l],
         proc'[on[l]] = proc[on[l]],
         pc[l] \in {"ask", "await"} => out'[on[l]] = out[on[l]] /\ copy'[on[l]] = copy[on[l]],
         pc[l] = "ask" => \A m \in Holders(on[l])' : \A n \in DOMAIN msgs'[m] :
           Tells(msgs'[m][n], job[l].file) =>
             \/ msgs'[m][n].text \in since'[l]
             \/ m \in Holders(on[l]) /\ \E k \in DOMAIN msgs[m] : msgs[m][k] = msgs'[m][n]
  PROVE  LookupOK(l)'
<1>1. ASSUME pc[l] \in {"ask", "await"}, NEW n, FreshAt(l, n) PROVE FreshAt(l, n)'
  BY <1>1 DEF FreshAt, Reads, Tells
<1>2. /\ pc'[l] # "answered" => answer'[l] = "none"
      /\ answer'[l] # "none" => answer'[l] \in since'[l]
      /\ pc'[l] = "send" => job'[l].text \in since'[l]
  BY DEF LookupOK
<1>3. ASSUME pc'[l] = "ask", proc'[on'[l]] = "up"
      PROVE  /\ FreshAt(l, Len(out[on[l]]))'
             /\ \A m \in Holders(on[l])' : \A n \in DOMAIN msgs'[m] :
                  Tells(msgs'[m][n], job'[l].file) => msgs'[m][n].text \in since'[l]
  <2>1. FreshAt(l, Len(out[on[l]])) /\ out'[on'[l]] = out[on[l]]
    BY <1>3 DEF LookupOK
  <2>2. FreshAt(l, Len(out[on[l]]))'
    BY <1>1, <1>3, <2>1
  <2> QED
    BY <1>3, <2>2 DEF LookupOK
<1>4. ASSUME pc'[l] = "await", proc'[on'[l]] = "up", NEW n \in DOMAIN out'[on'[l]],
             out'[on'[l]][n] = [op |-> "ask", by |-> l]
      PROVE  FreshAt(l, n - 1)'
  BY <1>1, <1>4 DEF LookupOK
<1> QED
  BY <1>2, <1>3, <1>4 DEF LookupOK, FreshAt, Reads, Tells, Holders

\* A sync: the entry says what the server will have once it has the notes as well.
LEMMA SyncText ==
  ASSUME TypeOK, InPlace, TextInv, Histories', NEW l \in Lookups, Sync(l)
  PROVE  TextInv'
<1>a. PICK i \in Servers : i = on[l] /\ proc[i] # "none"
  BY AtWork DEF Sync
<1>b. PICK f \in Files : f = job[l].file
  BY DEF TypeOK, Jobs
<1>0. pc[l] = "sync" /\ Holders(i) = {} /\ l \in Threads
  BY <1>a DEF Sync, Locked, Holders, Threads
<1>1. i \in Servers /\ proc[i] # "none"
  BY <1>a
<1>2. ServerOK(i) /\ Distinct(known[i])
  BY <1>1 DEF TextInv, ServerOK
<1>3. PICK more, notes, shut :
        /\ SyncWith(l, more, notes, shut)
        /\ Moved(known[i], more, Mine(l), shut)
        /\ Noted(l, known[i], more, notes, shut)
  BY <1>a, <1>2, SyncCases
<1>4. /\ known' = [known EXCEPT ![i] = more] /\ msgs' = [msgs EXCEPT ![l] = notes]
      /\ pc' = [pc EXCEPT ![l] = IF notes = <<>> THEN "ask" ELSE "send"]
      /\ UNCHANGED <<proc, out, copy, on, job, answer>>
      /\ since' = [m \in Lookups |->
           IF m = l THEN {job[l].text}
           ELSE since[m] \cup Shown(i, f, job[l].text, l)[m]
                         \cup UNION {Shown(i, g, Shut, l)[m] : g \in shut}]
  BY <1>a, <1>b, <1>3 DEF SyncWith, Goto
<1>5. /\ known'[i] = more /\ msgs'[l] = notes
      /\ pc'[l] = IF notes = <<>> THEN "ask" ELSE "send"
      /\ \A j \in Servers : j # i => known'[j] = known[j]
      /\ \A m \in Lookups : m # l => msgs'[m] = msgs[m] /\ pc'[m] = pc[m]
      /\ since'[l] = {job[l].text}
      /\ \A m \in Lookups : m # l => since[m] \subseteq since'[m]
  BY <1>0, <1>1, <1>4 DEF TypeOK, Threads
<1>6. on[l] = i /\ Mine(l)' = Mine(l) /\ Mine(l).file = f /\ Mine(l).text = job[l].text /\ f \notin shut
      /\ job[l].file = f
  BY <1>a, <1>b, <1>3, <1>4 DEF Mine, Noted
<1>7. Holders(i)' = IF notes = <<>> THEN {} ELSE {l}
  BY <1>0, <1>4, <1>5, <1>6 DEF Holders
<1>8. \A j : j # i => Holders(j)' = Holders(j) /\ l \notin Holders(j)
  BY <1>4, <1>5, <1>6 DEF Holders
<1>9. ASSUME proc[i] = "up", NEW g \in Files
      PROVE  \E s, t \in AnyText :
               /\ Reads(copy[i][g], out[i], Len(out[i]), g, s)
               /\ Reads(s, notes, Len(notes), g, t) /\ Knows(more, g, t)
  <2>1. PICK s, t \in AnyText :
          /\ Reads(copy[i][g], out[i], Len(out[i]), g, s) /\ Reads(s, <<>>, Len(<<>>), g, t)
          /\ Knows(known[i], g, t)
    BY <1>0, <1>2, <1>9 DEF ServerOK, InStep
  <2>2. s = t
    BY <2>1, ReadsNone
  <2> QED
    BY <1>3, <2>1, <2>2 DEF Noted
<1>10. ServerOK(i)'
  <2>1. /\ Distinct(known'[i]) /\ \E n \in DOMAIN known'[i] : known'[i][n] = Mine(l)'
    BY <1>3, <1>5, <1>6 DEF Moved
  <2>2. proc'[i] # "none" /\ proc'[i] = proc[i] /\ out'[i] = out[i] /\ copy'[i] = copy[i]
    BY <1>1, <1>4
  <2>3. \A k, m \in Holders(i)' : k = m
    BY <1>7
  <2>4. \A m \in Holders(i)' : \E n \in DOMAIN known'[i] : known'[i][n] = Mine(m)'
    BY <1>7, <2>1
  <2>5. ASSUME proc'[i] = "up", NEW g \in Files
        PROVE  /\ Holders(i)' = {} => InStep(known'[i], copy'[i][g], out'[i], <<>>, g)
               /\ \A m \in Holders(i)' : InStep(known'[i], copy'[i][g], out'[i], msgs'[m], g)
    <3>1. InStep(known'[i], copy'[i][g], out'[i], notes, g)
      BY <1>5, <1>9, <2>2, <2>5 DEF InStep
    <3> QED
      BY <1>5, <1>7, <3>1
  <2> QED
    BY <2>1, <2>2, <2>3, <2>4, <2>5 DEF ServerOK, InStep, Distinct, Knows, Reads, Tells
<1>11. ASSUME NEW j \in Servers, j # i PROVE ServerOK(j)'
  <2>1. ServerOK(j) /\ Holders(j) \subseteq Lookups
    BY DEF TextInv, Holders
  <2> QED
    BY <1>4, <1>5, <1>8, <1>11, <2>1, ServerAside
<1>12. LookupOK(l)'
  <2>1. LookupOK(l) /\ answer[l] = "none"
    BY <1>0 DEF TextInv, LookupOK
  <2>2. CASE notes # <<>>
    BY <1>4, <1>5, <2>1, <2>2 DEF LookupOK
  <2>3. CASE notes = <<>>
    <3>1. ASSUME proc[i] = "up", NEW t \in AnyText,
                 Reads(copy[i][f], out[i], Len(out[i]), f, t)
          PROVE  t = job[l].text
      <4>1. f \in Files /\ Len(out[i]) \in Nat
        BY <1>1, <1>6 DEF TypeOK, Jobs
      <4>2. PICK s, u \in AnyText :
               /\ Reads(copy[i][f], out[i], Len(out[i]), f, s)
               /\ Reads(s, notes, Len(notes), f, u) /\ Knows(more, f, u)
        BY <1>9, <3>1, <4>1
      <4>3. u = s
        BY <2>3, <4>2, ReadsNone
      <4>4. u = job[l].text
        BY <1>3, <1>6, <4>2, MovedKnows
      <4> QED
        BY <3>1, <4>1, <4>2, <4>3, <4>4, ReadsOne
    <3>2. proc'[on'[l]] = "up" => FreshAt(l, Len(out[on[l]]))'
      BY <1>4, <1>5, <1>6, <3>1 DEF FreshAt, Reads, Tells
    <3>3. Holders(on[l])' = {}
      BY <1>4, <1>6, <1>7, <2>3 DEF Holders
    <3>4. /\ pc'[l] = "ask" /\ answer'[l] = "none" /\ on'[l] = on[l] /\ out' = out
      BY <1>4, <1>5, <2>1, <2>3
    <3>5. \A m \in Holders(on[l])' : \A n \in DOMAIN msgs'[m] :
            Tells(msgs'[m][n], job'[l].file) => msgs'[m][n].text \in since'[l]
      BY <3>3
    <3>6. proc'[on'[l]] = "up" =>
            /\ FreshAt(l, Len(out[on[l]]))'
            /\ \A m \in Holders(on[l])' : \A n \in DOMAIN msgs'[m] :
                 Tells(msgs'[m][n], job'[l].file) => msgs'[m][n].text \in since'[l]
      BY <3>2, <3>5
    <3> QED
      BY <3>4, <3>6 DEF LookupOK
  <2> QED
    BY <2>2, <2>3
<1>13. ASSUME NEW m \in Lookups, m # l PROVE LookupOK(m)'
  <2>1. LookupOK(m)
    BY DEF TextInv
  <2>2. ASSUME pc[m] = "ask", NEW k \in Holders(on[m])', NEW n \in DOMAIN msgs'[k],
               Tells(msgs'[k][n], job[m].file)
        PROVE  \/ msgs'[k][n].text \in since'[m]
               \/ k \in Holders(on[m]) /\ \E a \in DOMAIN msgs[k] : msgs[k][a] = msgs'[k][n]
    <3>1. CASE on[m] # i
      <4>1. k \in Holders(on[m]) /\ k # l /\ k \in Lookups
        BY <1>4, <1>8, <2>2, <3>1 DEF Holders
      <4> QED
        BY <1>5, <2>2, <4>1
    <3>2. CASE on[m] = i
      <4>1. k = l /\ n \in DOMAIN notes /\ Tells(notes[n], job[m].file) /\ msgs'[k] = notes
        BY <1>4, <1>5, <1>7, <2>2, <3>2 DEF Holders
      <4>2. job[m].file \in Files
        BY DEF TypeOK, Jobs
      <4>3. CASE job[m].file = f /\ notes[n].text = job[l].text
        BY <1>4, <1>13, <2>2, <3>2, <4>1, <4>3 DEF Shown
      <4>4. CASE job[m].file \in shut /\ notes[n].text = Shut
        <5>1. Shut \in Shown(i, job[m].file, Shut, l)[m]
          BY <1>13, <2>2, <3>2 DEF Shown
        <5> QED
          BY <1>4, <1>13, <4>1, <4>4, <5>1
      <4> QED
        BY <1>3, <1>6, <4>1, <4>2, <4>3, <4>4 DEF Noted
    <3> QED
      BY <3>1, <3>2
  <2> QED
    BY <1>4, <1>5, <1>13, <2>1, <2>2, LookupAside
<1> QED
  BY <1>10, <1>11, <1>12, <1>13 DEF TextInv


\* A server that has read what it was told has the text of a listed document.
LEMMA CaughtUp ==
  ASSUME NEW docs, NEW had, NEW q, Len(q) \in Nat, NEW f, InStep(docs, had, q, <<>>, f),
         NEW n \in DOMAIN docs, docs[n].file = f, NEW t, Reads(had, q, Len(q), f, t)
  PROVE  t = docs[n].text
<1>1. PICK s, u \in AnyText :
        Reads(had, q, Len(q), f, s) /\ Reads(s, <<>>, Len(<<>>), f, u) /\ Knows(docs, f, u)
  BY DEF InStep
<1>2. u = s
  BY <1>1, ReadsNone
<1>3. u = docs[n].text
  BY <1>1 DEF Knows
<1> QED
  BY <1>1, <1>2, <1>3, ReadsOne

\* When the document of a lookup is fresh after a step.
LEMMA FreshNext ==
  ASSUME NEW l, NEW n, NEW q, NEW had, NEW f, NEW S,
         q = out'[on'[l]], had = copy'[on'[l]][job'[l].file], f = job'[l].file, S = since'[l],
         \A t \in AnyText : Reads(had, q, n, f, t) => t \in S
  PROVE  FreshAt(l, n)'
BY DEF FreshAt, Reads, Tells

\* A lookup in whose server something of another is queued.
LEMMA LookupBehind ==
  ASSUME TypeOK, NEW l \in Lookups, LookupOK(l), on[l] \in Servers,
         pc'[l] = pc[l], on'[l] = on[l], job'[l] = job[l], answer'[l] = answer[l],
         since'[l] = since[l], proc'[on[l]] = proc[on[l]], copy'[on[l]] = copy[on[l]],
         NEW note \in Messages, out'[on[l]] = Append(out[on[l]], note),
         note # [op |-> "ask", by |-> l],
         pc[l] = "ask" /\ proc[on[l]] = "up" /\ Tells(note, job[l].file) => note.text \in since[l],
         pc[l] = "ask" => \A m \in Holders(on[l])' : \A n \in DOMAIN msgs'[m] :
           m \in Holders(on[l]) /\ \E k \in DOMAIN msgs[m] : msgs[m][k] = msgs'[m][n]
  PROVE  LookupOK(l)'
<1> DEFINE q == out[on[l]]
           f == job[l].file
<1>1. q \in Seq(Messages)
  BY DEF TypeOK
<1>2. /\ DOMAIN q = 1 .. Len(q) /\ Len(q) \in Nat
      /\ DOMAIN Append(q, note) = 1 .. (Len(q) + 1)
      /\ \A n \in 1 .. Len(q) : Append(q, note)[n] = q[n]
      /\ Append(q, note)[Len(q) + 1] = note
  BY <1>1, QueueIndices
<1>3. /\ pc'[l] # "answered" => answer'[l] = "none"
      /\ answer'[l] # "none" => answer'[l] \in since'[l]
      /\ pc'[l] = "send" => job'[l].text \in since'[l]
  BY DEF LookupOK
<1>4. ASSUME pc'[l] = "ask", proc'[on'[l]] = "up"
      PROVE  /\ FreshAt(l, Len(out[on[l]]))'
             /\ \A m \in Holders(on[l])' : \A n \in DOMAIN msgs'[m] :
                  Tells(msgs'[m][n], job'[l].file) => msgs'[m][n].text \in since'[l]
  <2>1. FreshAt(l, Len(q))
    BY <1>4 DEF LookupOK
  <2>2. ASSUME NEW t \in AnyText, Reads(copy[on[l]][f], Append(q, note), Len(Append(q, note)), f, t)
        PROVE  t \in since[l]
    <3>1. IF Tells(note, f) THEN t = note.text ELSE Reads(copy[on[l]][f], q, Len(q), f, t)
      BY <1>1, <2>2, ReadsAppend
    <3> QED
      BY <1>4, <2>1, <3>1 DEF FreshAt
  <2>3. FreshAt(l, Len(out[on[l]]))'
    <3>1. PICK len : len = Len(Append(q, note))
      OBVIOUS
    <3>2. FreshAt(l, len)'
      BY <2>2, <3>1, FreshNext
    <3>3. Len(out'[on'[l]]) = len
      BY <3>1
    <3> QED
      BY <3>2, <3>3 DEF FreshAt, Reads, Tells
  <2>4. ASSUME NEW m \in Holders(on[l])', NEW n \in DOMAIN msgs'[m],
               Tells(msgs'[m][n], job'[l].file)
        PROVE  msgs'[m][n].text \in since'[l]
    <3>1. PICK k \in DOMAIN msgs[m] : m \in Holders(on[l]) /\ msgs[m][k] = msgs'[m][n]
      BY <1>4, <2>4
    <3> QED
      BY <1>4, <2>4, <3>1 DEF LookupOK
  <2> QED
    BY <2>3, <2>4
<1>5. ASSUME pc'[l] = "await", proc'[on'[l]] = "up", NEW n \in DOMAIN out'[on'[l]],
             out'[on'[l]][n] = [op |-> "ask", by |-> l]
      PROVE  FreshAt(l, n - 1)'
  <2>1. n \in 1 .. Len(q) /\ q[n] = [op |-> "ask", by |-> l] /\ n - 1 \in 0 .. Len(q)
    BY <1>2, <1>5
  <2>2. FreshAt(l, n - 1)
    BY <1>2, <1>5, <2>1 DEF LookupOK
  <2>3. \A t : Reads(copy[on[l]][f], Append(q, note), n - 1, f, t) <=> Reads(copy[on[l]][f], q, n - 1, f, t)
    BY <1>1, <2>1, ReadsAppend
  <2>4. \A t \in AnyText : Reads(copy[on[l]][f], Append(q, note), n - 1, f, t) => t \in since[l]
    BY <2>2, <2>3 DEF FreshAt
  <2> QED
    BY <2>4, FreshNext
<1> QED
  BY <1>3, <1>4, <1>5 DEF LookupOK, FreshAt, Reads, Tells, Holders


\* A notification is queued: the server will have its text.
LEMMA NotifyText ==
  ASSUME TypeOK, InPlace, TextInv, Histories', NEW l \in Lookups, Notify(l)
  PROVE  TextInv'
<1>1. PICK i \in Servers : i = on[l] /\ proc[i] \in {"up", "dead"} /\ (i \in exited => proc[i] = "dead")
  <2>1. pc[l] = "send"
    BY DEF Notify
  <2> QED
    BY <2>1, AtWork DEF InPlace, ExitedIsDead, TypeOK
<1>2. PICK q \in Seq(Notes) : q = msgs[l] /\ q # <<>>
  BY DEF Notify, InPlace, Numbered, TypeOK
<1>3. PICK note \in Notes : note = q[1] /\ note \in Messages
  BY <1>2 DEF Messages
<1>4. /\ Len(q) \in Nat \ {0} /\ DOMAIN q = 1 .. Len(q) /\ Tail(q) \in Seq(Notes)
      /\ DOMAIN Tail(q) = 1 .. (Len(q) - 1) /\ Len(Tail(q)) = Len(q) - 1
      /\ \A n \in 1 .. (Len(q) - 1) : Tail(q)[n] = q[n + 1]
      /\ Len(q) = 1 => Tail(q) = <<>>
  <2>1. /\ Len(q) \in Nat \ {0} /\ DOMAIN q = 1 .. Len(q) /\ Tail(q) \in Seq(Notes)
        /\ Len(Tail(q)) = Len(q) - 1
        /\ \A n \in 1 .. (Len(q) - 1) : Tail(q)[n] = q[n + 1]
    BY <1>2
  <2>2. \A r \in Seq(Notes) : DOMAIN r = 1 .. Len(r) /\ (Len(r) = 0 => r = <<>>)
    OBVIOUS
  <2>3. Len(q) = 1 => Len(q) - 1 = 0
    OBVIOUS
  <2> QED
    BY <2>1, <2>2, <2>3, Zenon
<1>5. /\ pc[l] = "send" /\ l \in Threads
      /\ pc' = [pc EXCEPT ![l] = IF Len(q) = 1 THEN "ask" ELSE "send"]
      /\ msgs' = [msgs EXCEPT ![l] = Tail(q)]
      /\ out'[i] = IF proc[i] = "up" THEN Append(out[i], note) ELSE out[i]
      /\ \A j \in Servers : j # i => out'[j] = out[j]
      /\ UNCHANGED <<proc, copy, known, on, job, answer, since>>
  BY <1>1, <1>2, <1>3 DEF Notify, Queued, Goto, TypeOK, Threads
<1>6. /\ pc'[l] = IF Len(q) = 1 THEN "ask" ELSE "send"
      /\ msgs'[l] = Tail(q)
      /\ \A m \in Lookups : m # l => pc'[m] = pc[m] /\ msgs'[m] = msgs[m]
  BY <1>5 DEF TypeOK, Threads
<1>7. ServerOK(i) /\ l \in Holders(i) /\ Holders(i) = {l}
  BY <1>1, <1>5 DEF TextInv, ServerOK, Holders
<1>8. /\ Holders(i)' = IF Len(q) = 1 THEN {} ELSE {l}
      /\ \A j : j # i => Holders(j)' = Holders(j) /\ l \notin Holders(j)
  BY <1>1, <1>5, <1>6, <1>7 DEF Holders
<1>9. Mine(l)' = Mine(l)
  BY <1>5 DEF Mine
<1>10. ASSUME proc[i] = "up", NEW f \in Files
       PROVE  InStep(known[i], copy[i][f], out'[i], Tail(q), f)
  <2>1. PICK s, t \in AnyText :
          /\ Reads(copy[i][f], out[i], Len(out[i]), f, s) /\ Reads(s, q, Len(q), f, t)
          /\ Knows(known[i], f, t)
    BY <1>2, <1>7, <1>10 DEF ServerOK, InStep
  <2>2. PICK now \in AnyText : now = IF Tells(note, f) THEN note.text ELSE s
    BY <2>1 DEF Notes, AnyText
  <2>3. out[i] \in Seq(Messages) /\ out'[i] = Append(out[i], note)
    BY <1>5, <1>10 DEF TypeOK
  <2>4. Reads(copy[i][f], out'[i], Len(out'[i]), f, now)
    <3>1. Reads(copy[i][f], Append(out[i], note), Len(Append(out[i], note)), f, now) <=>
            IF Tells(note, f) THEN now = note.text ELSE Reads(copy[i][f], out[i], Len(out[i]), f, now)
      BY <1>3, <2>3, ReadsAppend
    <3> QED
      BY <2>1, <2>2, <2>3, <3>1
  <2>5. Reads(now, Tail(q), Len(Tail(q)), f, t)
    <3>1. Reads(s, q, Len(q), f, t) <=>
            Reads(IF Tells(q[1], f) THEN q[1].text ELSE s, Tail(q), Len(q) - 1, f, t)
      BY <1>2, <1>4, ReadsTail
    <3> QED
      BY <1>3, <1>4, <2>1, <2>2, <3>1
  <2> QED
    BY <2>1, <2>4, <2>5 DEF InStep
<1>11. ServerOK(i)'
  <2>1. /\ Distinct(known[i])' /\ proc'[i] # "none"
        /\ \A k, m \in Holders(i)' : k = m
        /\ \A m \in Holders(i)' : \E n \in DOMAIN known'[i] : known'[i][n] = Mine(m)'
    BY <1>1, <1>5, <1>7, <1>8, <1>9 DEF ServerOK, Distinct
  <2>2. ASSUME proc'[i] = "up", NEW f \in Files
        PROVE  /\ Holders(i)' = {} => InStep(known'[i], copy'[i][f], out'[i], <<>>, f)
               /\ \A m \in Holders(i)' : InStep(known'[i], copy'[i][f], out'[i], msgs'[m], f)
    <3>1. InStep(known'[i], copy'[i][f], out'[i], Tail(q), f)
      BY <1>5, <1>10, <2>2
    <3> QED
      BY <1>4, <1>6, <1>8, <3>1
  <2> QED
    BY <2>1, <2>2 DEF ServerOK, InStep, Distinct, Knows, Reads, Tells
<1>12. ASSUME NEW j \in Servers, j # i PROVE ServerOK(j)'
  <2>1. ServerOK(j) /\ Holders(j) \subseteq Lookups
    BY DEF TextInv, Holders
  <2> QED
    BY <1>5, <1>6, <1>8, <1>12, <2>1, ServerAside
<1>13. LookupOK(l)'
  <2>1. LookupOK(l) /\ answer[l] = "none" /\ job[l].text \in since[l]
    BY <1>5 DEF TextInv, LookupOK
  <2>2. CASE Len(q) # 1
    BY <1>5, <1>6, <2>1, <2>2 DEF LookupOK
  <2>3. CASE Len(q) = 1
    <3>1. ASSUME proc[i] = "up", NEW t \in AnyText,
                 Reads(copy[i][job[l].file], out'[i], Len(out'[i]), job[l].file, t)
          PROVE  t \in since[l]
      <4>1. InStep(known[i], copy[i][job[l].file], out'[i], <<>>, job[l].file)
        BY <1>4, <1>10, <2>3, <3>1 DEF TypeOK, Jobs
      <4>2. PICK n \in DOMAIN known[i] : known[i][n] = Mine(l)
        BY <1>7 DEF ServerOK
      <4>3. known[i][n].file = job[l].file /\ known[i][n].text = job[l].text
        BY <4>2 DEF Mine
      <4>4. Len(out'[i]) \in Nat
        <5>1. out[i] \in Seq(Messages)
          BY DEF TypeOK
        <5> QED
          BY <1>3, <1>5, <5>1
      <4>5. t = known[i][n].text
        BY <3>1, <4>1, <4>3, <4>4, CaughtUp
      <4> QED
        BY <2>1, <4>3, <4>5
    <3>2. proc'[on'[l]] = "up" => FreshAt(l, Len(out[on[l]]))'
      <4>1. PICK len : len = Len(out'[i])
        OBVIOUS
      <4>2. proc[i] = "up" => FreshAt(l, len)'
        BY <1>1, <1>5, <3>1, <4>1, FreshNext
      <4>3. Len(out'[on'[l]]) = len
        BY <1>1, <1>5, <4>1
      <4> QED
        BY <1>1, <1>5, <4>2, <4>3 DEF FreshAt, Reads, Tells
    <3>3. Holders(on[l])' = {}
      BY <1>1, <1>5, <1>8, <2>3 DEF Holders
    <3> QED
      BY <1>5, <1>6, <2>1, <2>3, <3>2, <3>3 DEF LookupOK, FreshAt, Reads, Tells, Holders
  <2> QED
    BY <2>2, <2>3
<1>14. ASSUME NEW m \in Lookups, m # l PROVE LookupOK(m)'
  <2>1. LookupOK(m)
    BY DEF TextInv
  <2>2. ASSUME NEW k \in Holders(on[m])', NEW n \in DOMAIN msgs'[k]
        PROVE  k \in Holders(on[m]) /\ \E a \in DOMAIN msgs[k] : msgs[k][a] = msgs'[k][n]
    <3>1. CASE on[m] = i
      <4>1. k = l /\ k \in Holders(on[m]) /\ n \in DOMAIN Tail(q) /\ msgs'[k] = Tail(q)
        <5>1. Holders(on[m])' = Holders(i)' /\ Holders(on[m]) = Holders(i)
          BY <1>5, <3>1 DEF Holders
        <5> QED
          BY <1>6, <1>7, <1>8, <2>2, <5>1
      <4>2. n + 1 \in DOMAIN q /\ q[n + 1] = Tail(q)[n]
        BY <1>4, <4>1
      <4> QED
        BY <1>2, <4>1, <4>2
    <3>2. CASE on[m] # i
      <4>1. k \in Holders(on[m]) /\ k # l /\ k \in Lookups
        BY <1>5, <1>8, <2>2, <3>2 DEF Holders
      <4> QED
        BY <1>6, <2>2, <4>1
    <3> QED
      BY <3>1, <3>2
  <2>3. CASE on[m] = i /\ proc[i] = "up"
    <3>1. note # [op |-> "ask", by |-> m]
      BY DEF Notes
    <3>2. pc[m] = "ask" /\ Tells(note, job[m].file) => note.text \in since[m]
      BY <1>2, <1>3, <1>4, <1>7, <2>1, <2>3 DEF LookupOK
    <3> QED
      BY <1>3, <1>5, <1>6, <1>14, <2>1, <2>2, <2>3, <3>1, <3>2, LookupBehind
  <2>4. CASE on[m] # i \/ proc[i] # "up"
    <3>1. pc[m] \in {"ask", "await"} => out'[on[m]] = out[on[m]]
      BY <1>5, <2>4, AtWork
    <3>2. /\ pc'[m] = pc[m] /\ on'[m] = on[m] /\ job'[m] = job[m] /\ answer'[m] = answer[m]
          /\ since[m] \subseteq since'[m] /\ proc'[on[m]] = proc[on[m]]
          /\ copy'[on[m]] = copy[on[m]]
      BY <1>5, <1>6, <1>14
    <3> QED
      BY <2>1, <2>2, <3>1, <3>2, LookupAside
  <2> QED
    BY <2>3, <2>4
<1> QED
  BY <1>11, <1>12, <1>13, <1>14 DEF TextInv


\* Queue r tells what queue q tells, and where: it may differ in requests, or be longer.
Untold(q, r) ==
  /\ Len(q) \in Nat /\ Len(r) \in Nat /\ Len(q) <= Len(r)
  /\ \A k \in 1 .. Len(r) : \A f : Tells(r[k], f) => k <= Len(q)
  /\ \A k \in 1 .. Len(q) : \A f : /\ Tells(r[k], f) <=> Tells(q[k], f)
                                   /\ Tells(q[k], f) => r[k].text = q[k].text

LEMMA ReadsUntold ==
  ASSUME NEW q, NEW r, Untold(q, r), NEW had, NEW f, NEW t
  PROVE  /\ Reads(had, r, Len(r), f, t) <=> Reads(had, q, Len(q), f, t)
         /\ \A n \in 0 .. Len(q) : Reads(had, r, n, f, t) <=> Reads(had, q, n, f, t)
<1>1. ASSUME NEW n \in 0 .. Len(q) PROVE Reads(had, r, n, f, t) <=> Reads(had, q, n, f, t)
  <2>1. n \in Nat /\ \A k \in 1 .. n : k \in 1 .. Len(q)
    BY DEF Untold
  <2>2. \A k \in 1 .. n : /\ Tells(r[k], f) <=> Tells(q[k], f)
                          /\ Tells(q[k], f) => r[k].text = q[k].text
    BY <2>1 DEF Untold
  <2> QED
    BY <2>1, <2>2, ReadsPrefix
<1>2. Reads(had, r, Len(r), f, t) <=> Reads(had, r, Len(q), f, t)
  <2>1. /\ Len(q) \in Nat /\ Len(r) \in Nat /\ Len(q) <= Len(r)
        /\ \A k \in 1 .. Len(r) : Tells(r[k], f) => k \in 1 .. Len(q)
    BY DEF Untold
  <2>2. /\ \A k \in 1 .. Len(q) : k \in 1 .. Len(r)
        /\ \A k \in 1 .. Len(q) : \A j \in (k + 1) .. Len(q) : j \in (k + 1) .. Len(r)
        /\ \A k \in 1 .. Len(q) : \A j \in (k + 1) .. Len(r) :
             j \in 1 .. Len(r) /\ (j \in 1 .. Len(q) => j \in (k + 1) .. Len(q))
    BY <2>1
  <2> QED
    BY <2>1, <2>2 DEF Reads
<1>3. Len(q) \in 0 .. Len(q)
  BY DEF Untold
<1> QED
  BY <1>1, <1>2, <1>3

\* A server to which nothing is told.
LEMMA ServerUntold ==
  ASSUME NEW i \in Servers, ServerOK(i), Holders(i)' = Holders(i), proc[i] # "none",
         Untold(out[i], out'[i]),
         known'[i] = known[i], proc'[i] = proc[i], copy'[i] = copy[i],
         \A l \in Holders(i) : msgs'[l] = msgs[l] /\ job'[l] = job[l]
  PROVE  ServerOK(i)'
<1>1. /\ Distinct(known[i])' /\ proc'[i] # "none"
      /\ \A l, m \in Holders(i)' : l = m
      /\ \A l \in Holders(i)' : \E n \in DOMAIN known'[i] : known'[i][n] = Mine(l)'
  BY DEF ServerOK, Distinct, Mine
<1>2. ASSUME NEW had, NEW f, NEW r, InStep(known[i], had, out[i], r, f)
      PROVE  InStep(known[i], had, out'[i], r, f)
  BY <1>2, ReadsUntold DEF InStep
<1>3. proc'[i] = "up" => \A f \in Files :
        /\ Holders(i)' = {} => InStep(known'[i], copy'[i][f], out'[i], <<>>, f)
        /\ \A l \in Holders(i)' : InStep(known'[i], copy'[i][f], out'[i], msgs'[l], f)
  BY <1>2 DEF ServerOK
<1> QED
  BY <1>1, <1>3 DEF ServerOK, InStep, Knows, Reads, Tells

\* A lookup to whose server nothing is told.
LEMMA LookupUntold ==
  ASSUME NEW l \in Lookups, LookupOK(l), pc'[l] = pc[l], on'[l] = on[l], job'[l] = job[l],
         answer'[l] = answer[l], since'[l] = since[l],
         proc'[on[l]] = proc[on[l]], copy'[on[l]] = copy[on[l]],
         DOMAIN out[on[l]] = 1 .. Len(out[on[l]]),
         Untold(out[on[l]], out'[on[l]]), Holders(on[l])' = Holders(on[l]),
         \A m \in Holders(on[l]) : msgs'[m] = msgs[m],
         \A n \in DOMAIN out'[on[l]] : out'[on[l]][n] = [op |-> "ask", by |-> l] =>
           n \in DOMAIN out[on[l]] /\ out[on[l]][n] = out'[on[l]][n]
  PROVE  LookupOK(l)'
<1> DEFINE q == out[on[l]]
           f == job[l].file
<1>1. PICK r : r = out'[on[l]]
  OBVIOUS
<1>2. Len(q) \in Nat
  BY DEF Untold
<1>3. /\ pc'[l] # "answered" => answer'[l] = "none"
      /\ answer'[l] # "none" => answer'[l] \in since'[l]
      /\ pc'[l] = "send" => job'[l].text \in since'[l]
  BY DEF LookupOK
<1>4. ASSUME NEW n \in 0 .. Len(q), FreshAt(l, n) PROVE FreshAt(l, n)'
  <2>1. \A t \in AnyText : Reads(copy[on[l]][f], r, n, f, t) => t \in since[l]
    BY <1>1, <1>4, ReadsUntold DEF FreshAt
  <2> QED
    BY <1>1, <2>1, FreshNext
<1>5. ASSUME FreshAt(l, Len(q)) PROVE FreshAt(l, Len(out[on[l]]))'
  <2>1. PICK len : len = Len(r)
    OBVIOUS
  <2>2. \A t \in AnyText : Reads(copy[on[l]][f], r, len, f, t) => t \in since[l]
    BY <1>1, <1>5, <2>1, ReadsUntold DEF FreshAt
  <2>3. FreshAt(l, len)'
    BY <1>1, <2>2, FreshNext
  <2>4. Len(out'[on'[l]]) = len
    BY <1>1, <2>1
  <2> QED
    BY <2>3, <2>4 DEF FreshAt, Reads, Tells
<1>6. ASSUME pc'[l] = "ask", proc'[on'[l]] = "up"
      PROVE  /\ FreshAt(l, Len(out[on[l]]))'
             /\ \A m \in Holders(on[l])' : \A n \in DOMAIN msgs'[m] :
                  Tells(msgs'[m][n], job'[l].file) => msgs'[m][n].text \in since'[l]
  <2>1. FreshAt(l, Len(q))
    BY <1>6 DEF LookupOK
  <2>2. FreshAt(l, Len(out[on[l]]))'
    BY <1>5, <2>1
  <2> QED
    BY <1>6, <2>2 DEF LookupOK
<1>7. ASSUME pc'[l] = "await", proc'[on'[l]] = "up", NEW n \in DOMAIN out'[on'[l]],
             out'[on'[l]][n] = [op |-> "ask", by |-> l]
      PROVE  FreshAt(l, n - 1)'
  <2>1. n \in 1 .. Len(q) /\ q[n] = [op |-> "ask", by |-> l]
    BY <1>7
  <2>2. FreshAt(l, n - 1) /\ n - 1 \in 0 .. Len(q)
    BY <1>2, <1>7, <2>1 DEF LookupOK
  <2> QED
    BY <1>4, <2>2
<1> QED
  BY <1>3, <1>6, <1>7 DEF LookupOK, FreshAt, Reads, Tells, Holders


\* A request is queued behind what its lookup and others told the server.
LEMMA AskText ==
  ASSUME TypeOK, InPlace, TextInv, Histories', NEW l \in Lookups, Ask(l),
         Queued(on[l], [op |-> "ask", by |-> l]), Goto(l, "await"), UNCHANGED lookups
  PROVE  TextInv'
<1> DEFINE mine == [op |-> "ask", by |-> l]
<1>1. PICK i \in Servers : i = on[l] /\ proc[i] # "none"
  BY AtWork DEF Ask
<1>2. PICK q \in Seq(Messages) : q = out[i]
  BY DEF TypeOK
<1>3. /\ DOMAIN q = 1 .. Len(q) /\ Len(q) \in Nat
      /\ mine \in Messages /\ \A f : ~Tells(mine, f)
      /\ Append(q, mine) \in Seq(Messages)
      /\ DOMAIN Append(q, mine) = 1 .. (Len(q) + 1) /\ Len(Append(q, mine)) = Len(q) + 1
      /\ \A n \in 1 .. Len(q) : Append(q, mine)[n] = q[n]
      /\ Append(q, mine)[Len(q) + 1] = mine
  <2>1. mine \in Messages /\ \A f : ~Tells(mine, f)
    BY DEF Messages, Tells
  <2> HIDE DEF mine
  <2> QED
    BY <2>1, QueueIndices
<1> HIDE DEF mine
<1>4. /\ pc[l] = "ask" /\ l \in Threads
      /\ pc' = [pc EXCEPT ![l] = "await"]
      /\ out'[i] = IF proc[i] = "up" THEN Append(q, mine) ELSE q
      /\ \A j \in Servers : j # i => out'[j] = out[j]
      /\ UNCHANGED <<proc, copy, known, on, job, msgs, answer, since>>
  BY <1>1, <1>2 DEF Ask, Queued, Goto, TypeOK, Threads, lookups, mine
<1>5. pc'[l] = "await" /\ \A m \in Lookups : m # l => pc'[m] = pc[m]
  BY <1>4 DEF TypeOK, Threads
<1>6. \A j : Holders(j)' = Holders(j) /\ l \notin Holders(j)
  BY <1>4, <1>5 DEF Holders
<1>7. Untold(q, out'[i])
  <2>1. Untold(q, Append(q, mine))
    <3>1. \A k \in 1 .. (Len(q) + 1) : k \in 1 .. Len(q) \/ k = Len(q) + 1
      BY <1>3
    <3>2. \A k \in 1 .. Len(Append(q, mine)) : \A f : Tells(Append(q, mine)[k], f) => k <= Len(q)
      BY <1>3, <3>1
    <3> QED
      BY <1>3, <3>2 DEF Untold
  <2>2. Untold(q, q)
    BY <1>3 DEF Untold
  <2> QED
    BY <1>4, <2>1, <2>2
<1>8. ServerOK(i)'
  <2>1. ServerOK(i) /\ Untold(out[i], out'[i])
    BY <1>2, <1>7 DEF TextInv
  <2> QED
    BY <1>1, <1>4, <1>6, <2>1, ServerUntold
<1>9. ASSUME NEW j \in Servers, j # i PROVE ServerOK(j)'
  <2>1. ServerOK(j)
    BY DEF TextInv
  <2> QED
    BY <1>4, <1>6, <1>9, <2>1, ServerAside
<1>10. LookupOK(l)'
  <2>1. LookupOK(l) /\ answer[l] = "none"
    BY <1>4 DEF TextInv, LookupOK
  <2>2. ASSUME proc[i] = "up", NEW n \in DOMAIN out'[i], out'[i][n] = mine
        PROVE  FreshAt(l, n - 1)'
    <3>1. n = Len(q) + 1
      <4>1. n \notin DOMAIN q
        <5>1. n \in DOMAIN q => q[n] # mine
          BY <1>1, <1>2, <1>4 DEF InPlace, Awaited, mine
        <5> QED
          BY <1>3, <1>4, <2>2, <5>1
      <4> QED
        BY <1>3, <1>4, <2>2, <4>1
    <3>2. FreshAt(l, Len(q))
      BY <1>1, <1>2, <1>4, <2>1, <2>2 DEF LookupOK
    <3>3. PICK len : len = n - 1
      OBVIOUS
    <3>4. len = Len(q) /\ len \in 0 .. Len(q)
      BY <1>3, <3>1, <3>3
    <3>5. \A t \in AnyText : Reads(copy[i][job[l].file], out'[i], len, job[l].file, t) => t \in since[l]
      BY <1>1, <1>2, <1>7, <3>2, <3>4, ReadsUntold DEF FreshAt
    <3>6. FreshAt(l, len)'
      BY <1>1, <1>4, <3>5, FreshNext
    <3> QED
      BY <3>3, <3>6
  <2> QED
    BY <1>1, <1>4, <1>5, <2>1, <2>2 DEF LookupOK, FreshAt, Reads, Tells, mine
<1>11. ASSUME NEW m \in Lookups, m # l PROVE LookupOK(m)'
  <2>1. LookupOK(m)
    BY DEF TextInv
  <2>2. /\ pc'[m] = pc[m] /\ on'[m] = on[m] /\ job'[m] = job[m] /\ answer'[m] = answer[m]
        /\ since'[m] = since[m] /\ proc'[on[m]] = proc[on[m]]
        /\ copy'[on[m]] = copy[on[m]] /\ \A k \in Holders(on[m]) : msgs'[k] = msgs[k]
    BY <1>4, <1>5, <1>11
  <2>3. CASE on[m] = i
    <3>1. Untold(out[on[m]], out'[on[m]]) /\ DOMAIN out[on[m]] = 1 .. Len(out[on[m]])
      BY <1>2, <1>3, <1>7, <2>3
    <3>2. ASSUME NEW n \in DOMAIN out'[on[m]], out'[on[m]][n] = [op |-> "ask", by |-> m]
          PROVE  n \in DOMAIN out[on[m]] /\ out[on[m]][n] = out'[on[m]][n]
      <4>1. mine # [op |-> "ask", by |-> m]
        BY <1>11 DEF mine
      <4>2. n \in DOMAIN out'[i] /\ out'[i][n] # mine
        BY <2>3, <3>2, <4>1
      <4>3. n \in DOMAIN q /\ q[n] = out'[i][n]
        <5>1. CASE out'[i] = q
          BY <4>2, <5>1
        <5>2. CASE out'[i] = Append(q, mine)
          BY <1>3, <4>2, <5>2
        <5> QED
          BY <1>4, <5>1, <5>2
      <4> QED
        BY <1>2, <2>3, <4>3
    <3>3. Holders(on[m])' = Holders(on[m])
      BY <1>4, <1>6 DEF Holders
    <3> QED
      BY <2>1, <2>2, <3>1, <3>2, <3>3, LookupUntold
  <2>4. CASE on[m] # i
    <3>1. pc[m] \in {"ask", "await"} => out'[on[m]] = out[on[m]]
      BY <1>4, <2>4, AtWork
    <3>2. since[m] \subseteq since'[m]
      BY <2>2
    <3>3. ASSUME NEW k \in Holders(on[m])', NEW n \in DOMAIN msgs'[k]
          PROVE  k \in Holders(on[m]) /\ \E a \in DOMAIN msgs[k] : msgs[k][a] = msgs'[k][n]
      BY <1>4, <1>6, <3>3 DEF Holders
    <3> QED
      BY <2>1, <2>2, <3>1, <3>2, <3>3, LookupAside
  <2> QED
    BY <2>3, <2>4
<1> QED
  BY <1>8, <1>9, <1>10, <1>11 DEF TextInv


\* A request is withdrawn, and a cancellation may follow: neither is about a text.
LEMMA AbandonText ==
  ASSUME TypeOK, InPlace, TextInv, Histories', NEW l \in Lookups, Abandon(l)
  PROVE  TextInv'
<1> DEFINE mine   == [op |-> "ask", by |-> l]
           theirs == [op |-> "ask", by |-> Sweeper]
           cancel == [op |-> "cancel"]
<1>1. PICK i \in Servers : i = on[l] /\ proc[i] # "none"
  BY AtWork DEF Abandon
<1>2. PICK q \in Seq(Messages) : q = out[i]
  BY DEF TypeOK
<1>3. PICK rest : rest = [n \in DOMAIN q |-> IF q[n] = mine THEN theirs ELSE q[n]]
  OBVIOUS
<1>4. /\ mine \in Messages /\ theirs \in Messages /\ cancel \in Messages
      /\ \A f : ~Tells(mine, f) /\ ~Tells(theirs, f) /\ ~Tells(cancel, f)
      /\ \A m \in Lookups : theirs # [op |-> "ask", by |-> m] /\ cancel # [op |-> "ask", by |-> m]
  BY LookupAssumption DEF Messages, Tells
<1>5. pc[l] = "await" /\ l \in Threads /\ Done(l)
      /\ UNCHANGED <<proc, copy, known>>
      /\ out' = [out EXCEPT ![i] = IF i \notin exited /\ proc[i] = "up" /\ HasRoom(i)
                                  THEN Append(rest, cancel) ELSE rest]
  BY <1>1, <1>2, <1>3 DEF Abandon, Threads
<1> HIDE DEF mine, theirs, cancel
<1>6. /\ out'[i] = rest \/ out'[i] = Append(rest, cancel)
      /\ \A j \in Servers : j # i => out'[j] = out[j]
  BY <1>5 DEF TypeOK
<1>7. /\ DOMAIN q = 1 .. Len(q) /\ Len(q) \in Nat
      /\ rest \in Seq(Messages) /\ DOMAIN rest = 1 .. Len(q) /\ Len(rest) = Len(q)
      /\ \A n \in 1 .. Len(q) : rest[n] = IF q[n] = mine THEN theirs ELSE q[n]
  <2>1. ASSUME NEW S, NEW s \in Seq(S), NEW a, NEW b \in S
        PROVE  /\ [n \in DOMAIN s |-> IF s[n] = a THEN b ELSE s[n]] \in Seq(S)
               /\ Len([n \in DOMAIN s |-> IF s[n] = a THEN b ELSE s[n]]) = Len(s)
    OBVIOUS
  <2>2. rest \in Seq(Messages) /\ Len(rest) = Len(q)
    BY <1>3, <1>4, <2>1
  <2> QED
    BY <1>3, <2>2
<1>8. /\ Append(rest, cancel) \in Seq(Messages)
      /\ DOMAIN Append(rest, cancel) = 1 .. (Len(q) + 1) /\ Len(Append(rest, cancel)) = Len(q) + 1
      /\ \A n \in 1 .. Len(q) : Append(rest, cancel)[n] = rest[n]
      /\ Append(rest, cancel)[Len(q) + 1] = cancel
  BY <1>4, <1>7, QueueIndices
<1>9. Untold(q, out'[i])
  <2>1. Untold(q, rest)
    BY <1>4, <1>7 DEF Untold
  <2>2. Untold(q, Append(rest, cancel))
    <3>1. \A k \in 1 .. (Len(q) + 1) : k \in 1 .. Len(q) \/ k = Len(q) + 1
      BY <1>7
    <3>2. \A k \in 1 .. Len(Append(rest, cancel)) : \A f :
            Tells(Append(rest, cancel)[k], f) => k <= Len(q)
      BY <1>4, <1>7, <1>8, <3>1
    <3> QED
      BY <1>4, <1>7, <1>8, <3>2 DEF Untold
  <2> QED
    BY <1>6, <2>1, <2>2
<1>10. ASSUME NEW m \in Lookups, m # l, NEW n \in DOMAIN out'[i], out'[i][n] = [op |-> "ask", by |-> m]
       PROVE  n \in DOMAIN q /\ q[n] = out'[i][n]
  <2>1. CASE out'[i] = rest
    BY <1>4, <1>7, <1>10, <2>1
  <2>2. CASE out'[i] = Append(rest, cancel)
    <3>1. n # Len(q) + 1 /\ n \in 1 .. Len(q)
      BY <1>4, <1>7, <1>8, <1>10, <2>2
    <3> QED
      BY <1>4, <1>7, <1>8, <1>10, <2>2, <3>1
  <2> QED
    BY <1>6, <2>1, <2>2
<1>11. /\ pc'[l] = "idle" /\ msgs' = msgs
       /\ \A m \in Lookups : m # l => /\ pc'[m] = pc[m] /\ on'[m] = on[m] /\ job'[m] = job[m]
                                      /\ answer'[m] = answer[m] /\ since'[m] = since[m]
  BY <1>5 DEF Done, Goto, TypeOK, Threads, TextInv, Histories
<1>12. \A j : Holders(j)' = Holders(j) /\ l \notin Holders(j)
  BY <1>5, <1>11 DEF Holders
<1>13. \A j : \A m \in Holders(j) : m \in Lookups /\ m # l
  BY <1>12 DEF Holders
<1>14. ServerOK(i)'
  <2>1. ServerOK(i) /\ Untold(out[i], out'[i])
    BY <1>2, <1>9 DEF TextInv
  <2> QED
    BY <1>1, <1>5, <1>11, <1>12, <1>13, <2>1, ServerUntold
<1>15. ASSUME NEW j \in Servers, j # i PROVE ServerOK(j)'
  <2>1. ServerOK(j)
    BY DEF TextInv
  <2> QED
    BY <1>5, <1>6, <1>11, <1>12, <1>13, <1>15, <2>1, ServerAside
<1>16. LookupOK(l)'
  <2>1. answer'[l] = "none"
    BY <1>5 DEF Done, TextInv, Histories
  <2> QED
    BY <1>11, <2>1 DEF LookupOK
<1>17. ASSUME NEW m \in Lookups, m # l PROVE LookupOK(m)'
  <2>1. LookupOK(m)
    BY DEF TextInv
  <2>2. /\ pc'[m] = pc[m] /\ on'[m] = on[m] /\ job'[m] = job[m] /\ answer'[m] = answer[m]
        /\ since'[m] = since[m] /\ proc'[on[m]] = proc[on[m]]
        /\ copy'[on[m]] = copy[on[m]] /\ \A k \in Holders(on[m]) : msgs'[k] = msgs[k]
    BY <1>5, <1>11, <1>17
  <2>3. Holders(on[m])' = Holders(on[m])
    BY <1>12, <2>2 DEF Holders
  <2>4. CASE on[m] = i
    <3>1. Untold(out[on[m]], out'[on[m]]) /\ DOMAIN out[on[m]] = 1 .. Len(out[on[m]])
      BY <1>2, <1>7, <1>9, <2>4
    <3>2. \A n \in DOMAIN out'[on[m]] : out'[on[m]][n] = [op |-> "ask", by |-> m] =>
            n \in DOMAIN out[on[m]] /\ out[on[m]][n] = out'[on[m]][n]
      BY <1>2, <1>10, <1>17, <2>4
    <3> QED
      BY <2>1, <2>2, <2>3, <3>1, <3>2, LookupUntold
  <2>5. CASE on[m] # i
    <3>1. pc[m] \in {"ask", "await"} => out'[on[m]] = out[on[m]]
      BY <1>6, <2>5, AtWork
    <3>2. since[m] \subseteq since'[m]
      BY <2>2
    <3>3. ASSUME NEW k \in Holders(on[m])', NEW n \in DOMAIN msgs'[k]
          PROVE  k \in Holders(on[m]) /\ \E a \in DOMAIN msgs[k] : msgs[k][a] = msgs'[k][n]
      BY <1>11, <2>3, <3>3
    <3> QED
      BY <2>1, <2>2, <3>1, <3>2, <3>3, LookupAside
  <2> QED
    BY <2>4, <2>5
<1> QED
  BY <1>14, <1>15, <1>16, <1>17 DEF TextInv


\* A message is read: what the server will have is the same, and an answer is from a text
\* that was found fresh for its request.
LEMMA ServeText ==
  ASSUME TypeOK, InPlace, TextInv, Histories', NEW i \in Servers, Serve(i)
  PROVE  TextInv'
<1>1. PICK q \in Seq(Messages) : q = out[i] /\ q # <<>> /\ proc[i] = "up"
  BY DEF Serve, TypeOK
<1>2. /\ DOMAIN q = 1 .. Len(q) /\ Len(q) \in Nat \ {0} /\ 1 \in DOMAIN q
      /\ Len(Tail(q)) = Len(q) - 1 /\ DOMAIN Tail(q) = 1 .. (Len(q) - 1)
      /\ \A n \in 1 .. (Len(q) - 1) : Tail(q)[n] = q[n + 1]
      /\ q[1] \in Messages
  BY <1>1
<1>3. /\ out'[i] = Tail(q) /\ \A j \in Servers : j # i => out'[j] = out[j]
      /\ \A j \in Servers : j # i => copy'[j] = copy[j]
      /\ UNCHANGED <<proc, known, on, job, msgs, since>>
  BY <1>1 DEF Serve, TypeOK
<1>4. \A f \in Files : copy'[i][f] = IF Tells(q[1], f) THEN q[1].text ELSE copy[i][f]
  <2>1. CASE /\ q[1].op \in {"open", "change", "close"}
             /\ copy' = [copy EXCEPT ![i][q[1].file] = q[1].text]
    BY <2>1 DEF TypeOK, Tells
  <2>2. CASE q[1].op \in {"ask", "cancel"} /\ copy' = copy
    BY <2>2 DEF Tells
  <2> QED
    BY <1>1, <2>1, <2>2 DEF Serve
<1>5. ASSUME NEW f \in Files, NEW n \in 1 .. Len(q), NEW t
      PROVE  Reads(copy'[i][f], Tail(q), n - 1, f, t) <=> Reads(copy[i][f], q, n, f, t)
  BY <1>1, <1>4, ReadsTail
<1>6. ASSUME NEW l \in Lookups
      PROVE  \/ pc'[l] = pc[l] /\ answer'[l] = answer[l]
             \/ /\ q[1] = [op |-> "ask", by |-> l] /\ pc[l] = "await" /\ on[l] = i
                /\ pc'[l] = "answered" /\ answer'[l] = copy[i][job[l].file]
  <2>1. CASE UNCHANGED <<pc, answer>>
    BY <2>1
  <2>2. CASE /\ q[1].op = "ask" /\ q[1].by \in Lookups
             /\ answer' = [answer EXCEPT ![q[1].by] = copy[i][job[q[1].by].file]]
             /\ Goto(q[1].by, "answered")
    <3>1. q[1] = [op |-> "ask", by |-> q[1].by]
      BY <1>2, <2>2, RequestForm
    <3>2. pc[q[1].by] = "await" /\ on[q[1].by] = i
      BY <1>1, <2>2, HeadAwaited
    <3>3. CASE l = q[1].by
      <4>1. pc'[l] = "answered" /\ answer'[l] = copy[i][job[l].file]
        BY <2>2, <3>3 DEF Goto, TypeOK, Threads, TextInv, Histories
      <4> QED
        BY <3>1, <3>2, <3>3, <4>1
    <3>4. CASE l # q[1].by
      BY <2>2, <3>4 DEF Goto, TypeOK, Threads, TextInv, Histories
    <3> QED
      BY <3>3, <3>4
  <2> QED
    BY <1>1, <2>1, <2>2 DEF Serve
<1>7. \A j : Holders(j)' = Holders(j)
  <2>1. \A l \in Lookups : pc'[l] = "send" <=> pc[l] = "send"
    BY <1>6
  <2> QED
    BY <1>3, <2>1 DEF Holders
<1>8. ServerOK(i)'
  <2>1. ServerOK(i)
    BY DEF TextInv
  <2>2. /\ Distinct(known[i])' /\ proc'[i] # "none"
        /\ \A l, m \in Holders(i)' : l = m
        /\ \A l \in Holders(i)' : \E n \in DOMAIN known'[i] : known'[i][n] = Mine(l)'
    BY <1>1, <1>3, <1>7, <2>1 DEF ServerOK, Distinct, Mine
  <2>3. ASSUME NEW f \in Files, NEW r, InStep(known[i], copy[i][f], q, r, f)
        PROVE  InStep(known[i], copy'[i][f], Tail(q), r, f)
    <3>1. \A s : Reads(copy'[i][f], Tail(q), Len(Tail(q)), f, s) <=> Reads(copy[i][f], q, Len(q), f, s)
      <4>1. Len(q) \in 1 .. Len(q)
        BY <1>2
      <4> QED
        BY <1>2, <1>5, <4>1
    <3> QED
      BY <2>3, <3>1 DEF InStep
  <2>4. ASSUME NEW f \in Files
        PROVE  /\ Holders(i)' = {} => InStep(known'[i], copy'[i][f], out'[i], <<>>, f)
               /\ \A l \in Holders(i)' : InStep(known'[i], copy'[i][f], out'[i], msgs'[l], f)
    BY <1>1, <1>3, <1>7, <2>1, <2>3 DEF ServerOK
  <2> QED
    BY <2>2, <2>4 DEF ServerOK, InStep, Distinct, Knows, Reads, Tells
<1>9. ASSUME NEW j \in Servers, j # i PROVE ServerOK(j)'
  <2>1. ServerOK(j)
    BY DEF TextInv
  <2> QED
    BY <1>3, <1>7, <1>9, <2>1, ServerAside
<1>10. ASSUME NEW l \in Lookups PROVE LookupOK(l)'
  <2>1. LookupOK(l) /\ job[l].file \in Files
    BY DEF TextInv, TypeOK, Jobs
  <2>2. CASE /\ q[1] = [op |-> "ask", by |-> l] /\ pc[l] = "await" /\ on[l] = i
             /\ pc'[l] = "answered" /\ answer'[l] = copy[i][job[l].file]
    <3>1. FreshAt(l, 0)
      <4>1. FreshAt(l, 1 - 1)
        BY <1>1, <1>2, <2>1, <2>2 DEF LookupOK
      <4> QED
        BY <4>1
    <3>2. copy[i][job[l].file] \in AnyText
      BY <2>1 DEF TypeOK, AnyText
    <3>3. copy[i][job[l].file] \in since[l]
      BY <2>2, <3>1, <3>2, ReadsNone DEF FreshAt
    <3> QED
      BY <1>3, <2>2, <3>3 DEF LookupOK
  <2>3. CASE pc'[l] = pc[l] /\ answer'[l] = answer[l] /\ on[l] = i
    <3>1. /\ pc'[l] # "answered" => answer'[l] = "none"
          /\ answer'[l] # "none" => answer'[l] \in since'[l]
          /\ pc'[l] = "send" => job'[l].text \in since'[l]
      BY <1>3, <2>1, <2>3 DEF LookupOK
    <3>2. ASSUME NEW n \in 1 .. Len(q), FreshAt(l, n) PROVE FreshAt(l, n - 1)'
      <4>1. PICK at : at = n - 1
        OBVIOUS
      <4>2. \A t \in AnyText : Reads(copy'[i][job[l].file], Tail(q), at, job[l].file, t) => t \in since[l]
        BY <1>1, <1>5, <2>1, <2>3, <3>2, <4>1 DEF FreshAt
      <4>3. FreshAt(l, at)'
        BY <1>3, <2>3, <4>2, FreshNext
      <4> QED
        BY <4>1, <4>3
    <3>3. ASSUME pc'[l] = "ask"
          PROVE  /\ FreshAt(l, Len(out[on[l]]))'
                 /\ \A m \in Holders(on[l])' : \A n \in DOMAIN msgs'[m] :
                      Tells(msgs'[m][n], job'[l].file) => msgs'[m][n].text \in since'[l]
      <4>1. FreshAt(l, Len(q)) /\ Len(q) \in 1 .. Len(q)
        BY <1>1, <1>2, <2>1, <2>3, <3>3 DEF LookupOK
      <4>2. PICK len : len = Len(q)
        OBVIOUS
      <4>3. FreshAt(l, len - 1)'
        BY <3>2, <4>1, <4>2
      <4>4. Len(out'[on'[l]]) = len - 1
        BY <1>2, <1>3, <2>3, <4>2
      <4>5. FreshAt(l, Len(out[on[l]]))'
        BY <4>3, <4>4 DEF FreshAt, Reads, Tells
      <4>6. Holders(on[l])' = Holders(on[l])
        BY <1>3, <1>7 DEF Holders
      <4> QED
        BY <1>1, <1>3, <2>1, <2>3, <3>3, <4>5, <4>6 DEF LookupOK
    <3>4. ASSUME pc'[l] = "await", NEW n \in DOMAIN out'[i], out'[i][n] = [op |-> "ask", by |-> l]
          PROVE  FreshAt(l, n - 1)'
      <4>1. n \in 1 .. Len(q) /\ n + 1 \in DOMAIN q /\ q[n + 1] = [op |-> "ask", by |-> l]
        BY <1>2, <1>3, <3>4
      <4>2. FreshAt(l, (n + 1) - 1) /\ (n + 1) - 1 = n
        BY <1>1, <2>1, <2>3, <3>4, <4>1 DEF LookupOK
      <4> QED
        BY <3>2, <4>1, <4>2
    <3> QED
      BY <1>3, <2>3, <3>1, <3>3, <3>4 DEF LookupOK, FreshAt, Reads, Tells, Holders
  <2>4. CASE pc'[l] = pc[l] /\ answer'[l] = answer[l] /\ on[l] # i
    <3>1. pc[l] \in {"ask", "await"} => out'[on[l]] = out[on[l]] /\ copy'[on[l]] = copy[on[l]]
      BY <1>3, <2>4, AtWork
    <3>2. ASSUME NEW k \in Holders(on[l])', NEW n \in DOMAIN msgs'[k]
          PROVE  k \in Holders(on[l]) /\ \E a \in DOMAIN msgs[k] : msgs[k][a] = msgs'[k][n]
      BY <1>3, <1>7, <3>2 DEF Holders
    <3>3. /\ pc'[l] = pc[l] /\ on'[l] = on[l] /\ job'[l] = job[l] /\ answer'[l] = answer[l]
          /\ since[l] \subseteq since'[l] /\ proc'[on[l]] = proc[on[l]]
      BY <1>3, <2>4
    <3> QED
      BY <2>1, <3>1, <3>2, <3>3, LookupAside
  <2> QED
    BY <1>6, <2>2, <2>3, <2>4
<1> QED
  BY <1>8, <1>9, <1>10 DEF TextInv

-----------------------------------------------------------------------------
(* The invariant, and what it shows.                                       *)

LEMMA InitText == Init => TextInv
<1> SUFFICES ASSUME Init PROVE TextInv
  OBVIOUS
<1>1. Lookups \subseteq Threads /\ DOMAIN <<>> = {}
  BY DEF Threads
<1>2. \A i : Holders(i) = {}
  BY <1>1 DEF Init, Holders
<1>3. ASSUME NEW i \in Servers PROVE ServerOK(i)
  <2>1. known[i] = <<>> /\ out[i] = <<>> /\ copy[i] = Closing /\ proc[i] = "none"
    BY DEF Init
  <2> QED
    BY <1>1, <1>2, <2>1 DEF ServerOK, Distinct
<1>4. ASSUME NEW l \in Lookups PROVE LookupOK(l)
  BY <1>1, <1>4 DEF Init, LookupOK
<1>5. Histories
  BY DEF Init, Histories
<1> QED
  BY <1>3, <1>4, <1>5 DEF TextInv

\* Between a server's entry and its copies there is nothing but what is still to be sent and
\* read, whatever lookups, evictions, stalls and deaths come between (sync, enqueue).
THEOREM TextInvariant == Spec => []TextInv
<1>1. IInv /\ TextInv /\ [Next]_vars => TextInv'
  <2> SUFFICES ASSUME TypeOK, InPlace, TextInv, [Next]_vars PROVE TextInv'
    BY DEF IInv, ManagerOK
  <2>1. Histories'
    BY HistoryStep DEF TextInv
  <2> QED
    BY <2>1, CalmSteps, CalmText, SyncText, NotifyText, AskText, AbandonText, ServeText
<1> QED
  BY <1>1, InitText, ManagerInvariant, PTL DEF Spec

\* What the manager believes a server has open is what the server will have (sync).
THEOREM EntriesTrue == Spec => []KnownIsSynced
<1>1. TextInv => KnownIsSynced
  <2> SUFFICES ASSUME TextInv, NEW i \in Servers, proc[i] = "up", ~Locked(i), NEW f \in Files
               PROVE  \E t \in Texts \cup {Shut} :
                        Knows(known[i], f, t) /\ Reads(copy[i][f], out[i], Len(out[i]), f, t)
    BY DEF KnownIsSynced
  <2>1. Holders(i) = {} /\ ServerOK(i)
    BY DEF Locked, Holders, TextInv
  <2>2. PICK s, t \in AnyText :
          /\ Reads(copy[i][f], out[i], Len(out[i]), f, s) /\ Reads(s, <<>>, Len(<<>>), f, t)
          /\ Knows(known[i], f, t)
    BY <2>1 DEF ServerOK, InStep
  <2>3. s = t
    BY <2>2, ReadsNone
  <2> QED
    BY <2>2, <2>3 DEF AnyText
<1> QED
  BY <1>1, TextInvariant, PTL

\* No lookup is answered from a text older than its own (find, definition).
THEOREM AnswersFresh == Spec => []FreshAnswer
<1>1. TextInv => FreshAnswer
  BY DEF TextInv, LookupOK, FreshAnswer
<1> QED
  BY <1>1, TextInvariant, PTL
=============================================================================
