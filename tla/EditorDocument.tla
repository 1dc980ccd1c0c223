---------------------------- MODULE EditorDocument ----------------------------
(***************************************************************************)
(* One open document of the editor core: its text, its carets, its history *)
(* of undo and redo, and the flag that says whether it is saved            *)
(* (editor-core: document.rs, history.rs, transaction.rs, selection.rs).   *)
(*                                                                         *)
(* The history keeps no text: an entry holds the edits that undo it and    *)
(* the edits that do it again, a run of typing grows its newest entry in   *)
(* place, and a budget drops the oldest ones.  That this still brings back *)
(* every earlier text and its carets is the refinement of EditTimeline.    *)
(*                                                                         *)
(* A text is a sequence of characters and an offset counts them: offsets   *)
(* that split a character are left out.  The numbers that undo and redo    *)
(* take for a moment, the version and the lines an edit touched are not    *)
(* modelled, nor is the goal column of a caret.                            *)
(***************************************************************************)
EXTENDS Naturals, Integers, Sequences, SequencesExt

CONSTANTS Chars,       \* characters
          Start,       \* text the document is loaded with
          Typed,       \* what is inserted: records of the text before the caret, the
                       \* text after it, and the origin
          Carets,      \* what carets are set to: sequences of an anchor and a head
          Strides,     \* how far a deletion reaches from a caret: negative is backwards
          Rewrites,    \* replace-all: pairs of a character and a text
          Reloads,     \* texts other programs write to the file
          MaxLen,      \* MAX_DOCUMENT_BYTES
          MaxCursors,  \* MAX_CURSORS
          MaxEntries,  \* MAX_HISTORY_ENTRIES
          MaxBytes,    \* MAX_HISTORY_BYTES
          MaxEdits     \* bound: edits that are recorded

\* Why an edit is recorded
Origins == {"Input", "Paste", "Replace", "ReplaceAll", "Preview", "Reload"}

ASSUME DocumentAssumption ==
  /\ Start \in Seq(Chars) /\ Len(Start) <= MaxLen /\ Reloads \subseteq Seq(Chars)
  /\ Typed \subseteq [before : Seq(Chars), after : Seq(Chars), origin : Origins]
  /\ Carets \subseteq Seq([anchor : Nat, head : Nat]) \ {<<>>} /\ Strides \subseteq Int
  /\ Rewrites \subseteq Chars \X Seq(Chars)
  /\ MaxLen \in Nat /\ MaxBytes \in Nat /\ MaxEdits \in Nat
  /\ MaxCursors \in Nat \ {0} /\ MaxEntries \in Nat \ {0}

VARIABLES
  text, selection,
  undo, redo,      \* entries of the history, newest last
  retained,        \* bytes the history counts
  sealed,          \* the next edit starts an entry of its own
  readOnly,
  state,           \* names the content, restored by undo and redo
  nextState,
  savedState,
  \* the adapter that saves
  snapshot,        \* what is being written: a state and its text, or none
  savedText        \* history: the text the file was last known to hold

history == <<undo, redo, retained, sealed>>
content == <<text, state, nextState>>
saving  == <<savedState, snapshot, savedText>>
vars    == <<text, selection, history, readOnly, state, nextState, saving>>

NoSnapshot == [state |-> -1, text |-> <<>>]

(***************************************************************************)
(* Selections: carets in the order of the text, none touching another.     *)
(***************************************************************************)

Lower(c) == IF c.anchor <= c.head THEN c.anchor ELSE c.head
Upper(c) == IF c.anchor <= c.head THEN c.head ELSE c.anchor

Caret(at) == [anchor |-> at, head |-> at]

Selected(anchor, head) == [anchor |-> anchor, head |-> head]

One(c) == [cursors |-> <<c>>, primary |-> 1]

\* The indices of ranges, sorted by the two ends of each; ties keep their order.
Order(from, to) ==
  LET upTo(i, j) == from[i] < from[j] \/ (from[i] = from[j] /\ to[i] <= to[j])
      place(order, i) ==
        LET n == CHOOSE n \in 0 .. Len(order) :
                   /\ \A k \in 1 .. n : upTo(order[k], i)
                   /\ \A k \in (n + 1) .. Len(order) : ~upTo(order[k], i)
        IN InsertAt(order, n + 1, i)
      placed[n \in 0 .. Len(from)] == IF n = 0 THEN <<>> ELSE place(placed[n - 1], n)
  IN placed[Len(from)]

\* A sequence of ranges in their order, given where each starts and ends.
Sorted(seq, from, to) ==
  LET order == Order(from, to) IN [k \in DOMAIN seq |-> seq[order[k]]]

\* Mutant: two carets at the same offset stay two.
JoinedOverlapping(merged, c) ==
  IF merged # <<>> /\ Lower(c) < Upper(merged[Len(merged)])
  THEN [merged EXCEPT ![Len(merged)] = [anchor |-> Lower(@), head |-> Upper(c)]]
  ELSE Append(merged, c)

\* Touching carets become one, in the direction of the later one.
Joined(merged, c) ==
  IF merged # <<>> /\ Lower(c) <= Upper(merged[Len(merged)])
  THEN LET last == merged[Len(merged)]
           from == IF Lower(last) < Lower(c) THEN Lower(last) ELSE Lower(c)
           to   == IF Upper(last) > Upper(c) THEN Upper(last) ELSE Upper(c)
       IN [merged EXCEPT ![Len(merged)] =
             IF c.head >= c.anchor THEN [anchor |-> from, head |-> to]
             ELSE [anchor |-> to, head |-> from]]
  ELSE Append(merged, c)

Merged(cursors) ==
  LET merged[n \in 0 .. Len(cursors)] ==
        IF n = 0 THEN <<>> ELSE Joined(merged[n - 1], cursors[n])
  IN merged[Len(cursors)]

\* The first of some indices, or 1.
FirstOf(indices) == IF indices = {} THEN 1 ELSE Min(indices)

\* Selection::many: sorted, merged, capped around the primary, which is followed.
Many(cursors, primary) ==
  LET keep   == cursors[primary]
      merged == Merged(Sorted(cursors, [i \in DOMAIN cursors |-> Lower(cursors[i])],
                                       [i \in DOMAIN cursors |-> Upper(cursors[i])]))
      over   == Len(merged) - MaxCursors
      near   == FirstOf({i \in DOMAIN merged : Lower(merged[i]) >= Lower(keep)})
                - (MaxCursors \div 2)
      first  == IF near < 1 THEN 1 ELSE IF near > over + 1 THEN over + 1 ELSE near
      kept   == IF over > 0 THEN SubSeq(merged, first, first + MaxCursors - 1) ELSE merged
      holds(c) == c.head = keep.head \/ (Lower(c) <= keep.head /\ keep.head < Upper(c))
  IN [cursors |-> kept, primary |-> FirstOf({i \in DOMAIN kept : holds(kept[i])})]

Mapped(sel, F(_)) ==
  Many([i \in DOMAIN sel.cursors |-> F(sel.cursors[i])], sel.primary)

Clamp(at, t) == IF at > Len(t) THEN Len(t) ELSE at

Clamped(sel, t) ==
  Mapped(sel, LAMBDA c : Selected(Clamp(c.anchor, t), Clamp(c.head, t)))

PrimaryHead(sel) == sel.cursors[sel.primary].head

(***************************************************************************)
(* Edits: replacements of ranges of one text, applied together.            *)
(***************************************************************************)

Edit(from, to, insert) == [from |-> from, to |-> to, insert |-> insert]

\* Transaction::new sorts the edits and refuses overlapping ones.
InOrder(edits) ==
  Sorted(edits, [i \in DOMAIN edits |-> edits[i].from], [i \in DOMAIN edits |-> edits[i].to])

Disjoint(edits) ==
  \A i \in 1 .. (Len(edits) - 1) : edits[i].to <= edits[i + 1].from

\* The sum of the first n members, for every n.
Sums(seq) ==
  LET sum[n \in 0 .. Len(seq)] == IF n = 0 THEN 0 ELSE sum[n - 1] + seq[n]
  IN sum

SumOf(seq) == Sums(seq)[Len(seq)]

\* The members at some of the indices.
Chosen(seq, indices) ==
  LET chosen[n \in 0 .. Len(seq)] ==
        IF n = 0 THEN <<>>
        ELSE IF n \in indices THEN Append(chosen[n - 1], seq[n]) ELSE chosen[n - 1]
  IN chosen[Len(seq)]

\* How far the first n edits move what follows them, for every n.
Shifts(edits) == Sums([i \in DOMAIN edits |-> Len(edits[i].insert) - (edits[i].to - edits[i].from)])

\* size_delta
Growth(edits) == Shifts(edits)[Len(edits)]

\* retained_bytes
Weight(edits) == SumOf([i \in DOMAIN edits |-> Len(edits[i].insert) + (edits[i].to - edits[i].from)])

\* The text from one offset to another
Cut(t, from, to) == SubSeq(t, from + 1, to)

\* From the first to the last, each where the ones before it moved it.
Applied(t, edits) ==
  LET shift == Shifts(edits)
      replace(was, e, by) == Cut(was, 0, e.from + by) \o e.insert \o Cut(was, e.to + by, Len(was))
      after[n \in 0 .. Len(edits)] ==
        IF n = 0 THEN t ELSE replace(after[n - 1], edits[n], shift[n - 1])
  IN after[Len(edits)]

\* resume_at: where the last edit ends
Resume(edits, at) ==
  IF edits = <<>> THEN at
  ELSE Last(edits).from + Shifts(edits)[Len(edits) - 1] + Len(Last(edits).insert)

\* Mutant: an edit is undone where it was made, not where the ones before it moved it.
InverseUnshifted(t, edits) ==
  [i \in DOMAIN edits |-> Edit(edits[i].from, edits[i].from + Len(edits[i].insert),
                               Cut(t, edits[i].from, edits[i].to))]

\* inverse_of: what puts back the text the edits displace
InverseOf(t, edits) ==
  LET start(i) == edits[i].from + Shifts(edits)[i - 1]
      edits2   == InOrder([i \in DOMAIN edits |->
                     Edit(start(i), start(i) + Len(edits[i].insert),
                          Cut(t, edits[i].from, edits[i].to))])
  IN IF Disjoint(edits2) THEN edits2 ELSE <<>>

(***************************************************************************)
(* History.  An entry: the edits each way and the selections they leave,   *)
(* the states on both sides, and where the next keystroke may join it.     *)
(***************************************************************************)

\* coalesce: a keystroke that goes on where a run of typing stopped
Coalesces(last, new) ==
  /\ last.origin = "Input" /\ new.origin = "Input"
  /\ Len(new.forth) = 1 /\ Len(new.back) = 1
  /\ new.forth[1].from = new.forth[1].to
  /\ new.forth[1].from = last.resume
  /\ Len(last.back) = 1 /\ Len(last.forth) = 1

\* Mutant: a run that grew still ends in the state of its first key.
GrownSameState(last, new) ==
  LET insert == last.forth[1].insert \o new.forth[1].insert
      from   == last.forth[1].from
  IN [last EXCEPT !.forth[1].insert = insert,
                  !.back[1].from = from, !.back[1].to = from + Len(insert),
                  !.forthSel = new.forthSel,
                  !.resume = new.resume,
                  !.retained = @ + new.retained]

\* The run inserts one thing more, and undoing it removes all of it.
Grown(last, new) ==
  LET insert == last.forth[1].insert \o new.forth[1].insert
      from   == last.forth[1].from
  IN [last EXCEPT !.forth[1].insert = insert,
                  !.back[1].from = from, !.back[1].to = from + Len(insert),
                  !.forthSel = new.forthSel,
                  !.after = new.after,
                  !.resume = new.resume,
                  !.retained = @ + new.retained]

RetainedBy(entries) == SumOf([i \in DOMAIN entries |-> entries[i].retained])

\* trim: drop the oldest entries until the budget holds, the newest never.  bytes is what
\* is retained, which the oldest ones give back.
Trimmed(entries, bytes) ==
  LET left(n)  == bytes - RetainedBy(SubSeq(entries, 1, n))
      count(n) == Len(entries) - n
      enough(n) == count(n) <= MaxEntries /\ (left(n) <= MaxBytes \/ count(n) <= 1)
      n == Min({m \in 0 .. Len(entries) : enough(m)})
  IN [undo |-> SubSeq(entries, n + 1, Len(entries)), retained |-> left(n)]

\* Mutant: what was undone is forgotten but still counted.
RecordCountsRedo(new) ==
  LET joins == ~sealed /\ undo # <<>> /\ Coalesces(Last(undo), new)
      trim  == Trimmed(IF joins THEN Append(Front(undo), Grown(Last(undo), new))
                       ELSE Append(undo, new),
                       retained + new.retained)
  IN /\ undo' = trim.undo
     /\ retained' = trim.retained
     /\ redo' = <<>>

\* History::record
Record(new) ==
  LET kept  == retained - RetainedBy(redo)
      joins == ~sealed /\ undo # <<>> /\ Coalesces(Last(undo), new)
      trim  == Trimmed(IF joins THEN Append(Front(undo), Grown(Last(undo), new))
                       ELSE Append(undo, new),
                       kept + new.retained)
  IN /\ undo' = trim.undo
     /\ retained' = trim.retained
     /\ redo' = <<>>

(***************************************************************************)
(* Editing.                                                                *)
(***************************************************************************)

\* validate, and the order and overlap test of Transaction::new
Valid(edits) ==
  LET ordered == InOrder(edits)
  IN /\ Disjoint(ordered)
     /\ \A i \in DOMAIN ordered : ordered[i].to <= Len(text)
     /\ Len(text) + Growth(ordered) <= MaxLen

\* The end of apply_validated: the carets a transaction names, moved into the text, or
\* where its last edit ends when it names none (<<>>).
Landed(after, edits) ==
  Clamped(IF after = <<>> THEN One(Caret(Resume(edits, PrimaryHead(selection)))) ELSE after[1],
          Applied(text, edits))

\* apply_validated with a record: the text, the carets and the state follow the edits.
Transact(edits, origin, after) ==
  LET ordered == InOrder(edits)
      back    == InverseOf(text, ordered)
  IN /\ nextState <= MaxEdits
     /\ text' = Applied(text, ordered)
     /\ selection' = Landed(after, ordered)
     /\ state' = nextState
     /\ nextState' = nextState + 1
     /\ Record([back |-> back, backSel |-> <<selection>>,
                forth |-> ordered, forthSel |-> after, origin |-> origin,
                before |-> state, after |-> nextState,
                resume |-> Resume(ordered, PrimaryHead(selection)),
                retained |-> Weight(back) + Weight(ordered)])

\* apply_validated without one: undo and redo, back to a state that had a name.
Replay(edits, after, to) ==
  /\ text' = Applied(text, edits)
  /\ selection' = Landed(after, edits)
  /\ state' = to
  /\ sealed' = TRUE
  /\ UNCHANGED <<nextState, retained, readOnly, saving>>

\* insert_around: every caret's range is replaced; the carets land between the two texts
InsertAround(typed) ==
  LET inserted == typed.before \o typed.after
      cursors  == selection.cursors
      edits    == [i \in DOMAIN cursors |-> Edit(Lower(cursors[i]), Upper(cursors[i]), inserted)]
      landed   == [i \in DOMAIN cursors |->
                     Caret(edits[i].from + Shifts(edits)[i - 1] + Len(typed.before))]
  IN /\ ~readOnly
     /\ Valid(edits)
     /\ Transact(edits, typed.origin, <<Many(landed, selection.primary)>>)
     /\ sealed' = FALSE
     /\ UNCHANGED <<readOnly, saving>>

\* What a deletion takes at a caret: its range, or what a stride covers if that is empty.
Taken(c, stride) ==
  LET into == IF c.head + stride < 0 THEN 0 ELSE Clamp(c.head + stride, text)
      over == IF c.anchor = c.head THEN Selected(c.head, into) ELSE c
  IN Edit(Lower(over), Upper(over), <<>>)

\* delete: the empty ranges are no edits, but their carets move with the others.
Delete(stride) ==
  LET cursors == selection.cursors
      ranges  == [i \in DOMAIN cursors |-> Taken(cursors[i], stride)]
      landed  == [i \in DOMAIN cursors |-> Caret(ranges[i].from + Shifts(ranges)[i - 1])]
      edits   == Chosen(ranges, {i \in DOMAIN ranges : ranges[i].from # ranges[i].to})
  IN /\ ~readOnly
     /\ edits # <<>>
     /\ Valid(edits)
     /\ Transact(edits, "Input", <<Many(landed, selection.primary)>>)
     /\ sealed' = FALSE
     /\ UNCHANGED <<readOnly, saving>>

\* replace_all: every match or none, and a step of its own on both sides
ReplaceMatches(char, with) ==
  LET matches == Chosen([i \in DOMAIN text |-> i], {i \in DOMAIN text : text[i] = char})
      edits   == [k \in DOMAIN matches |-> Edit(matches[k] - 1, matches[k], with)]
  IN /\ ~readOnly
     /\ matches # <<>>
     /\ Valid(edits)
     /\ Transact(edits, "ReplaceAll", <<>>)
     /\ sealed' = TRUE
     /\ UNCHANGED <<readOnly, saving>>

\* undo and pop_undo
Undo ==
  /\ ~readOnly
  /\ undo # <<>>
  /\ undo' = Front(undo)
  /\ redo' = Append(redo, Last(undo))
  /\ Replay(Last(undo).back, Last(undo).backSel, Last(undo).before)

\* redo and pop_redo
Redo ==
  /\ ~readOnly
  /\ redo # <<>>
  /\ redo' = Front(redo)
  /\ undo' = Append(undo, Last(redo))
  /\ Replay(Last(redo).forth, Last(redo).forthSel, Last(redo).after)

\* set_selection: a caret that jumped, or one that was added, starts a new step
SetSelection(sel) ==
  LET placed == Clamped(sel, text)
  IN /\ selection' = placed
     /\ sealed' = (\/ sealed
                   \/ PrimaryHead(placed) # PrimaryHead(selection)
                   \/ Len(placed.cursors) # Len(selection.cursors))
     /\ UNCHANGED <<content, undo, redo, retained, readOnly, saving>>

BreakUndoGroup ==
  /\ sealed' = TRUE
  /\ UNCHANGED <<content, selection, undo, redo, retained, readOnly, saving>>

SetReadOnly ==
  /\ readOnly' = ~readOnly
  /\ UNCHANGED <<content, selection, history, saving>>

(***************************************************************************)
(* The file: what is written comes from a snapshot, and what another       *)
(* program wrote replaces the text.                                        *)
(***************************************************************************)

\* The adapter takes what it is going to write.
TakeSnapshot ==
  /\ snapshot = NoSnapshot
  /\ snapshot' = [state |-> state, text |-> text]
  /\ UNCHANGED <<content, selection, history, readOnly, savedState, savedText>>

\* confirm_save: the write is done; a key may have been pressed meanwhile.
ConfirmSave ==
  /\ snapshot # NoSnapshot
  /\ savedState' = snapshot.state
  /\ savedText' = snapshot.text
  /\ snapshot' = NoSnapshot
  /\ UNCHANGED <<content, selection, history, readOnly>>

\* reload_clean: only what differs is replaced, and each caret stays with its text.
ReloadClean(t) ==
  LET shorter == IF Len(text) < Len(t) THEN Len(text) ELSE Len(t)
      start   == Max({n \in 0 .. shorter : Cut(text, 0, n) = Cut(t, 0, n)})
      suffix  == Max({n \in 0 .. (shorter - start) :
                        Cut(text, Len(text) - n, Len(text)) = Cut(t, Len(t) - n, Len(t))})
      oldEnd  == Len(text) - suffix
      newEnd  == Len(t) - suffix
      map(at) == IF at < start THEN at
                 ELSE IF at >= oldEnd THEN newEnd + at - oldEnd
                 ELSE start + (IF at < newEnd THEN at - start ELSE newEnd - start)
      after   == Mapped(selection, LAMBDA c : Selected(map(c.anchor), map(c.head)))
  IN /\ savedState = state
     /\ Len(t) <= MaxLen
     /\ t # text
     /\ Transact(<<Edit(start, oldEnd, Cut(t, start, newEnd))>>, "Reload", <<after>>)
     /\ savedState' = state'
     /\ savedText' = t
     /\ sealed' = FALSE
     /\ UNCHANGED <<readOnly, snapshot>>

\* reload: the whole text, saved or not
Reload(t) ==
  /\ Valid(<<Edit(0, Len(text), t)>>)
  /\ Transact(<<Edit(0, Len(text), t)>>, "Reload", <<One(Caret(Clamp(PrimaryHead(selection), t)))>>)
  /\ savedState' = state'
  /\ savedText' = t
  /\ sealed' = FALSE
  /\ UNCHANGED <<readOnly, snapshot>>

\* reload of a text that does not fit: the run of typing ends all the same.
ReloadRefused(t) ==
  /\ ~Valid(<<Edit(0, Len(text), t)>>)
  /\ BreakUndoGroup

Init ==
  /\ text = Start
  /\ selection = One(Caret(0))
  /\ undo = <<>> /\ redo = <<>> /\ retained = 0 /\ sealed = FALSE
  /\ readOnly = FALSE
  /\ state = 0 /\ nextState = 1 /\ savedState = 0
  /\ snapshot = NoSnapshot
  /\ savedText = Start

Next ==
  \/ \E typed \in Typed : InsertAround(typed)
  \/ \E stride \in Strides : Delete(stride)
  \/ \E r \in Rewrites : ReplaceMatches(r[1], r[2])
  \/ Undo
  \/ Redo
  \/ \E carets \in Carets : \E primary \in DOMAIN carets : SetSelection(Many(carets, primary))
  \/ \E t \in Reloads : ReloadRefused(t)
  \/ BreakUndoGroup
  \/ SetReadOnly
  \/ TakeSnapshot
  \/ ConfirmSave
  \/ \E t \in Reloads : ReloadClean(t)
  \/ \E t \in Reloads : Reload(t)

Spec == Init /\ [][Next]_vars

(***************************************************************************)
(* Properties                                                              *)
(***************************************************************************)

\* Every variable has its type: a text within the limit, carets within the text, entries
\* that name two different states.
TypeOK ==
  /\ text \in Seq(Chars) /\ Len(text) <= MaxLen
  /\ selection.primary \in DOMAIN selection.cursors
  /\ \A i \in DOMAIN selection.cursors :
       selection.cursors[i] \in [anchor : 0 .. Len(text), head : 0 .. Len(text)]
  /\ \A e \in Range(undo \o redo) : e.before \in 0 .. MaxEdits /\ e.after \in (e.before + 1) .. MaxEdits
  /\ retained \in Nat
  /\ sealed \in BOOLEAN /\ readOnly \in BOOLEAN
  /\ nextState \in 1 .. (MaxEdits + 1)
  /\ state \in 0 .. (nextState - 1) /\ savedState \in 0 .. (nextState - 1)
  /\ snapshot = NoSnapshot \/ (snapshot.state \in 0 .. (nextState - 1) /\ snapshot.text \in Seq(Chars))
  /\ savedText \in Seq(Chars)

\* Carets are in the order of the text and no two touch, through every edit, undo and
\* reload: two that do have no defined result for an edit (selection.rs:147, Selection).
CaretsApart ==
  /\ Len(selection.cursors) \in 1 .. MaxCursors
  /\ \A i \in 1 .. (Len(selection.cursors) - 1) :
       Upper(selection.cursors[i]) < Lower(selection.cursors[i + 1])

\* Every edit, undo and reload leaves a text that fits and carets that are in it, apart.
EditorOK == TypeOK /\ CaretsApart

\* A document that says it is saved shows what the file holds, whatever was typed, undone,
\* joined to an entry or reloaded while the file was being written (document.rs, is_dirty
\* and confirm_save).
CleanIsSaved == state = savedState => text = savedText

\* The bytes the history counts are those of its entries, and they are within the budget
\* or one entry is all there is to undo (history.rs, record and trim).
BytesExact ==
  /\ retained = RetainedBy(undo) + RetainedBy(redo)
  /\ Len(undo) + Len(redo) <= MaxEntries
  /\ retained > MaxBytes => Len(undo) + Len(redo) = 1

(***************************************************************************)
(* Refinement: the earlier texts are those the entries lead to.            *)
(***************************************************************************)

\* A text with some of its ranges replaced, said all at once.
Spliced(t, edits) ==
  LET part[i \in 1 .. Len(edits) + 1] ==
        LET from == IF i = 1 THEN 0 ELSE edits[i - 1].to
        IN IF i > Len(edits) THEN Cut(t, from, Len(t))
           ELSE Cut(t, from, edits[i].from) \o edits[i].insert \o part[i + 1]
  IN part[1]

\* Texts that replaying the edits of entries leads to, the nearest last.
Texts(t, changes) ==
  LET reached[n \in 1 .. Len(changes) + 1] ==
        IF n > Len(changes) THEN t ELSE Spliced(reached[n + 1], changes[n])
  IN [n \in DOMAIN changes |-> reached[n]]

\* What undoing leads back to, and what redoing does, with the carets that undoing leaves.
Undoable(t, entries) ==
  LET texts == Texts(t, [n \in DOMAIN entries |-> entries[n].back])
  IN [n \in DOMAIN entries |-> [text |-> texts[n], carets |-> entries[n].backSel[1]]]

Redoable(t, entries) ==
  LET texts == Texts(t, [n \in DOMAIN entries |-> entries[n].forth])
  IN [n \in DOMAIN entries |-> [text |-> texts[n], before |-> entries[n].backSel[1]]]

Timeline ==
  INSTANCE EditTimeline
    WITH carets <- selection, past <- Undoable(text, undo), future <- Redoable(text, redo)

\* Undo and redo walk the line of texts the person saw, carets included, however edits were
\* joined or forgotten (history.rs:1-6: "undo restores content *and* selection").
KeepsTimeline == Timeline!Spec
=============================================================================
