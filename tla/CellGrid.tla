------------------------------ MODULE CellGrid ------------------------------
(***************************************************************************)
(* The values the terminal stream carries and the operations on a passive  *)
(* cell replica (crates/client/src/store.rs, CellGrid) and on the delta    *)
(* the daemon builds for it (crates/terminal-core/src/snapshot.rs).        *)
(*                                                                         *)
(* A row's content is abstracted to the number of the engine write that    *)
(* last changed it, so two rows are equal exactly when no write separates  *)
(* them.  Rows is a function from row indices; Absent marks an index past  *)
(* the end of a screen, or one a delta does not carry.  Columns, cursor,   *)
(* modes and scrollback are left out: a delta carries the cursor and modes *)
(* whole, and a column patch is bounded the same way a row is.             *)
(***************************************************************************)
EXTENDS Naturals

CONSTANT Sizes      \* the numbers of rows a PTY is ever sized to

ASSUME SizesAssumption == Sizes \subseteq Nat \ {0} /\ Sizes # {}

Row     == UNION {1..n : n \in Sizes}
Absent  == 0
Patches == [Row -> Nat]

\* The indices at which rows has content.
Present(rows) == {r \in Row : rows[r] # Absent}

(***************************************************************************)
(* One record shape for everything that travels or is kept: a wire message *)
(* (kind "delta", "resync", "ack", "ok", "err" or "note"), a replica       *)
(* ("grid") and the absence of one ("nil").                                *)
(***************************************************************************)
Kinds == {"delta", "resync", "ack", "ok", "err", "note", "grid", "nil"}
Items == [kind : Kinds, seq : Nat, rows : Patches]

Item(kind, seq, rows) == [kind |-> kind, seq |-> seq, rows |-> rows]

NoRows == [r \in Row |-> Absent]
Nil    == Item("nil", 0, NoRows)
Note   == Item("note", 0, NoRows)
Ok     == Item("ok", 0, NoRows)
Err    == Item("err", 0, NoRows)

(***************************************************************************)
(* DeltaBuilder::delta -- the damaged rows, with the content they have now *)
(* and not the content they had when they were damaged.                    *)
(***************************************************************************)
Delta(seq, screen, damage) ==
  Item("delta", seq, [r \in Row |-> IF r \in damage THEN screen[r] ELSE Absent])

\* engine.snapshot, stamped with the last emitted sequence number.
Snapshot(kind, seq, screen) == Item(kind, seq, screen)

(***************************************************************************)
(* CellGrid::apply_delta: what becomes of a delta at a replica.            *)
(***************************************************************************)
DeltaOutcome(grid, delta) ==
  IF delta.seq <= grid.seq THEN "Stale"
  ELSE IF delta.seq > grid.seq + 1 THEN "NeedsResync"
  ELSE IF ~ (Present(delta.rows) \subseteq Present(grid.rows)) THEN "NeedsResync"
  ELSE "Applied"

\* Mutant: the last visible row is out of bounds.
PatchedShort(grid, delta) ==
  Item("grid", delta.seq,
       [r \in Row |->
          IF r \in Present(delta.rows) /\ \E q \in Present(grid.rows) : q > r
          THEN delta.rows[r] ELSE grid.rows[r]])

\* The damaged rows overwrite the visible ones by index; the rest, and the
\* number of rows, stay.
Patched(grid, delta) ==
  Item("grid", delta.seq,
       [r \in Row |->
          IF r \in Present(delta.rows) THEN delta.rows[r] ELSE grid.rows[r]])

\* CellGrid::from_snapshot and CellGrid::apply_resync: replace the grid.
FromSnapshot(snapshot) == Item("grid", snapshot.seq, snapshot.rows)
=============================================================================
