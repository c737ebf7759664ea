------------------------------ MODULE MCDesktop ------------------------------
EXTENDS Desktop, TLC

Pref(dir, auto, keep) == [dir |-> dir, auto |-> auto, keep |-> keep]
Holding(main, wal) == [is |-> "whole", main |-> main, wal |-> wal]
Only(dir, one) == [d \in Dirs |-> IF d = dir THEN one ELSE NoDb]

MCRecords == {<<1, "r">>, <<2, "w">>}

\* A first launch, and a launch on a vault left with one record in its log.
MCStarts ==
  { [file |-> None, db |-> [d \in Dirs |-> NoDb]],
    [file |-> Pref("a", TRUE, 1), db |-> Only("a", Holding({}, {<<1, "r">>}))] }

\* What no step and no property of the run reads any more is left out: what an
\* export has and has seen, and what an opening saw whose checkpoint failed.
Kept(opening) == [opening EXCEPT !.seen = IF opening.folded THEN @ ELSE {}, !.folded = FALSE]

Read(state) ==
  IF state.at \in {"written", "synced"} THEN [state EXCEPT !.has = {}, !.seen = {}]
  ELSE IF state.at \in {"snapshot", "snapping"} THEN Kept(state)
  ELSE state

View ==
  <<disk, memory, [t \in Threads |-> Read(thread[t])], target, promised,
    IF launched = None THEN None ELSE Kept(launched)>>

Symmetry == Permutations(Pickers) \cup Permutations(Menus)
=============================================================================
