---------------------------- MODULE ThreeWayMerge ----------------------------
(***************************************************************************)
(* The decision the sync engine takes for one path whose three versions    *)
(* are not all directories: crates/quarkdrive-core/src/sync.rs,            *)
(* merge_entry and resolve_conflict.                                       *)
(*                                                                         *)
(* A version is a node or NoNode.  Nodes are content addressed: two nodes  *)
(* are equal exactly when the code's ObjectIds are, so one comparison of   *)
(* nodes stands for one comparison of ids.  Of what a node holds only its  *)
(* whole-second mtime is read here.                                        *)
(***************************************************************************)
EXTENDS Integers

CONSTANT NoNode      \* the path is absent on that side (Option::None)

Keep       == "keep"         \* the local version stays, nothing is written
Take       == "take"         \* the remote version is materialised
KeepBoth   == "keepBoth"     \* local wins, the remote loser is written beside it
TakeBoth   == "takeBoth"     \* remote wins, the local loser is copied beside it

Decisions == {Keep, Take, KeepBoth, TakeBoth}

\* Last write wins; a tie goes to the local side.
LocalWins(l, r) == l.mtime >= r.mtime

\* What a bug in the order of the tests would do: the deletion is honoured
\* although the other side edited the path.
MergeEntryDeleteWins(b, l, r) ==
    CASE l = r                       -> Keep
      [] l # r /\ b = l              -> Take
      [] l # r /\ b # l /\ b = r     -> Keep
      [] l # r /\ b # l /\ b # r     ->
            IF r = NoNode THEN Take
            ELSE IF l = NoNode THEN Keep
            ELSE IF LocalWins(l, r) THEN KeepBoth ELSE TakeBoth

\* What forgetting the base would do: whoever merges last imposes its version.
MergeEntryNoBase(b, l, r) ==
    IF l = r \/ r = NoNode \/ b = r THEN Keep
    ELSE IF l = NoNode THEN Take
    ELSE IF LocalWins(l, r) THEN KeepBoth ELSE TakeBoth

\* What skipping save_conflict_copy would do.
MergeEntryNoCopy(b, l, r) ==
    IF l = r THEN Keep
    ELSE IF b = l THEN Take
    ELSE IF b = r \/ r = NoNode THEN Keep
    ELSE IF l = NoNode THEN Take
    ELSE IF LocalWins(l, r) THEN Keep ELSE Take

\* merge_entry: identical sides need no decision; a side equal to the base
\* did not move; an edit beats a deletion; two edits are settled by mtime.
MergeEntry(b, l, r) ==
    CASE l = r                       -> Keep
      [] l # r /\ b = l              -> Take
      [] l # r /\ b # l /\ b = r     -> Keep
      [] l # r /\ b # l /\ b # r     ->
            IF r = NoNode THEN Keep
            ELSE IF l = NoNode THEN Take
            ELSE IF LocalWins(l, r) THEN KeepBoth ELSE TakeBoth

\* The version that enters the merged tree.
MergedNode(b, l, r) ==
    IF MergeEntry(b, l, r) \in {Keep, KeepBoth} THEN l ELSE r

=============================================================================
