------------------------------ MODULE TreeSync ------------------------------
(***************************************************************************)
(* One device's sync attempts over directories: the scan, the fetch of the *)
(* server's tree node by node, the three-way merge that descends where     *)
(* both sides changed a directory, the copies and the files written on the *)
(* way, and the commit (crates/quarkdrive-core/src/sync.rs, scan.rs,       *)
(* tree.rs, merge.rs).                                                     *)
(*                                                                         *)
(* SyncDevices follows several devices, the cache and a user who works     *)
(* during an attempt; here they are one flat level.  This module has the   *)
(* levels and the kinds, and a user who works between attempts.  Another   *)
(* device may commit at any time and the client may be killed at any time. *)
(* Symlinks, excluded names and a rescan of the saved copies are left out. *)
(***************************************************************************)
EXTENDS ThreeWayMerge, VaultTree, FiniteSets

CONSTANTS
    TreePath,       \* the paths that users touch
    MaxStamp,       \* bound: changes made by users, here and there
    MaxTreeKills    \* bound: times the client is killed

\* A file's node is its writer and its mtime.
TreeFile == [by : {"here", "there"}, mtime : 1 .. MaxStamp]

\* What Version makes of a path that is there.
TreeVersion == [id    : UNION {[S -> TreeFile \cup {DirNode}] :
                                  S \in SUBSET {Tail2(p, q) : p \in TreePath, q \in TreePath}},
                mtime : 0 .. MaxStamp]

ASSUME TreeSyncAssumption ==
    /\ {MaxStamp, MaxTreeKills} \subseteq Nat
    /\ TreePath \subseteq Seq(STRING) /\ \A p \in TreePath : p # <<>> /\ Parents(p) \subseteq TreePath
    /\ DirNode \notin TreeFile /\ NoNode \notin TreeVersion

VARIABLES
    dbase,    \* last_root
    disk,     \* the directory being synced
    head,     \* the tree of the server's head
    objects,  \* the nodes in the local store
    tpc,      \* "idle", "fetch", "merge" or "commit"
    scanned,  \* the attempt: the tree scan_tree made
    seen,     \* the attempt: the tree of the head it read
    stack,    \* paths of nodes that fetch_tree has still to visit
    copying,  \* conflicts whose loser has to be saved
    placing,  \* paths where the disk has to be brought into line
    kept,     \* the conflict copies
    stamp, tkills,
    mine,     \* history: files this user made, not yet committed
    torn,     \* history: killed with a directory stored and not all below it
    mixed     \* history: the loser of a conflict was a directory

treeVars == <<dbase, disk, head, objects, tpc, scanned, seen, stack, copying, placing, kept,
              stamp, tkills, mine, torn, mixed>>

TreeInit ==
    /\ dbase = EmptyTree /\ disk = EmptyTree /\ head = EmptyTree
    /\ scanned = EmptyTree /\ seen = EmptyTree
    /\ objects = {EmptyDir} /\ tpc = "idle"
    /\ stack = {} /\ copying = {} /\ placing = {} /\ kept = {} /\ mine = {}
    /\ stamp = 0 /\ tkills = 0 /\ torn = FALSE /\ mixed = FALSE

Nodes(t) == {t[p] : p \in Files(t)}

-----------------------------------------------------------------------------
(***************************************************************************)
(* Users.                                                                  *)
(***************************************************************************)
Changed(t, by) ==
    {With(t, p, FileNode([by |-> by, mtime |-> stamp + 1])) : p \in {q \in TreePath : MayHold(t, q)}}
    \cup {With(t, p, EmptyDir) : p \in {q \in TreePath : MayHold(t, q) /\ ~Has(t, q)}}
    \cup {Without(t, p) : p \in DOMAIN t}

EditHere == \E t \in Changed(disk, "here") :
    /\ tpc = "idle" /\ stamp < MaxStamp /\ stamp' = stamp + 1
    /\ disk' = t
    /\ mine' = (mine \cap Nodes(t)) \cup (Nodes(t) \ Nodes(disk))
    /\ UNCHANGED <<dbase, head, objects, tpc, scanned, seen, stack, copying, placing, kept, tkills, torn, mixed>>

CommitThere == \E t \in Changed(head, "there") :
    /\ stamp < MaxStamp /\ stamp' = stamp + 1
    /\ head' = t
    /\ UNCHANGED <<dbase, disk, objects, tpc, scanned, seen, stack, copying, placing, kept, tkills, mine, torn, mixed>>

-----------------------------------------------------------------------------
\* The object of the node at a path; the root's is at <<>>.
Id(t, p) == IF p = <<>> THEN [q \in DOMAIN t \cup {<<>>} |-> IF q = <<>> THEN DirNode ELSE t[q]]
            ELSE NodeAt(t, p)

Ids(t) == {Id(t, p) : p \in DOMAIN t \cup {<<>>}}

\* scan_tree and head().
StartAttempt ==
    /\ tpc = "idle" /\ tpc' = "fetch"
    /\ scanned' = disk /\ objects' = objects \cup Ids(disk)
    /\ seen' = head /\ stack' = {<<>>}
    /\ UNCHANGED <<dbase, disk, head, copying, placing, kept, stamp, tkills, mine, torn, mixed>>

\* A fetch that takes the root's listing for the whole.
ToVisitRootOnly(p) == {}

\* What a directory just stored adds to the stack.
ToVisit(p) == Children(seen, p)

\* fetch_tree: a node already there is not looked into.
FetchNode == \E p \in stack :
    /\ tpc = "fetch"
    /\ IF Id(seen, p) \in objects
       THEN stack' = stack \ {p} /\ UNCHANGED objects
       ELSE stack' = (stack \ {p}) \cup ToVisit(p) /\ objects' = objects \cup {Id(seen, p)}
    /\ UNCHANGED <<dbase, disk, head, tpc, scanned, seen, copying, placing, kept, stamp, tkills, mine, torn, mixed>>

-----------------------------------------------------------------------------
(***************************************************************************)
(* The merge.                                                              *)
(***************************************************************************)
\* The mtime of a reference to a directory is 0.
Mtime(node) == IF node = DirNode THEN 0 ELSE node.mtime

Version(t, p) == IF Has(t, p) THEN [id |-> NodeAt(t, p), mtime |-> Mtime(t[p])] ELSE NoNode

Decision(p) == MergeEntry(Version(dbase, p), Version(scanned, p), Version(seen, p))

\* merge_entry calls merge_dir: both sides have a directory there, and changed it.
Descends(p) ==
    /\ p \in TreePath /\ IsDir(scanned, p) /\ IsDir(seen, p)
    /\ Decision(p) \in {KeepBoth, TakeBoth}

\* Where one decision settles everything at and below a path.
Settles(p) == (\A a \in Parents(p) : Descends(a)) /\ ~Descends(p)

\* take_remote at the path or above.
FromRemote(p) == \E a \in Parents(p) \cup {p} : Settles(a) /\ Decision(a) \in {Take, TakeBoth}

\* What merge_dir returns.
Merged == [p \in {q \in DOMAIN scanned \cup DOMAIN seen :
                    IF FromRemote(q) THEN Has(seen, q) ELSE Has(scanned, q)} |->
            IF FromRemote(p) THEN seen[p] ELSE scanned[p]]

Conflicts == {p \in DOMAIN scanned \cap DOMAIN seen : Settles(p) /\ Decision(p) \in {KeepBoth, TakeBoth}}

\* A materialize_dir that writes what the server lists and removes nothing.
OutOfLineNoPrune == {p \in DOMAIN seen : FromRemote(p) /\ (Has(scanned, p) => scanned[p] # seen[p])}
                    \cup {p \in DOMAIN scanned \ DOMAIN seen : Settles(p) /\ FromRemote(p)}

\* "Anything present locally that the remote directory does not list is removed."
OutOfLine == {p \in DOMAIN scanned \cup DOMAIN seen : FromRemote(p)
                /\ (Has(scanned, p) /\ Has(seen, p) => scanned[p] # seen[p])}

\* Nodes of the server's tree that were not fetched stop the attempt.
Missing(p) == Id(seen, p) \notin objects

StartMerge ==
    /\ tpc = "fetch" /\ stack = {}
    /\ IF \E p \in {q \in DOMAIN seen : Descends(q)} \cup {<<>>} : Missing(p)
       THEN tpc' = "idle" /\ UNCHANGED <<copying, placing>>
       ELSE tpc' = "merge" /\ copying' = Conflicts /\ placing' = OutOfLine
    /\ UNCHANGED <<dbase, disk, head, objects, scanned, seen, stack, kept, stamp, tkills, mine, torn, mixed>>

Loser(p) == IF Decision(p) = KeepBoth THEN seen[p] ELSE scanned[p]

\* A save_conflict_copy for the server's versions alone.
SavedRemoteOnly(p) == IF Loser(p) = DirNode \/ Decision(p) = TakeBoth THEN {} ELSE {Loser(p)}

\* save_conflict_copy returns at once when the loser is no file.
Saved(p) == IF Loser(p) = DirNode THEN {} ELSE {Loser(p)}

SaveConflictCopy == \E p \in copying :
    /\ tpc = "merge"
    /\ kept' = kept \cup Saved(p) /\ copying' = copying \ {p}
    /\ mixed' = (mixed \/ Loser(p) = DirNode)
    /\ UNCHANGED <<dbase, disk, head, objects, tpc, scanned, seen, stack, placing, stamp, tkills, mine, torn>>

\* remove_local, and what materialize_dir finds that the server does not list.
RemoveLocal(p) == Without(disk, p)

\* materialize_dir: a directory stays as it is, anything else makes way for one.
MaterializeDir(p) == IF IsDir(disk, p) THEN disk ELSE With(disk, p, EmptyDir)

\* materialize_file: the file, whatever kind was there.
MaterializeFile(p) == With(disk, p, FileNode(seen[p]))

\* The disk is brought into line at one path, parents first and after the copy
\* of what is there.
Place == \E p \in placing :
    /\ tpc = "merge"
    /\ \A q \in copying : ~Above(q, p)
    /\ \A q \in placing : Above(q, p) => q = p
    /\ IF Has(seen, p) /\ Missing(p)
       THEN tpc' = "idle" /\ copying' = {} /\ placing' = {} /\ UNCHANGED disk
       ELSE /\ placing' = placing \ {p} /\ UNCHANGED <<tpc, copying>>
            /\ disk' = IF ~Has(seen, p) THEN RemoveLocal(p)
                       ELSE IF IsFile(seen, p) THEN MaterializeFile(p) ELSE MaterializeDir(p)
    /\ UNCHANGED <<dbase, head, objects, scanned, seen, stack, kept, stamp, tkills, mine, torn, mixed>>

FinishMerge ==
    /\ tpc = "merge" /\ copying = {} /\ placing = {}
    /\ tpc' = "commit" /\ objects' = objects \cup Ids(Merged)
    /\ UNCHANGED <<dbase, disk, head, scanned, seen, stack, copying, placing, kept, stamp, tkills, mine, torn, mixed>>

\* Nothing to push, an accepted commit, or a conflict, after which the next
\* attempt starts again.
EndAttempt ==
    /\ tpc = "commit" /\ tpc' = "idle"
    /\ IF Merged = seen \/ head = seen
       THEN /\ dbase' = Merged /\ mine' = {}
            /\ head' = IF Merged = seen THEN head ELSE Merged
       ELSE UNCHANGED <<dbase, head, mine>>
    /\ UNCHANGED <<disk, objects, scanned, seen, stack, copying, placing, kept, stamp, tkills, torn, mixed>>

KillClient ==
    /\ tpc # "idle" /\ tkills < MaxTreeKills
    /\ tkills' = tkills + 1 /\ tpc' = "idle"
    /\ stack' = {} /\ copying' = {} /\ placing' = {}
    /\ torn' = (torn \/ \E p \in stack : Missing(p))
    /\ UNCHANGED <<dbase, disk, head, objects, scanned, seen, kept, stamp, mine, mixed>>

Attempt == StartAttempt \/ FetchNode \/ StartMerge \/ SaveConflictCopy \/ Place \/ FinishMerge \/ EndAttempt

TreeNext == Attempt \/ EditHere \/ CommitThere \/ KillClient

TreeSpec == TreeInit /\ [][TreeNext]_treeVars

\* Attempt is fair: qd watch tries again for ever.

-----------------------------------------------------------------------------
(***************************************************************************)
(* qd status.                                                              *)
(***************************************************************************)
\* A diff that stops at a new directory.
AddedTops(o, n) == {p \in DOMAIN n \ DOMAIN o : \A a \in Parents(p) : Has(o, a)}

\* emit_added and emit_removed list all that is below; a path that changed kind
\* is listed alone.
Added(o, n) == {p \in DOMAIN n \ DOMAIN o : \A a \in Parents(p) : Has(o, a) => o[a] = DirNode}
Removed(o, n) == Added(n, o)
Modified(o, n) == {p \in DOMAIN o \cap DOMAIN n : o[p] # n[p]}

-----------------------------------------------------------------------------
TreeTypeOK ==
    /\ \A t \in {dbase, disk, head, scanned, seen} : WellFormed(t) /\ DOMAIN t \subseteq TreePath
    /\ tpc \in {"idle", "fetch", "merge", "commit"}
    /\ stack \subseteq TreePath \cup {<<>>}
    /\ copying \cup placing \subseteq TreePath
    /\ mine \cup kept \subseteq TreeFile
    /\ stamp \in 0 .. MaxStamp /\ tkills \in 0 .. MaxTreeKills
    /\ {torn, mixed} \subseteq BOOLEAN

\* When an attempt is about to commit, the disk holds exactly the tree it commits:
\* the writes and removals done along the merge, level by level and whatever kind
\* was there before, add up to what merge_dir returned.  If not, the next scan
\* takes the difference for the user's work.
DiskIsWhatIsCommitted == tpc = "commit" => disk = Merged

\* "The loser is preserved next to the winner so a sync never silently destroys
\* work": a file the user made stays on the disk or in a copy until it is
\* committed, and a file that came from the server since the base is in the tree
\* that is committed or in a copy.
NothingDestroyed ==
    /\ mine \subseteq Nodes(disk) \cup kept
    /\ tpc = "commit" => \A p \in Files(seen) :
            \/ Has(dbase, p) /\ dbase[p] = seen[p]
            \/ seen[p] \in Nodes(Merged) \cup kept

\* The same, as long as no conflict was one of a file with a directory.
NothingDestroyedOfAKind == ~mixed => NothingDestroyed

\* What qd status lists is enough to get from the base to the disk: paths it does
\* not list, nor anything above them, are the same in both.
StatusReproduces ==
    LET changed == {p \in TreePath : \E a \in Parents(p) \cup {p} : a \in Modified(dbase, disk)}
    IN  /\ DOMAIN disk = ((DOMAIN dbase \ Removed(dbase, disk)) \ changed)
                         \cup Added(dbase, disk) \cup (changed \cap DOMAIN disk)
        /\ \A p \in DOMAIN disk \ (changed \cup Added(dbase, disk)) : disk[p] = dbase[p]

\* Once users pause, the disk and the server come to the same tree and stay so,
\* unless a kill left a directory in the store without what is below it.
TreesMeet == (<>torn) \/ <>[](disk = head /\ dbase = head)

=============================================================================
