----------------------------- MODULE SyncDevices -----------------------------
(***************************************************************************)
(* Devices that keep a directory of files in step through one vault:       *)
(* crates/quarkdrive-core/src/sync.rs, scan.rs and index.rs, run by the    *)
(* watch loop of crates/quarkdrive-cli/src/main.rs, against the vault of   *)
(* transport.rs whose commit compares the head and replaces it in one      *)
(* step.                                                                   *)
(*                                                                         *)
(* One directory level is modelled; TreeSync has the nested directories.   *)
(* A tree is a function from Path to a node or NoNode, and a disk is one   *)
(* too: the file at a path is named by the node that chunking it would     *)
(* give.  Two stat signatures are equal exactly when these nodes are: an   *)
(* edit changes the size, the mtime or the inode.                          *)
(***************************************************************************)
EXTENDS Sequences, FiniteSets, ThreeWayMerge

CONSTANTS
    Devices,        \* the clients of one vault
    Path,           \* every path of the synced directory
    Names,          \* those the users edit; the others are conflict copies
    Times,          \* whole seconds, of file mtimes and of now_secs()
    ConflictPath(_, _, _),  \* "<name>.conflict-<device>-<time>"
    MaxAttempts,    \* MAX_ATTEMPTS of sync.rs
    MaxEdits,       \* bound: edits and deletions the users make
    MaxFaults,      \* bound: syncs that fail or are killed part way
    MaxEvents,      \* bound: the two together
    QuietSyncs,     \* TRUE: no user touches a device while it syncs
    NoEntry         \* the cache holds nothing for a path

ASSUME PathAssumption ==
    /\ Names \subseteq Path
    /\ \A p \in Path, d \in Devices, s \in Times : ConflictPath(p, d, s) \in Path
ASSUME TimesAssumption == Times \subseteq Int /\ Times # {}
ASSUME BoundsAssumption ==
    /\ MaxAttempts \in Nat \ {0}
    /\ MaxEdits \in Nat
    /\ MaxFaults \in Nat
    /\ MaxEvents \in Nat
    /\ QuietSyncs \in BOOLEAN

\* What a user wrote in the i-th edit; what was there before the first one;
\* the remains of a torn write.
Torn     == 0
Original == -1
Content  == {Original, Torn} \cup 1 .. MaxEdits
Node    == [content : Content, mtime : Times]
ASSUME NoNodeAssumption  == NoNode \notin Node
ASSUME NoEntryAssumption == NoEntry \notin [sig : Node, node : Node]

Tree      == [Path -> Node \cup {NoNode}]
EmptyTree == [p \in Path |-> NoNode]

VARIABLES
    log,        \* the trees of the accepted commits, oldest first
    disk,       \* disk[d]: the files on device d
    cache,      \* cache[d]: FileCache, per path a stat signature and a node
    base,       \* base[d]: the cache's last_root
    pc,         \* pc[d]: where Syncer::attempt is
    attempt,    \* attempt[d]: the loop counter of Syncer::sync
    seen,       \* seen[d]: length of log when attempt read the head
    local,      \* local[d]: what scan_tree returned
    todo,       \* todo[d]: the names merge_dir has still to visit
    merged      \* merged[d]: the entries merge_dir has inserted so far

\* History, read by properties and by the bounds only.
VARIABLES
    edits,      \* how many edits and deletions the users have made
    wanted,     \* contents users wrote and none, having them at hand, has
                \* replaced or deleted since
    touched,    \* touched[d]: paths a user changed since base[d] was recorded
    faults      \* how many syncs have failed

transient == <<pc, attempt, seen, local, todo, merged>>
aux       == <<edits, wanted, touched, faults>>
vars      == <<log, disk, cache, base, transient, aux>>

-----------------------------------------------------------------------------
\* The tree of the i-th commit; before the first commit the vault is empty.
TreeAt(i) == IF i = 0 THEN EmptyTree ELSE log[i]
HeadTree  == TreeAt(Len(log))

Present(t)   == {p \in Path : t[p] # NoNode}
ContentOf(t) == {t[p].content : p \in Present(t)}

\* The in-memory state of a device that is not syncing.
Rest(d) ==
    /\ pc'      = [pc      EXCEPT ![d] = "idle"]
    /\ attempt' = [attempt EXCEPT ![d] = 0]
    /\ seen'    = [seen    EXCEPT ![d] = 0]
    /\ local'   = [local   EXCEPT ![d] = EmptyTree]
    /\ todo'    = [todo    EXCEPT ![d] = {}]
    /\ merged'  = [merged  EXCEPT ![d] = EmptyTree]

\* What the devices may have agreed on before: nothing yet, or one commit
\* holding some of the names.
FirstTrees ==
    LET first == {NoNode} \cup [content : {Original}, mtime : Times]
    IN  {[p \in Path |-> IF p \in Names THEN f[p] ELSE NoNode] : f \in [Names -> first]}

CacheOf(files, tree) == [p \in Path |->
    IF tree[p] = NoNode \/ files[p] = NoNode THEN NoEntry
    ELSE [sig |-> files[p], node |-> tree[p]]]

Init == \E t \in FirstTrees :
    /\ log = IF t = EmptyTree THEN <<>> ELSE <<t>>
    /\ disk    = [d \in Devices |-> t]
    /\ cache   = [d \in Devices |-> CacheOf(t, t)]
    /\ base    = [d \in Devices |-> t]
    /\ pc      = [d \in Devices |-> "idle"]
    /\ attempt = [d \in Devices |-> 0]
    /\ seen    = [d \in Devices |-> 0]
    /\ local   = [d \in Devices |-> EmptyTree]
    /\ todo    = [d \in Devices |-> {}]
    /\ merged  = [d \in Devices |-> EmptyTree]
    /\ edits = 0 /\ wanted = ContentOf(t) /\ faults = 0
    /\ touched = [d \in Devices |-> {}]

-----------------------------------------------------------------------------
(***************************************************************************)
(* The users.  They have what a path held before them, and no longer want  *)
(* it once they replace or delete it.  An mtime may be any time: clocks  *)
(* differ between devices and a copied file keeps its old mtime.           *)
(***************************************************************************)
UserMayAct(d) ==
    /\ edits < MaxEdits /\ edits + faults < MaxEvents
    /\ QuietSyncs => pc[d] = "idle"

UserTouches(d, p, new) ==
    LET old == IF disk[d][p] = NoNode THEN {} ELSE {disk[d][p].content} IN
    /\ edits' = edits + 1
    /\ wanted' = (wanted \ old) \cup new
    /\ touched' = [touched EXCEPT ![d] = @ \cup {p}]
    /\ UNCHANGED <<log, cache, base, transient, faults>>

Edit(d) == \E p \in Names, t \in Times :
    /\ UserMayAct(d)
    /\ disk' = [disk EXCEPT ![d][p] = [content |-> edits + 1, mtime |-> t]]
    /\ UserTouches(d, p, {edits + 1})

Delete(d) == \E p \in Path :
    /\ UserMayAct(d)
    /\ disk[d][p] # NoNode
    /\ disk' = [disk EXCEPT ![d][p] = NoNode]
    /\ UserTouches(d, p, {})

-----------------------------------------------------------------------------
\* scan_file: a path whose signature still matches reuses the cached node.
ScanPath(d, p) ==
    IF disk[d][p] # NoNode /\ cache[d][p] # NoEntry /\ cache[d][p].sig = disk[d][p]
    THEN cache[d][p].node
    ELSE disk[d][p]

\* sync() starts, or starts its next attempt: scan_tree and last_root.
Scan(d) ==
    /\ pc[d] \in {"idle", "retry"}
    /\ local'   = [local EXCEPT ![d] = [p \in Path |-> ScanPath(d, p)]]
    /\ attempt' = [attempt EXCEPT ![d] = @ + 1]
    /\ pc'      = [pc EXCEPT ![d] = "scanned"]
    /\ UNCHANGED <<log, disk, cache, base, seen, todo, merged, aux>>

\* transport.head() and fetch_tree; merge_dir then lists the union of names.
FetchHead(d) ==
    /\ pc[d] = "scanned"
    /\ seen' = [seen EXCEPT ![d] = Len(log)]
    /\ todo' = [todo EXCEPT ![d] =
                    Present(base[d]) \cup Present(local[d]) \cup Present(HeadTree)]
    /\ merged' = [merged EXCEPT ![d] = EmptyTree]
    /\ pc' = [pc EXCEPT ![d] = "merging"]
    /\ UNCHANGED <<log, disk, cache, base, attempt, local, aux>>

-----------------------------------------------------------------------------
\* Has a conflict copy of this name ever existed?  Within one second the same
\* device would reuse the name; the model gives every copy a fresh one.
Unused(q) ==
    /\ \A d \in Devices : disk[d][q] = NoNode /\ local[d][q] = NoNode
    /\ \A i \in 1 .. Len(log) : log[i][q] = NoNode

\* save_conflict_copy: the loser's content, with the time of writing as mtime.
SaveCopy(t, d, p, content) ==
    {[t EXCEPT ![ConflictPath(p, d, now)] = [content |-> content, mtime |-> now]] :
        now \in {s \in Times : Unused(ConflictPath(p, d, s))}}

\* The disks on which the loser of a decision is safe.  A local loser is
\* copied from the disk, so one that vanished since the scan leaves no copy.
WithLoserSaved(d, p, what) ==
    CASE what = KeepBoth -> SaveCopy(disk[d], d, p, TreeAt(seen[d])[p].content)
      [] what = TakeBoth /\ disk[d][p] # NoNode
                         -> SaveCopy(disk[d], d, p, disk[d][p].content)
      [] OTHER           -> {disk[d]}

Decide(d, p) == MergeEntry(base[d][p], local[d][p], TreeAt(seen[d])[p])
Takes(what)  == what \in {Take, TakeBoth}

\* What forgetting set_file_mtime would leave: the file is as new as the sync.
MaterialisedNow(r) == IF r = NoNode THEN r ELSE [r EXCEPT !.mtime = CHOOSE s \in Times : s # r.mtime]

\* materialize: the file is written with the node's own mtime, or removed.
Materialised(r) == r

\* merge_entry for one name: save the loser, then materialize or remove_local.
MergePath(d) == \E p \in todo[d] :
    LET r == TreeAt(seen[d])[p]
        what == Decide(d, p)
    IN  /\ pc[d] = "merging"
        /\ \E t \in WithLoserSaved(d, p, what) :
              disk' = [disk EXCEPT ![d] = IF Takes(what) THEN [t EXCEPT ![p] = Materialised(r)] ELSE t]
        /\ merged' = [merged EXCEPT ![d][p] = IF Takes(what) THEN r ELSE local[d][p]]
        /\ todo' = [todo EXCEPT ![d] = @ \ {p}]
        /\ UNCHANGED <<log, cache, base, pc, attempt, seen, local, aux>>

\* The merge took the server's tree as it is: there is nothing to push.
Settle(d) ==
    /\ pc[d] = "merging" /\ todo[d] = {}
    /\ merged[d] = TreeAt(seen[d])
    /\ pc' = [pc EXCEPT ![d] = "caching"]
    /\ UNCHANGED <<log, disk, cache, base, attempt, seen, local, todo, merged, aux>>

\* What a server without the comparison of heads would accept.
HeadUnmovedUnchecked(d) == TRUE

\* The comparison the vault makes: the head named by the commit is the head.
HeadUnmoved(d) == seen[d] = Len(log)

\* upload_tree, then a commit the vault accepts.
CommitAccepted(d) ==
    /\ pc[d] = "merging" /\ todo[d] = {}
    /\ merged[d] # TreeAt(seen[d])
    /\ HeadUnmoved(d)
    /\ log' = Append(log, merged[d])
    /\ pc' = [pc EXCEPT ![d] = "caching"]
    /\ UNCHANGED <<disk, cache, base, attempt, seen, local, todo, merged, aux>>

\* A loop that compares with <= where the code's range ends.
OneAttemptTooMany(d) == attempt[d] <= MaxAttempts

MayRetry(d) == attempt[d] < MaxAttempts

\* A sync that takes the conflict answer for an acceptance.
CommitConflictIgnored(d) ==
    /\ pc[d] = "merging" /\ todo[d] = {}
    /\ merged[d] # TreeAt(seen[d])
    /\ ~HeadUnmoved(d)
    /\ pc' = [pc EXCEPT ![d] = "caching"]
    /\ UNCHANGED <<log, disk, cache, base, attempt, seen, local, todo, merged, aux>>

\* The head moved: the next attempt re-merges, or sync() gives up uncommitted.
CommitConflict(d) ==
    /\ pc[d] = "merging" /\ todo[d] = {}
    /\ merged[d] # TreeAt(seen[d])
    /\ ~HeadUnmoved(d)
    /\ IF MayRetry(d)
       THEN /\ pc' = [pc EXCEPT ![d] = "retry"]
            /\ local' = [local EXCEPT ![d] = EmptyTree]
            /\ merged' = [merged EXCEPT ![d] = EmptyTree]
            /\ seen' = [seen EXCEPT ![d] = 0]
            /\ UNCHANGED <<attempt, todo>>
       ELSE Rest(d)
    /\ UNCHANGED <<log, disk, cache, base, aux>>

\* A rebuild from the scanned tree instead of the agreed one.
AgreedTreeStale(d) == local[d]

AgreedTree(d) == merged[d]

\* rebuild_cache, first transaction: replace_all with each file's stat as it
\* is now, against the node the merged tree has for it.
RebuildCache(d) ==
    /\ pc[d] = "caching"
    /\ cache' = [cache EXCEPT ![d] = CacheOf(disk[d], AgreedTree(d))]
    /\ pc' = [pc EXCEPT ![d] = "finishing"]
    /\ UNCHANGED <<log, disk, base, attempt, seen, local, todo, merged, aux>>

\* rebuild_cache, second transaction: set_last_root; sync() returns.
SetLastRoot(d) ==
    /\ pc[d] = "finishing"
    /\ base' = [base EXCEPT ![d] = AgreedTree(d)]
    /\ touched' = [touched EXCEPT ![d] = {}]
    /\ Rest(d)
    /\ UNCHANGED <<log, disk, cache, edits, wanted, faults>>

-----------------------------------------------------------------------------
(***************************************************************************)
(* Failures.  An error returned by any `?` of attempt() and a killed       *)
(* process leave the same thing behind: the disk, the cache and last_root. *)
(***************************************************************************)
Fault ==
    /\ faults < MaxFaults /\ edits + faults < MaxEvents
    /\ faults' = faults + 1

Abort(d) ==
    /\ Fault
    /\ pc[d] # "idle"
    /\ Rest(d)
    /\ UNCHANGED <<log, disk, cache, base, edits, wanted, touched>>

\* The sync dies inside merge_entry: the loser's copy is there, the winner is
\* not, or is a truncated file (std::fs::write does not replace atomically).
AbortInMerge(d) == \E p \in todo[d] :
    LET what == Decide(d, p)
    IN  /\ Fault
        /\ pc[d] = "merging"
        /\ \E t \in WithLoserSaved(d, p, what) :
              \/ disk' = [disk EXCEPT ![d] = t]
              \/ /\ Takes(what) /\ TreeAt(seen[d])[p] # NoNode
                 /\ \E s \in Times : disk' =
                       [disk EXCEPT ![d] = [t EXCEPT ![p] = [content |-> Torn, mtime |-> s]]]
        /\ Rest(d)
        /\ UNCHANGED <<log, cache, base, edits, wanted, touched>>

\* The vault accepts the commit but its answer never arrives.
CommitUnanswered(d) ==
    /\ Fault
    /\ pc[d] = "merging" /\ todo[d] = {}
    /\ merged[d] # TreeAt(seen[d])
    /\ HeadUnmoved(d)
    /\ log' = Append(log, merged[d])
    /\ Rest(d)
    /\ UNCHANGED <<disk, cache, base, edits, wanted, touched>>

-----------------------------------------------------------------------------
SyncStep(d) ==
    \/ Scan(d) \/ FetchHead(d) \/ MergePath(d) \/ Settle(d)
    \/ CommitAccepted(d) \/ CommitConflict(d)
    \/ RebuildCache(d) \/ SetLastRoot(d)

Next == \E d \in Devices :
    \/ Edit(d) \/ Delete(d)
    \/ SyncStep(d)
    \/ Abort(d) \/ AbortInMerge(d) \/ CommitUnanswered(d)

Spec == Init /\ [][Next]_vars

\* The watch loop calls sync() for ever, whatever the last one returned.
FairSpec == Spec /\ \A d \in Devices : WF_vars(SyncStep(d))

-----------------------------------------------------------------------------
\* Every variable has its type; pc names a step of Syncer::attempt.
TypeOK ==
    /\ log \in Seq(Tree)
    /\ disk \in [Devices -> Tree]
    /\ cache \in [Devices -> [Path -> [sig : Node, node : Node] \cup {NoEntry}]]
    /\ base \in [Devices -> Tree]
    /\ pc \in [Devices -> {"idle", "retry", "scanned", "merging", "caching", "finishing"}]
    /\ attempt \in [Devices -> 0 .. MaxAttempts]
    /\ seen \in [Devices -> Nat]
    /\ \A d \in Devices : seen[d] <= Len(log)
    /\ local \in [Devices -> Tree]
    /\ todo \in [Devices -> SUBSET Path]
    /\ merged \in [Devices -> Tree]
    /\ edits \in 0 .. MaxEdits
    /\ wanted \in SUBSET Content
    /\ touched \in [Devices -> SUBSET Path]
    /\ faults \in 0 .. MaxFaults

\* What a user wrote and no user has since replaced or deleted is still a file
\* of some device or of the vault's newest tree, whatever was merged, lost or
\* interrupted on the way (README: "A losing edit is never discarded").
EditsSurvive ==
    \A v \in wanted :
        \/ \E d \in Devices : v \in ContentOf(disk[d])
        \/ v \in ContentOf(HeadTree)

\* A signature that still matches yields the node chunking the file would give
\* (index.rs: the cache is a pure optimisation, never correctness).
CacheHonest ==
    \A d \in Devices, p \in Path :
        cache[d][p] # NoEntry /\ cache[d][p].sig = disk[d][p]
            => cache[d][p].node = disk[d][p]

\* The base of the next merge is a tree the vault has accepted, so "unchanged
\* since the base" always means unchanged since a commit everybody can see.
BaseWasCommitted ==
    \A d \in Devices : \E i \in 0 .. Len(log) : base[d] = TreeAt(i)

\* The log grows by the commit of the one device that leaves the merge with it.
Commits(d) == log' # log /\ pc[d] = "merging" /\ pc'[d] # "merging"

\* A commit differs from the head it replaces only at paths the committing
\* device had changed since its base: it never puts back an old version of a
\* path that it merely had not heard about.
CommitRespectsHead ==
    log' # log => \E d \in Devices : Commits(d) /\ \A p \in Path :
        log'[Len(log')][p] # HeadTree[p] => local[d][p] # base[d][p]
CommitNeverReverts == [][CommitRespectsHead]_vars

\* What the vault sees of the devices: a head each has read, until its commit
\* is answered or it starts over.
Log == INSTANCE VaultLog WITH Clients <- Devices, None <- -1,
          seen <- [d \in Devices |-> IF pc[d] = "merging" THEN seen[d] ELSE -1]

\* The devices ask no more of a vault than VaultLog promises its clients: every
\* tree that is added is the push of a device that has read the head it goes
\* on, and after a commit, a conflict, an error or a lost answer none pushes
\* before it reads again (sync.rs:147-215).
KeepsTheLog == Log!ClientSpec

\* README, conflict table: "unchanged | changed | take the server's version".
\* A commit leaves alone every path no user of its device has touched since
\* the last completed sync, conflict copies apart.
UntouchedTakesServer ==
    [][log' # log => \E d \in Devices : Commits(d) /\ \A p \in Names :
            log'[Len(log')][p] # HeadTree[p] => p \in touched[d]]_vars

\* Once the users pause, every device comes to hold the vault's newest tree,
\* with no sync left half done (DESIGN: "converge instead of clobbering").
Agreed == \A d \in Devices : disk[d] = HeadTree /\ base[d] = HeadTree
Converges == <>[]Agreed

-----------------------------------------------------------------------------
(***************************************************************************)
(* The inductive invariant behind the theorems of SyncDevicesProofs.       *)
(***************************************************************************)
\* A sync that may start another attempt has one left.
AttemptsCounted == \A d \in Devices :
    /\ pc[d] = "idle"  => attempt[d] = 0
    /\ pc[d] = "retry" => attempt[d] < MaxAttempts

\* The entries merged so far are those the decision table gives.
MergedSoFar == \A d \in Devices : pc[d] = "merging" =>
    \A p \in Path \ todo[d] :
        merged[d][p] = MergedNode(base[d][p], local[d][p], TreeAt(seen[d])[p])

\* A tree that is being recorded as agreed is one the vault accepted.
AgreedWasCommitted == \A d \in Devices : pc[d] \in {"caching", "finishing"} =>
    \E i \in 0 .. Len(log) : merged[d] = TreeAt(i)

\* While no user interferes, what the scan found is still on the disk when its
\* turn to be merged comes, and what was merged is there when it is recorded.
ScannedOnDisk == QuietSyncs => \A d \in Devices, p \in Path :
    /\ pc[d] = "scanned" \/ (pc[d] = "merging" /\ p \in todo[d])
    /\ local[d][p] # NoNode
    => disk[d][p] = local[d][p]

MergedOnDisk == QuietSyncs => \A d \in Devices, p \in Path :
    /\ pc[d] \in {"merging", "caching", "finishing"}
    /\ merged[d][p] # NoNode
    => disk[d][p] = merged[d][p]

CacheExact == QuietSyncs => \A d \in Devices, p \in Path :
    cache[d][p] # NoEntry => cache[d][p].sig = cache[d][p].node

IInv ==
    /\ TypeOK
    /\ AttemptsCounted
    /\ BaseWasCommitted
    /\ AgreedWasCommitted
    /\ MergedSoFar
    /\ ScannedOnDisk
    /\ MergedOnDisk
    /\ CacheExact

=============================================================================
