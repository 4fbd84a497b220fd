----------------------------- MODULE VaultServer -----------------------------
(***************************************************************************)
(* One vault of the server: the HEAD file, the snapshots behind it, the    *)
(* object store, the trash table and its garbage collector, and the        *)
(* handlers that share them (crates/quarkdrive-server/src/vault.rs,        *)
(* api.rs, db.rs), with the sequence of requests by which a syncing device *)
(* pushes a tree (crates/quarkdrive-core/src/sync.rs, upload_tree).        *)
(*                                                                         *)
(* Handlers run on several threads and hold no lock across their steps, so *)
(* a step is one access to HEAD or to the trash table; two reads of HEAD   *)
(* are one step when the earlier is used only to refuse.  Objects are      *)
(* content addressed: a file object stands for a file node and its chunks, *)
(* a directory object for a tree, and snapshots are numbered as they are   *)
(* made.  A vault is one directory here: a path is an entry of it.         *)
(***************************************************************************)
EXTENDS Integers, Sequences, FiniteSets

CONSTANTS
    Requests,       \* requests in flight at once
    Path,           \* the entries a vault may have
    Restored(_),    \* "<name>.restored-<time>"
    Content,        \* file nodes
    NoNode,         \* no entry at a path
    History,        \* GC_HISTORY of api.rs
    MaxCommits,     \* bound: snapshots made
    MaxCrashes,     \* bound: times the server is killed
    Serialised,     \* TRUE: the server runs one handler at a time
    TornHead,       \* TRUE: the server may be killed while it writes HEAD
    QuietPurges     \* TRUE: nobody purges while a device is pushing

ASSUME RestoredAssumption == \A p \in Path : Restored(p) \in Path
ASSUME ContentAssumption  == NoNode \notin Content
ASSUME LimitsAssumption   ==
    /\ History \in Nat \ {0} /\ MaxCommits \in Nat /\ MaxCrashes \in Nat
    /\ {Serialised, TornHead, QuietPurges} \subseteq BOOLEAN

Tree      == [Path -> Content \cup {NoNode}]
EmptyTree == [p \in Path |-> NoNode]
NoHead    == 0

VARIABLES
    head,       \* the HEAD file: a snapshot, or NoHead when it is empty
    snaps,      \* every snapshot ever made: its tree, its parent and its line
    store,      \* the objects present
    trash,      \* the trash table: rows [id, path, node]
    pc,         \* pc[r]: the next step of request r, "idle" when it is free
    op,         \* op[r]: what r was asked to do
    root,       \* root[r]: the tree r wants to commit
    parent,     \* parent[r]: the head r took for its parent
    made,       \* made[r]: the snapshot r has written and not yet published
    missing,    \* missing[r]: objects a pushing device has still to upload
    live,       \* live[r]: what a garbage collection has marked
    acked,      \* history: the snapshots whose request has been answered
    crashes     \* history: times the server was killed

requests == <<pc, op, root, parent, made, missing, live>>
vars     == <<head, snaps, store, trash, requests, acked, crashes>>

-----------------------------------------------------------------------------
File(c) == <<"file", c>>
Dir(t)  == <<"dir", t>>
Snap(i) == <<"snapshot", i>>
Objects(t) == {Dir(t)} \cup {File(t[p]) : p \in {q \in Path : t[q] # NoNode}}

\* A snapshot's line is the snapshots reached from it through parents, oldest
\* first, itself included: what versions() and gc() walk.
TreeOf(i) == IF i = NoHead THEN EmptyTree ELSE snaps[i].root
Line(i)   == IF i = NoHead THEN <<>> ELSE snaps[i].line

NoOp == [kind |-> "none", path |-> NoNode, to |-> NoNode, node |-> NoNode, row |-> 0]

\* Vault::root, and every other read of the head's tree, needs these objects.
Readable == head = NoHead \/ {Snap(head), Dir(TreeOf(head))} \subseteq store

Init ==
    /\ head = NoHead /\ snaps = <<>> /\ store = {} /\ trash = {}
    /\ pc      = [r \in Requests |-> "idle"]
    /\ op      = [r \in Requests |-> NoOp]
    /\ root    = [r \in Requests |-> EmptyTree]
    /\ parent  = [r \in Requests |-> NoHead]
    /\ made    = [r \in Requests |-> 0]
    /\ missing = [r \in Requests |-> {}]
    /\ live    = [r \in Requests |-> {}]
    /\ acked = {} /\ crashes = 0

-----------------------------------------------------------------------------
\* A device between two requests of a push holds no handler.
Pushing(r)  == pc[r] \in {"have", "upload"}
Handling(r) == pc[r] # "idle" /\ ~Pushing(r)
MayEnter(r) == Serialised => \A q \in Requests \ {r} : ~Handling(q)

\* Bound: every request in flight may still make a snapshot.
Room == Len(snaps) + Cardinality({r \in Requests : pc[r] # "idle"}) < MaxCommits

Begin(r, step, what) ==
    /\ pc' = [pc EXCEPT ![r] = step]
    /\ op' = [op EXCEPT ![r] = what]

\* The request is over; nothing of it stays in memory.
End(r) ==
    /\ pc'      = [pc      EXCEPT ![r] = "idle"]
    /\ op'      = [op      EXCEPT ![r] = NoOp]
    /\ root'    = [root    EXCEPT ![r] = EmptyTree]
    /\ parent'  = [parent  EXCEPT ![r] = NoHead]
    /\ made'    = [made    EXCEPT ![r] = 0]
    /\ missing' = [missing EXCEPT ![r] = {}]
    /\ live'    = [live    EXCEPT ![r] = {}]

-----------------------------------------------------------------------------
(***************************************************************************)
(* The file API: put_file, detach, move_path and attach up to the point    *)
(* where they read the tree they are going to change.                      *)
(***************************************************************************)
StartEdit(r, what) ==
    /\ pc[r] = "idle" /\ MayEnter(r) /\ Room /\ Readable
    /\ Begin(r, "base", what)
    /\ UNCHANGED <<head, snaps, trash, root, parent, made, missing, live, acked, crashes>>

\* put_file stores the chunks and the node first.
StartPut(r) == \E p \in Path, c \in Content :
    /\ StartEdit(r, [NoOp EXCEPT !.kind = "put", !.path = p, !.node = c])
    /\ store' = store \cup {File(c)}

\* detach refuses a path that holds nothing; what it holds goes to the trash.
StartDelete(r) == \E p \in Path :
    LET node == TreeOf(head)[p]
    IN  /\ node # NoNode
        /\ StartEdit(r, [NoOp EXCEPT !.kind = "delete", !.path = p, !.node = node])
        /\ UNCHANGED store

\* move_path refuses a missing source and an occupied target.
StartMove(r) == \E p, q \in Path :
    LET node == TreeOf(head)[p]
    IN  /\ node # NoNode /\ TreeOf(head)[q] = NoNode
        /\ StartEdit(r, [NoOp EXCEPT !.kind = "move", !.path = p, !.to = q, !.node = node])
        /\ UNCHANGED store

\* trash_restore finds the row, its object, and a path nothing occupies.
StartRestore(r) == \E row \in trash :
    LET free == IF TreeOf(head)[row.path] = NoNode THEN row.path ELSE Restored(row.path)
    IN  /\ File(row.node) \in store
        /\ TreeOf(head)[free] = NoNode
        /\ StartEdit(r, [NoOp EXCEPT !.kind = "restore", !.path = free, !.node = row.node,
                                     !.row = row.id])
        /\ UNCHANGED store

\* set_in_tree: what the request asked for, done to a tree.
Change(t, what) ==
    CASE what.kind = "delete" -> [t EXCEPT ![what.path] = NoNode]
      [] what.kind = "move"   -> [t EXCEPT ![what.path] = NoNode, ![what.to] = what.node]
      [] OTHER                -> [t EXCEPT ![what.path] = what.node]

\* self.root(), then set_in_tree writes the changed directories.
ReadBase(r) ==
    /\ pc[r] = "base"
    /\ IF Readable
       THEN /\ root' = [root EXCEPT ![r] = Change(TreeOf(head), op[r])]
            /\ store' = store \cup {Dir(root'[r])}
            /\ pc' = [pc EXCEPT ![r] = "commit"]
            /\ UNCHANGED <<op, parent, made, missing, live>>
       ELSE End(r) /\ UNCHANGED store
    /\ UNCHANGED <<head, snaps, trash, acked, crashes>>

\* What forgetting the parent would write: every snapshot starts a new line.
OrphanSnapshot(r, before) ==
    /\ snaps' = Append(snaps, [root |-> root[r], parent |-> NoHead,
                               line |-> <<Len(snaps) + 1>>])
    /\ made' = [made EXCEPT ![r] = Len(snaps) + 1]
    /\ store' = store \cup {Snap(Len(snaps) + 1)}
    /\ parent' = [parent EXCEPT ![r] = before]
    /\ pc' = [pc EXCEPT ![r] = "head"]

\* put_snapshot.
PutSnapshot(r, before) ==
    LET new == Len(snaps) + 1
    IN  /\ snaps' = Append(snaps, [root |-> root[r], parent |-> before,
                                   line |-> Append(Line(before), new)])
        /\ store' = store \cup {Snap(new)}
        /\ made' = [made EXCEPT ![r] = new]
        /\ parent' = [parent EXCEPT ![r] = before]
        /\ pc' = [pc EXCEPT ![r] = "head"]

\* Vault::commit reads HEAD once more, for the parent.  It walks the whole
\* tree first, so a directory that is gone fails the request.
Commit(r) ==
    /\ pc[r] = "commit"
    /\ IF Dir(root[r]) \in store
       THEN PutSnapshot(r, head) /\ UNCHANGED <<op, root, missing, live>>
       ELSE End(r) /\ UNCHANGED <<snaps, store>>
    /\ UNCHANGED <<head, trash, acked, crashes>>

-----------------------------------------------------------------------------
(***************************************************************************)
(* A device pushing the tree it merged: head, have, objects, commit, each  *)
(* a request of its own.                                                   *)
(***************************************************************************)
StartPush(r) == \E t \in Tree \ {TreeOf(head)} :
    /\ pc[r] = "idle" /\ MayEnter(r) /\ Room /\ Readable
    /\ Begin(r, "have", [NoOp EXCEPT !.kind = "push"])
    /\ root' = [root EXCEPT ![r] = t]
    /\ parent' = [parent EXCEPT ![r] = head]
    /\ UNCHANGED <<head, snaps, store, trash, made, missing, live, acked, crashes>>

\* objects/have: one batch answers for the whole tree.
AskHave(r) ==
    /\ pc[r] = "have" /\ MayEnter(r)
    /\ missing' = [missing EXCEPT ![r] = Objects(root[r]) \ store]
    /\ pc' = [pc EXCEPT ![r] = "upload"]
    /\ UNCHANGED <<head, snaps, store, trash, op, root, parent, made, live, acked, crashes>>

\* upload_tree goes through the ids in the order of their hashes: any order.
UploadObject(r) == \E o \in missing[r] :
    /\ pc[r] = "upload" /\ MayEnter(r)
    /\ store' = store \cup {o}
    /\ missing' = [missing EXCEPT ![r] = @ \ {o}]
    /\ UNCHANGED <<head, snaps, trash, pc, op, root, parent, made, live, acked, crashes>>

\* What a handler that forgot to compare the heads would accept.
CommitAllowedAlways(r) == Dir(root[r]) \in store

\* api.rs, commit: the head is where the device saw it, and the root is here.
CommitAllowed(r) == parent[r] = head /\ Dir(root[r]) \in store

PushCommit(r) ==
    /\ pc[r] = "upload" /\ missing[r] = {} /\ MayEnter(r)
    /\ IF CommitAllowed(r)
       THEN PutSnapshot(r, parent[r]) /\ UNCHANGED <<op, root, missing, live>>
       ELSE End(r) /\ UNCHANGED <<snaps, store>>
    /\ UNCHANGED <<head, trash, acked, crashes>>

-----------------------------------------------------------------------------
\* fs::write opens HEAD truncating it, and writes it in a second call.
TruncateHead(r) ==
    /\ pc[r] = "head"
    /\ head' = NoHead
    /\ pc' = [pc EXCEPT ![r] = "write"]
    /\ UNCHANGED <<snaps, store, trash, op, root, parent, made, missing, live, acked, crashes>>

\* set_head.  A deletion and a restoration go on to the trash table; every
\* other request is answered.
SetHead(r) ==
    /\ pc[r] = "write"
    /\ head' = made[r]
    /\ IF op[r].kind \in {"delete", "restore"}
       THEN /\ pc' = [pc EXCEPT ![r] = "trash"]
            /\ UNCHANGED <<op, root, parent, made, missing, live, acked>>
       ELSE End(r) /\ acked' = acked \cup {made[r]}
    /\ UNCHANGED <<snaps, store, trash, crashes>>

\* A row made from what the path holds once it has been detached.
RowTooLate(r) == [id |-> made[r], path |-> op[r].path, node |-> TreeOf(head)[op[r].path]]

RowOf(r) == [id |-> made[r], path |-> op[r].path, node |-> op[r].node]

\* fs_delete inserts the row, trash_restore removes it, after the commit.
UpdateTrash(r) ==
    /\ pc[r] = "trash"
    /\ trash' = IF op[r].kind = "delete" THEN trash \cup {RowOf(r)}
                ELSE {row \in trash : row.id # op[r].row}
    /\ acked' = acked \cup {made[r]}
    /\ End(r)
    /\ UNCHANGED <<head, snaps, store, crashes>>

-----------------------------------------------------------------------------
(***************************************************************************)
(* trash_purge and the garbage collection it ends with.                    *)
(***************************************************************************)
\* One row or all of them are removed from the table.
StartPurge(r) == \E gone \in {{row} : row \in trash} \cup {trash} :
    /\ pc[r] = "idle" /\ MayEnter(r)
    /\ QuietPurges => \A q \in Requests : ~Pushing(q)
    /\ trash' = trash \ gone
    /\ Begin(r, "keep", [NoOp EXCEPT !.kind = "purge"])
    /\ UNCHANGED <<head, snaps, store, root, parent, made, missing, live, acked, crashes>>

\* What a collector that did not know of the trash would keep.
KeepNone(rows) == {}

Keep(rows) == {File(row.node) : row \in rows}

\* trash_list: what the remaining rows hold is kept.
ListTrash(r) ==
    /\ pc[r] = "keep"
    /\ live' = [live EXCEPT ![r] = Keep(trash)]
    /\ pc' = [pc EXCEPT ![r] = "mark"]
    /\ UNCHANGED <<head, snaps, store, trash, op, root, parent, made, missing, acked, crashes>>

\* The newest snapshots on the line of i: History of them, or fewer when an
\* earlier collection has pruned one on the way.
Newest(i)   == {n \in 1 .. Len(Line(i)) : n > Len(Line(i)) - History}
Retained(i) == {Line(i)[k] : k \in {n \in Newest(i) :
                    \A m \in n .. Len(Line(i)) : Snap(Line(i)[m]) \in store}}

\* A collector that forgets the history.
MarkedHeadOnly(i) == IF i = NoHead THEN {} ELSE {Snap(i)} \cup Objects(TreeOf(i))

Marked(i) == UNION {{Snap(s)} \cup Objects(TreeOf(s)) : s \in Retained(i)}

\* gc reads HEAD and marks from it.
MarkLive(r) ==
    /\ pc[r] = "mark"
    /\ live' = [live EXCEPT ![r] = @ \cup Marked(head)]
    /\ pc' = [pc EXCEPT ![r] = "sweep"]
    /\ UNCHANGED <<head, snaps, store, trash, op, root, parent, made, missing, acked, crashes>>

\* Every object that is there now and was not marked is deleted.
Sweep(r) ==
    /\ pc[r] = "sweep"
    /\ store' = store \cap live[r]
    /\ End(r)
    /\ UNCHANGED <<head, snaps, trash, acked, crashes>>

-----------------------------------------------------------------------------
\* The server is killed in the middle of something; a sweep may have got
\* anywhere.  Requests in flight are lost, the devices' next syncs start over.
Crash ==
    /\ crashes < MaxCrashes /\ crashes' = crashes + 1
    /\ \E r \in Requests : pc[r] # "idle"
    /\ TornHead \/ \A r \in Requests : pc[r] # "write"
    /\ \/ UNCHANGED store
       \/ \E r \in Requests : pc[r] = "sweep"
            /\ \E swept \in SUBSET (store \ live[r]) : store' = store \ swept
    /\ pc'      = [r \in Requests |-> "idle"]
    /\ op'      = [r \in Requests |-> NoOp]
    /\ root'    = [r \in Requests |-> EmptyTree]
    /\ parent'  = [r \in Requests |-> NoHead]
    /\ made'    = [r \in Requests |-> 0]
    /\ missing' = [r \in Requests |-> {}]
    /\ live'    = [r \in Requests |-> {}]
    /\ UNCHANGED <<head, snaps, trash, acked>>

FileApi(r) ==
    \/ StartPut(r) \/ StartDelete(r) \/ StartMove(r) \/ StartRestore(r)
    \/ ReadBase(r) \/ Commit(r)
Push(r)    == StartPush(r) \/ AskHave(r) \/ UploadObject(r) \/ PushCommit(r)
Publish(r) == TruncateHead(r) \/ SetHead(r) \/ UpdateTrash(r)
Purge(r)   == StartPurge(r) \/ ListTrash(r) \/ MarkLive(r) \/ Sweep(r)

Next ==
    \/ \E r \in Requests : FileApi(r) \/ Push(r) \/ Publish(r) \/ Purge(r)
    \/ Crash

Spec == Init /\ [][Next]_vars

-----------------------------------------------------------------------------
Object    == ({"file"} \X Content) \cup ({"dir"} \X Tree) \cup ({"snapshot"} \X (1 .. Len(snaps)))
Snapshot  == [root : Tree, parent : Nat, line : Seq(Nat)]
TrashRow  == [id : 1 .. Len(snaps), path : Path, node : Content]
StepName  == {"idle", "base", "commit", "have", "upload", "head", "write", "trash",
              "keep", "mark", "sweep"}
Operation == [kind : {"none", "put", "delete", "move", "restore", "push", "purge"},
              path : Path \cup {NoNode}, to : Path \cup {NoNode},
              node : Content \cup {NoNode}, row : Nat]

\* Every variable has its type; HEAD, parents and rows name snapshots that were
\* made, and the trash holds files only.
TypeOK ==
    /\ snaps \in Seq(Snapshot)
    /\ head \in 0 .. Len(snaps)
    /\ store \subseteq Object
    /\ \A row \in trash : row \in TrashRow
    /\ acked \subseteq 1 .. Len(snaps)
    /\ crashes \in 0 .. MaxCrashes
    /\ pc      \in [Requests -> StepName]
    /\ op      \in [Requests -> Operation]
    /\ root    \in [Requests -> Tree]
    /\ parent  \in [Requests -> 0 .. Len(snaps)]
    /\ made    \in [Requests -> 0 .. Len(snaps)]
    /\ missing \in [Requests -> SUBSET Object]
    /\ live    \in [Requests -> SUBSET Object]

\* The newest History snapshots of the vault can be read, each with all its
\* files, whatever was purged, restored or interrupted: the files that exist
\* now and their versions (vault.rs, gc: "safe to run at any time").
HistoryReadable ==
    \A n \in Newest(head) :
        {Snap(Line(head)[n])} \cup Objects(TreeOf(Line(head)[n])) \subseteq store

\* A file in the trash can be restored until it is purged, however old the
\* snapshots that held it (vault.rs, gc: "deleted-but-not-purged files always
\* restore").
TrashRestorable == \A row \in trash : File(row.node) \in store

\* A change the server has answered for is never lost from the history of a
\* vault that has a head.
NoCommitLost ==
    head # NoHead => \A i \in acked : \E k \in 1 .. Len(Line(head)) : Line(head)[k] = i

\* README, "Conflicts": a commit names the head it was computed from and the
\* server rejects it if the head has moved.
PushReplacesItsParent ==
    [][\A r \in Requests :
         pc[r] = "head" /\ op[r].kind = "push" /\ pc'[r] = "write" => head = parent[r]]_vars

\* vault.rs, root: only a new vault reads as an empty directory; no device that
\* asks for the head of one with commits is told that there is none.
OnlyNewVaultsAreEmpty ==
    [][\A r \in Requests :
         pc[r] = "idle" /\ pc'[r] = "have" => (head = NoHead => acked = {})]_vars

-----------------------------------------------------------------------------
\* What the devices see of it: the trees on the line of the head, and where in
\* it each pushing device's parent stood.  While HEAD is being written nobody
\* looks: it is still the head that the write replaces.
HeadOutside ==
    IF \E r \in Requests : pc[r] = "write"
    THEN parent[CHOOSE r \in Requests : pc[r] = "write"]
    ELSE head
TreesOn(i) == [k \in 1 .. Len(Line(i)) |-> TreeOf(Line(i)[k])]
SeenBy(r)  == IF op[r].kind = "push" THEN Len(Line(parent[r])) ELSE -1

Log == INSTANCE VaultLog WITH Clients <- Requests, Tree <- Tree, None <- -1,
                              log <- TreesOn(HeadOutside), seen <- [r \in Requests |-> SeenBy(r)]

\* The server, handling one request at a time, keeps the promise of VaultLog.
KeepsTheLog == Log!Spec

=============================================================================
