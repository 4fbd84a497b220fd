----------------------------- MODULE VaultFiles -----------------------------
(***************************************************************************)
(* The file API of one vault over directories: uploads, folders, renames,  *)
(* the trash, versions, the timeline's media index and WebDAV with its     *)
(* locks (crates/quarkdrive-server/src/vault.rs, api.rs, webdav.rs,        *)
(* media.rs).                                                              *)
(*                                                                         *)
(* How handlers race for HEAD is the subject of VaultServer; here a        *)
(* handler reads and commits the tree in one step, and what it does        *)
(* afterwards in the database is a second one, which a kill may prevent.   *)
(* A file's node is its content; modes, times and sizes are left out.      *)
(***************************************************************************)
EXTENDS VaultTree, FiniteSets

CONSTANTS
    AnyPath,        \* paths that requests name
    Photos,         \* those whose name is a photo's (media::is_image)
    FileContent,    \* file nodes
    RestoredName(_),\* "<name>.restored-<time>"
    GC_HISTORY,     \* of api.rs
    VersionLimit,   \* how many versions fs_versions asks for
    MaxEdits,       \* bound: commits
    MaxLocks        \* bound: locks granted

ASSUME VaultFilesAssumption ==
    /\ DirNode \notin FileContent
    /\ AnyPath \subseteq Seq(STRING) /\ \A p \in AnyPath \ {<<>>} : RestoredName(p[Len(p)]) \in STRING
    /\ GC_HISTORY \in Nat \ {0} /\ VersionLimit \in Nat \ {0, 1} /\ {MaxEdits, MaxLocks} \subseteq Nat

VARIABLES
    vtree,   \* the tree of the head
    vlog,    \* the trees of the snapshots kept, oldest first
    edits,   \* commits made
    rows,    \* the trash table: [id, path, node]
    due,     \* what handlers have still to do in it: [todo, row]
    locks,   \* the lock registry: a set of [path, token]
    granted, \* tokens given out
    media,   \* the media index: a set of [path, node, of], `of' the content read
    look,    \* the photo a timeline has looked up and not yet read: a set of [path, node]
    blunt,   \* history: a folder was made over something, or a file put over a folder
    moved    \* history: <<path, node>>, looked up by a timeline that then read another

filesVars == <<vtree, vlog, edits, rows, due, locks, granted, media, look, blunt, moved>>

FilesInit ==
    /\ vtree = EmptyTree /\ vlog = <<>> /\ edits = 0
    /\ rows = {} /\ due = {} /\ locks = {} /\ granted = 0
    /\ media = {} /\ look = {} /\ blunt = FALSE /\ moved = {}

Sibling(p) == [p EXCEPT ![Len(p)] = RestoredName(@)]

-----------------------------------------------------------------------------
\* A commit whose snapshot has no parent.
LoggedAlone(t) == <<t>>

Logged(t) == Append(vlog, t)

\* Vault::commit.
Commit(t) ==
    /\ edits < MaxEdits /\ edits' = edits + 1
    /\ vtree' = t
    /\ vlog'  = Logged(t)

\* set_in_tree and commit.
Set(p, node) == MayHold(vtree, p) /\ Commit(With(vtree, p, node))

\* put_file, by fs_upload, upload_finish and WebDAV's PUT.
PutFile(p, c) ==
    /\ Set(p, FileNode(c))
    /\ blunt' = (blunt \/ (Has(vtree, p) /\ ~IsFile(vtree, p)))
    /\ UNCHANGED <<rows, due, locks, granted, media, look, moved>>

\* WebDAV's COPY: a file, put at its destination.
Copy(p, q) == IsFile(vtree, p) /\ PutFile(q, vtree[p])

\* mkdir, by fs_mkdir and MKCOL: it does not ask whether there is something.
Mkdir(p) ==
    /\ Set(p, EmptyDir)
    /\ blunt' = (blunt \/ Has(vtree, p))
    /\ UNCHANGED <<rows, due, locks, granted, media, look, moved>>

-----------------------------------------------------------------------------
(***************************************************************************)
(* The trash.                                                              *)
(***************************************************************************)
\* detach, by fs_delete and DELETE; the row comes next.
Delete(p) ==
    /\ Has(vtree, p)
    /\ Commit(Without(vtree, p))
    /\ due' = due \cup {[todo |-> "insert", row |-> [id |-> edits + 1, path |-> p,
                                                     node |-> NodeAt(vtree, p)]]}
    /\ UNCHANGED <<rows, locks, granted, media, look, blunt, moved>>

InsertRow(d) ==
    /\ d \in due /\ d.todo = "insert"
    /\ rows' = rows \cup {d.row} /\ due' = due \ {d}
    /\ UNCHANGED <<vtree, vlog, edits, locks, granted, media, look, blunt, moved>>

\* An attach or a move that goes ahead whatever is at the path.
FreeAnyway(p) == p # <<>>

\* "Refuse to silently replace something."
Free(p) == p # <<>> /\ ~Has(vtree, p)

\* trash_restore: where it was, or beside what has taken its place.
Restore(row) ==
    LET target == IF Has(vtree, row.path) THEN Sibling(row.path) ELSE row.path
    IN  /\ row \in rows /\ Free(target)
        /\ Set(target, row.node)
        /\ due' = due \cup {[todo |-> "remove", row |-> row]}
        /\ UNCHANGED <<rows, locks, granted, media, look, blunt, moved>>

RemoveRow(d) ==
    /\ d \in due /\ d.todo = "remove"
    /\ rows' = rows \ {d.row} /\ due' = due \ {d}
    /\ UNCHANGED <<vtree, vlog, edits, locks, granted, media, look, blunt, moved>>

\* trash_purge of one entry; gc then keeps the newest snapshots and the rows.
Purge(row) ==
    /\ row \in rows
    /\ rows' = rows \ {row}
    /\ vlog' = IF Len(vlog) > GC_HISTORY
               THEN SubSeq(vlog, Len(vlog) - GC_HISTORY + 1, Len(vlog)) ELSE vlog
    /\ UNCHANGED <<vtree, edits, due, locks, granted, media, look, blunt, moved>>

KillFiles ==
    /\ due # {} \/ locks # {} \/ look # {}
    /\ due' = {} /\ locks' = {} /\ look' = {}
    /\ UNCHANGED <<vtree, vlog, edits, rows, granted, media, blunt, moved>>

-----------------------------------------------------------------------------
\* move_path: not into itself, and not over anything.
MoveTo(p, q) ==
    LET node == NodeAt(vtree, p)
        gone == Without(vtree, p)
    IN  /\ Has(vtree, p) /\ p # q /\ ~Above(p, q) /\ Free(q)
        /\ MayHold(gone, q)
        /\ Commit(With(gone, q, node))

FsMove(p, q) ==
    /\ MoveTo(p, q)
    /\ UNCHANGED <<rows, due, locks, granted, media, look, blunt, moved>>

\* A MOVE that copies the lock.
LocksMovedTwice(p, q) ==
    locks \cup {[path |-> q, token |-> l.token] : l \in {k \in locks : k.path = p}}

\* WebDAV's MOVE takes the lock of the path along.
LocksMoved(p, q) ==
    LET own == {l \in locks : l.path = p}
    IN  IF own = {} THEN locks
        ELSE {l \in locks : l.path \notin {p, q}} \cup {[path |-> q, token |-> l.token] : l \in own}

DavMove(p, q) ==
    /\ MoveTo(p, q)
    /\ locks' = LocksMoved(p, q)
    /\ UNCHANGED <<rows, due, granted, media, look, blunt, moved>>

\* LOCK is always granted and takes the place of any other; UNLOCK asks for no token.
Lock(p) ==
    /\ granted < MaxLocks /\ granted' = granted + 1
    /\ locks' = {l \in locks : l.path # p} \cup {[path |-> p, token |-> granted + 1]}
    /\ UNCHANGED <<vtree, vlog, edits, rows, due, media, look, blunt, moved>>

Unlock(p) ==
    /\ \E l \in locks : l.path = p
    /\ locks' = {l \in locks : l.path # p}
    /\ UNCHANGED <<vtree, vlog, edits, rows, due, granted, media, look, blunt, moved>>

-----------------------------------------------------------------------------
\* Vault::versions: back through the snapshots kept, each content once, up to
\* the limit.
VersionsIn(log, p) ==
    LET back(i) == log[Len(log) + 1 - i]
        fresh   == {i \in 1 .. Len(log) : /\ IsFile(back(i), p)
                                          /\ \A j \in 1 .. i - 1 :
                                                IsFile(back(j), p) => back(j)[p] # back(i)[p]}
    IN  {back(i)[p] : i \in {k \in fresh : Cardinality({j \in fresh : j < k}) < VersionLimit}}

\* restore_version: put_file with the bytes of an old node.
RestoreVersion(p, c) ==
    /\ c \in VersionsIn(vlog, p)
    /\ PutFile(p, c)

-----------------------------------------------------------------------------
(***************************************************************************)
(* The timeline, one photo at a time: lookup_id, MediaIndex::get, read_file*)
(* and upsert.                                                             *)
(***************************************************************************)
\* An index that goes by the path.
CachedByPath(p, n) == {r \in media : r.path = p}

\* MediaIndex::get.
Cached(p, n) == {r \in media : r.path = p /\ r.node = n}

LookPhoto(p) ==
    /\ p \in Photos /\ IsFile(vtree, p) /\ look = {} /\ Cached(p, vtree[p]) = {}
    /\ look' = {[path |-> p, node |-> vtree[p]]}
    /\ UNCHANGED <<vtree, vlog, edits, rows, due, locks, granted, media, blunt, moved>>

ReadPhoto == \E l \in look :
    /\ look' = {}
    /\ IF IsFile(vtree, l.path)
       THEN /\ media' = {r \in media : r.path # l.path}
                        \cup {[path |-> l.path, node |-> l.node, of |-> vtree[l.path]]}
            /\ moved' = IF vtree[l.path] = l.node THEN moved ELSE moved \cup {<<l.path, l.node>>}
       ELSE UNCHANGED <<media, moved>>
    /\ UNCHANGED <<vtree, vlog, edits, rows, due, locks, granted, blunt>>

\* What the timeline says of a photo: the row there is, or one made now.
Shown(p) == IF Cached(p, vtree[p]) = {} THEN {vtree[p]} ELSE {r.of : r \in Cached(p, vtree[p])}

FilesNext ==
    \/ \E p \in AnyPath :
         \/ \E c \in FileContent : PutFile(p, c) \/ RestoreVersion(p, c)
         \/ \E q \in AnyPath : FsMove(p, q) \/ DavMove(p, q) \/ Copy(p, q)
         \/ Mkdir(p) \/ Delete(p) \/ Lock(p) \/ Unlock(p) \/ LookPhoto(p)
    \/ \E d \in due : InsertRow(d) \/ RemoveRow(d)
    \/ \E row \in rows : Restore(row) \/ Purge(row)
    \/ ReadPhoto \/ KillFiles

FilesSpec == FilesInit /\ [][FilesNext]_filesVars

-----------------------------------------------------------------------------
FilesTypeOK ==
    /\ WellFormed(vtree) /\ \A p \in DOMAIN vtree : vtree[p] \in FileContent \cup {DirNode}
    /\ \A i \in DOMAIN vlog : WellFormed(vlog[i])
    /\ vlog # <<>> => vlog[Len(vlog)] = vtree
    /\ edits \in 0 .. MaxEdits /\ granted \in 0 .. MaxLocks
    /\ \A l \in locks : l.token \in 1 .. granted
    /\ \A d \in due : d.todo \in {"insert", "remove"}
    /\ blunt \in BOOLEAN

\* Where a file is held: a place in the tree, or in a row of the trash, there
\* already or about to be.
Held(c) ==
    {<<0, p>> : p \in {q \in DOMAIN vtree : vtree[q] = c}}
    \cup UNION {{<<r.id, q>> : q \in {x \in DOMAIN r.node : r.node[x] = c}} :
                   r \in rows \cup {d.row : d \in due}}

Overwritten(c) == {p \in DOMAIN vtree : vtree[p] = c /\ IsFile(vtree', p) /\ vtree'[p] # c}

\* No change takes a file out of the tree, other than by writing the next version
\* of it at its own path.
KeepsFiles ==
    \A c \in FileContent :
        Cardinality(Held(c)') + Cardinality(Overwritten(c)) >= Cardinality(Held(c))

\* webdav.rs: "deletions go to the trash like everywhere else, so a mistaken
\* drag in a file manager is still recoverable": whatever is moved, deleted and
\* restored, a file stays in the tree or is in the trash, but for folders made
\* where something was and files put where a folder was.
NothingDroppedWithCare == [][vtree' # vtree /\ ~blunt' => KeepsFiles]_filesVars

\* What a change takes off a path is a version of that path afterwards, so a
\* replaced, moved or deleted file can be had back from where it was.
ChangesLeaveVersions ==
    [][\A p \in Files(vtree) :
          ~(IsFile(vtree', p) /\ vtree'[p] = vtree[p]) => vtree[p] \in VersionsIn(vlog', p)]_filesVars

\* The index is keyed on path and node: whatever was put, moved, restored and
\* indexed in any order, the timeline shows what belongs to the photo as it is,
\* unless this very node was once looked up at this path and another one read.
TimelineTruthful ==
    \A p \in Photos \cap Files(vtree) : <<p, vtree[p]>> \notin moved => Shown(p) = {vtree[p]}

\* A lock token is for one path at a time.
OneLockPerToken == \A k, l \in locks : k.token = l.token => k = l

=============================================================================
