-------------------------- MODULE VaultPartsProofs --------------------------
(***************************************************************************)
(* What holds of a vault's files, its trash, versions, locks and timeline, *)
(* and of what the visitors of its public links are shown, for any paths,  *)
(* contents and trees; and the types of the composed parts.                *)
(***************************************************************************)
EXTENDS MCVaultParts, AccessProofs, TreeSyncProofs

-----------------------------------------------------------------------------
(***************************************************************************)
(* Public links: what a listing shows leads to what was listed.            *)
(***************************************************************************)
PathsOK ==
    /\ DOMAIN site \subseteq Path
    /\ \A r \in rowsOf : r.path \in Path

VisitOK == \A v \in visit : v.row.path \in Path /\ v.rel \in Path

PageOK == \A g \in page : g = [row |-> g.row, fresh |-> g.fresh, items |-> g.items]

PublicInv == PathsOK /\ VisitOK /\ PageOK /\ ListedOpens

\* A file or an empty directory put at a path leaves paths in the tree.
LEMMA WithKeepsPaths ==
    ASSUME NEW t, DOMAIN t \subseteq Path, NEW p \in Path, NEW c
    PROVE  DOMAIN With(t, p, FileNode(c)) \subseteq Path
<1>1. DOMAIN Without(t, p) \subseteq Path
  BY DEF Without
<1>2. DOMAIN FileNode(c) = {<<>>} /\ p \o <<>> = p
  BY ConcatEmptySeq DEF FileNode, Path
<1>3. DOMAIN With(t, p, FileNode(c)) =
        DOMAIN Without(t, p) \cup Parents(p) \cup {p \o x : x \in DOMAIN FileNode(c)}
  BY DEF With
<1>4. QED
  BY <1>1, <1>2, <1>3, ParentsAre

-----------------------------------------------------------------------------
LEMMA PublicInitInv == PublicInit => PublicInv
  BY DEF PublicInit, PublicInv, PathsOK, VisitOK, PageOK, ListedOpens, EmptyTree

LEMMA SiteEditInv ==
    ASSUME PublicInv, SiteEdit
    PROVE  PublicInv'
<1>1. UNCHANGED <<rowsOf, visit>>
  BY DEF SiteEdit
<1>2. DOMAIN site' \subseteq Path
  <2>1. SitePath \subseteq Path
    BY PublicLinksAssumption DEF Path
  <2>2. ASSUME NEW p \in SitePath, NEW c, site' = With(site, p, FileNode(c)) PROVE DOMAIN site' \subseteq Path
    BY <2>1, <2>2, WithKeepsPaths DEF PublicInv, PathsOK
  <2>3. ASSUME NEW p \in DOMAIN site, site' = Without(site, p) PROVE DOMAIN site' \subseteq Path
    BY <2>3 DEF Without, PublicInv, PathsOK
  <2>4. QED
    BY <2>2, <2>3 DEF SiteEdit, EmptyDir
<1>3. page' = {[g EXCEPT !.fresh = FALSE] : g \in page}
  BY DEF SiteEdit
<1>4. ASSUME NEW h \in page' PROVE h = [row |-> h.row, fresh |-> h.fresh, items |-> h.items] /\ ~h.fresh
  <2>1. PICK g \in page : h = [g EXCEPT !.fresh = FALSE]
    BY <1>3
  <2>2. g = [row |-> g.row, fresh |-> g.fresh, items |-> g.items]
    BY DEF PublicInv, PageOK
  <2>3. h = [row |-> g.row, fresh |-> FALSE, items |-> g.items]
    BY <2>1, <2>2
  <2>4. QED
    BY <2>3
<1>5. PageOK' /\ ListedOpens'
  BY <1>4 DEF PageOK, ListedOpens
<1>6. QED
  BY <1>1, <1>2, <1>5 DEF PublicInv, PathsOK, VisitOK

LEMMA MakeLinkInv ==
    ASSUME PublicInv, MakeLink
    PROVE  PublicInv'
<1>1. UNCHANGED <<site, visit, page>>
  BY DEF MakeLink
<1>2. PICK p \in SitePath \cup {<<>>}, expires \in 0 .. MaxSiteTime :
        rowsOf' = rowsOf \cup {[id |-> linkIds + 1, path |-> p, expires |-> expires]}
  BY DEF MakeLink
<1>3. p \in Path
  BY PublicLinksAssumption, EmptySeq DEF Path
<1>4. \A r \in rowsOf' : r.path \in Path
  BY <1>2, <1>3 DEF PublicInv, PathsOK
<1>5. QED
  BY <1>1, <1>4 DEF PublicInv, PathsOK, VisitOK, PageOK, ListedOpens

LEMMA StartVisitInv ==
    ASSUME PublicInv, StartVisit
    PROVE  PublicInv'
<1>1. UNCHANGED <<site, rowsOf, page>>
  BY DEF StartVisit
<1>2. PICK r \in rowsOf, rel \in VisitPath : visit' = {[row |-> r, rel |-> rel]}
  BY DEF StartVisit
<1>3. rel \in Path /\ r.path \in Path
  BY <1>2, PublicLinksAssumption DEF PublicInv, PathsOK, Path
<1>4. VisitOK'
  BY <1>2, <1>3 DEF VisitOK
<1>5. QED
  BY <1>1, <1>4 DEF PublicInv, PathsOK, PageOK, ListedOpens

\* public_list cuts the link's path off, and under the link the rest leads back.
LEMMA ShownLeadsBack ==
    ASSUME NEW r, r.path \in Path, NEW rel \in Path, NEW p \in Path, Above(Resolve(r, rel), p)
    PROVE  Resolve(r, ShownPath(r, rel, p)) = p
<1>1. r.path \o rel \in Path /\ Above(r.path, r.path \o rel)
  BY BelowStart
<1>2. Above(r.path, p)
  BY <1>1, AboveTransitive DEF Resolve
<1>3. ShownPath(r, rel, p) = Tail2(r.path, p)
  BY DEF ShownPath, Tail2
<1>4. QED
  BY <1>2, <1>3, TailFacts DEF Resolve

LEMMA AnswerListInv ==
    ASSUME PublicInv, AnswerList
    PROVE  PublicInv'
<1>1. UNCHANGED <<site, rowsOf>> /\ visit' = {}
  BY DEF AnswerList
<1>2. PICK v \in visit :
        \/ UNCHANGED page
        \/ page' = {[row |-> v.row, fresh |-> TRUE,
                      items |-> {[path |-> ShownPath(v.row, v.rel, p), dir |-> IsDir(site, p)] :
                                    p \in Children(site, Resolve(v.row, v.rel))}]}
  BY DEF AnswerList
<1>3. \A p \in Children(site, Resolve(v.row, v.rel)) :
        p \in Path /\ Above(Resolve(v.row, v.rel), p) /\ Has(site, p)
  BY DEF Children, Has, PublicInv, PathsOK
<1>4. PageOK' /\ ListedOpens'
  <2>1. CASE UNCHANGED page
    BY <1>1, <2>1 DEF PublicInv, PageOK, ListedOpens
  <2>2. CASE page' = {[row |-> v.row, fresh |-> TRUE,
                       items |-> {[path |-> ShownPath(v.row, v.rel, p), dir |-> IsDir(site, p)] :
                                     p \in Children(site, Resolve(v.row, v.rel))}]}
    <3>1. PageOK'
      BY <2>2 DEF PageOK
    <3>2. ASSUME NEW p \in Children(site, Resolve(v.row, v.rel))
          PROVE  Resolve(v.row, ShownPath(v.row, v.rel, p)) = p /\ Has(site', p)
                 /\ (IsDir(site, p) <=> IsDir(site', p))
      BY <1>1, <1>3, ShownLeadsBack DEF PublicInv, VisitOK
    <3>3. ASSUME NEW g \in page', NEW i \in g.items
          PROVE  LET p == Resolve(g.row, i.path) IN Has(site', p) /\ (i.dir <=> IsDir(site', p))
      BY <2>2, <3>2
    <3>4. QED
      BY <3>1, <3>3 DEF ListedOpens
  <2>3. QED
    BY <1>2, <2>1, <2>2
<1>5. QED
  BY <1>1, <1>4 DEF PublicInv, PathsOK, VisitOK

LEMMA PublicNextInv == PublicInv /\ [PublicNext]_publicVars => PublicInv'
<1>. SUFFICES ASSUME PublicInv, [PublicNext]_publicVars PROVE PublicInv'
  OBVIOUS
<1>1. CASE SiteEdit \/ MakeLink \/ StartVisit
  BY <1>1, SiteEditInv, MakeLinkInv, StartVisitInv
<1>2. CASE AnswerList
  BY <1>2, AnswerListInv
<1>3. CASE RemoveLink
  <2>1. rowsOf' \subseteq rowsOf /\ UNCHANGED <<site, visit, page>>
    BY <1>3 DEF RemoveLink
  <2>2. QED
    BY <2>1 DEF PublicInv, PathsOK, VisitOK, PageOK, ListedOpens
<1>4. CASE SiteTick \/ UNCHANGED publicVars
  <2>1. UNCHANGED <<site, rowsOf, visit, page>>
    BY <1>4 DEF SiteTick, publicVars
  <2>2. QED
    BY <2>1 DEF PublicInv, PathsOK, VisitOK, PageOK, ListedOpens
<1>5. QED
  BY <1>1, <1>2, <1>3, <1>4 DEF PublicNext

\* The head's tree stays one, and a row of links has what create_link gave it.
LEMMA PublicTypeKept == PublicTypeOK /\ IsTree(site) /\ [PublicNext]_publicVars => (PublicTypeOK /\ IsTree(site))'
<1>. SUFFICES ASSUME PublicTypeOK, IsTree(site), [PublicNext]_publicVars PROVE (PublicTypeOK /\ IsTree(site))'
  OBVIOUS
<1>. DEFINE SiteOK == IsTree(site) /\ \A p \in DOMAIN site : site[p] \in SiteFile \cup {DirNode}
            RowsOK == /\ \A r \in rowsOf : r \in [id : 1 .. linkIds, path : SitePath \cup {<<>>},
                                                  expires : 0 .. MaxSiteTime]
                      /\ linkIds \in 0 .. MaxSiteLinks
            TimesOK == siteEdits \in 0 .. MaxSiteEdits /\ now \in 0 .. MaxSiteTime
<1>1. SiteOK /\ RowsOK /\ TimesOK
  BY DEF PublicTypeOK
<1>2. SiteOK' /\ RowsOK' /\ TimesOK' => (PublicTypeOK /\ IsTree(site))'
  BY DEF PublicTypeOK, IsTree
<1>3. MaxSiteEdits \in Nat /\ MaxSiteLinks \in Nat /\ MaxSiteTime \in Nat /\ SitePath \subseteq Path
  BY PublicLinksAssumption DEF Path
<1>4. CASE SiteEdit
  <2>1. UNCHANGED <<rowsOf, linkIds, now>> /\ siteEdits < MaxSiteEdits /\ siteEdits' = siteEdits + 1
    BY <1>4 DEF SiteEdit
  <2>2. RowsOK' /\ TimesOK'
    BY <1>1, <1>3, <2>1
  <2>3. ASSUME NEW p \in SitePath, MayHold(site, p), NEW c \in SiteFile \cup {DirNode}, site' = With(site, p, FileNode(c))
        PROVE  SiteOK'
    <3>1. /\ IsTree(site')
          /\ \A q \in Path : Above(p, q) => (Has(site', q) <=> Tail2(p, q) \in DOMAIN FileNode(c))
      BY <1>1, <1>3, <2>3, FileNodeIs, WithIs
    <3>2. \A q \in DOMAIN site' : site'[q] \in SiteFile \cup {DirNode}
      BY <1>1, <1>3, <2>3, <3>1, FileNodeIs, WithIs DEF Has, IsTree
    <3>3. QED
      BY <3>1, <3>2
  <2>4. ASSUME NEW p \in DOMAIN site, site' = Without(site, p) PROVE SiteOK'
    <3>1. p \in Path
      BY <1>1 DEF IsTree
    <3>2. IsTree(site') /\ \A q \in DOMAIN site' : q \in DOMAIN site /\ site'[q] = site[q]
      BY <1>1, <2>4, <3>1, WithoutIs
    <3>3. QED
      BY <1>1, <3>2
  <2>5. SiteOK'
    BY <1>4, <2>3, <2>4 DEF SiteEdit, EmptyDir
  <2>6. QED
    BY <1>2, <2>2, <2>5
<1>5. CASE MakeLink
  <2>1. UNCHANGED <<site, siteEdits, now>> /\ linkIds < MaxSiteLinks /\ linkIds' = linkIds + 1
    BY <1>5 DEF MakeLink
  <2>2. PICK p \in SitePath \cup {<<>>}, expires \in 0 .. MaxSiteTime :
          rowsOf' = rowsOf \cup {[id |-> linkIds + 1, path |-> p, expires |-> expires]}
    BY <1>5 DEF MakeLink
  <2>3. linkIds' \in 0 .. MaxSiteLinks /\ linkIds + 1 \in 1 .. linkIds'
        /\ \A i \in 1 .. linkIds : i \in 1 .. linkIds'
    BY <1>1, <1>3, <2>1
  <2>4. RowsOK'
    BY <1>1, <2>2, <2>3
  <2>5. QED
    BY <1>1, <1>2, <2>1, <2>4
<1>6. CASE RemoveLink
  <2>1. rowsOf' \subseteq rowsOf /\ UNCHANGED <<site, siteEdits, linkIds, now>>
    BY <1>6 DEF RemoveLink
  <2>2. QED
    BY <1>1, <1>2, <2>1
<1>7. CASE SiteTick
  <2>1. now < MaxSiteTime /\ now' = now + 1 /\ UNCHANGED <<site, siteEdits, rowsOf, linkIds>>
    BY <1>7 DEF SiteTick
  <2>2. QED
    BY <1>1, <1>2, <1>3, <2>1
<1>8. CASE StartVisit \/ AnswerList \/ UNCHANGED publicVars
  <2>1. UNCHANGED <<site, siteEdits, rowsOf, linkIds, now>>
    BY <1>8 DEF StartVisit, AnswerList, publicVars
  <2>2. QED
    BY <1>1, <1>2, <2>1
<1>9. QED
  BY <1>4, <1>5, <1>6, <1>7, <1>8 DEF PublicNext

-----------------------------------------------------------------------------
\* public_list, resolve_under_link: a path of a listing, sent back under the same
\* link, leads to what was listed.
THEOREM ListingsLeadBack == PublicSpec => []ListedOpens
<1>1. PublicInv => ListedOpens
  BY DEF PublicInv
<1>2. QED
  BY <1>1, PublicInitInv, PublicNextInv, PTL DEF PublicSpec

\* api.rs, create_link and the tree its visitors are shown: every link names a path
\* of the vault and an expiry, and the head's tree has a directory above all it holds.
THEOREM PublicTyped == PublicSpec => []PublicTypeOK
<1>1. PublicInit => PublicTypeOK /\ IsTree(site)
  BY EmptyTreeIs, PublicLinksAssumption DEF PublicInit, PublicTypeOK, IsTree
<1>2. QED
  BY <1>1, PublicTypeKept, PTL DEF PublicSpec

-----------------------------------------------------------------------------
(***************************************************************************)
(* The lock registry of WebDAV.                                            *)
(***************************************************************************)
\* A lock is for its path alone, and a token was given out once.
LocksInv ==
    /\ granted \in Nat
    /\ \A l \in locks : l = [path |-> l.path, token |-> l.token] /\ l.token \in 1 .. granted
    /\ \A k, l \in locks : k.path = l.path => k = l
    /\ OneLockPerToken

LEMMA LocksFewer ==
    ASSUME LocksInv, granted' = granted, locks' \subseteq locks
    PROVE  LocksInv'
  BY DEF LocksInv, OneLockPerToken

LEMMA LockInv ==
    ASSUME LocksInv, NEW p, Lock(p)
    PROVE  LocksInv'
<1>. DEFINE new == [path |-> p, token |-> granted + 1]
<1>1. /\ granted' = granted + 1
      /\ \A l \in locks' : (l \in locks /\ l.path # p) \/ l = new
  BY DEF Lock
<1>2. \A l \in locks : l.token # granted + 1
  BY DEF LocksInv
<1>3. granted' \in Nat /\ \A l \in locks' : l.token \in 1 .. granted'
  BY <1>1 DEF LocksInv
<1>4. \A l \in locks' : l = [path |-> l.path, token |-> l.token]
  BY <1>1 DEF LocksInv
<1>5. \A k, l \in locks' : (k.path = l.path => k = l) /\ (k.token = l.token => k = l)
  BY <1>1, <1>2 DEF LocksInv, OneLockPerToken
<1>6. QED
  BY <1>3, <1>4, <1>5 DEF LocksInv, OneLockPerToken

LEMMA DavMoveLocks ==
    ASSUME LocksInv, NEW p, NEW q, DavMove(p, q)
    PROVE  LocksInv'
<1>1. granted' = granted /\ p # q /\ locks' = LocksMoved(p, q)
  BY DEF DavMove, MoveTo
<1>2. CASE \A l \in locks : l.path # p
  BY <1>1, <1>2, LocksFewer DEF LocksMoved
<1>3. ASSUME NEW own \in locks, own.path = p PROVE LocksInv'
  <2>. DEFINE new == [path |-> q, token |-> own.token]
  <2>1. \A l \in locks : l.path = p <=> l = own
    BY <1>3 DEF LocksInv
  <2>2. \A l \in locks' : (l \in locks /\ l # own /\ l.path # q) \/ l = new
    BY <1>1, <1>3, <2>1 DEF LocksMoved
  <2>3. \A l \in locks : l # own => l.token # own.token
    BY <1>3 DEF LocksInv, OneLockPerToken
  <2>4. \A l \in locks' : l = [path |-> l.path, token |-> l.token] /\ l.token \in 1 .. granted'
    BY <1>1, <1>3, <2>2 DEF LocksInv
  <2>5. \A k, l \in locks' : (k.path = l.path => k = l) /\ (k.token = l.token => k = l)
    BY <2>2, <2>3 DEF LocksInv, OneLockPerToken
  <2>6. QED
    BY <1>1, <2>4, <2>5 DEF LocksInv, OneLockPerToken
<1>4. QED
  BY <1>2, <1>3

LEMMA FilesNextLocks == LocksInv /\ [FilesNext]_filesVars => LocksInv'
<1>. SUFFICES ASSUME LocksInv, [FilesNext]_filesVars PROVE LocksInv'
  OBVIOUS
<1>1. ASSUME NEW p, Lock(p) PROVE LocksInv'
  BY <1>1, LockInv
<1>2. ASSUME NEW p, NEW q, DavMove(p, q) PROVE LocksInv'
  BY <1>2, DavMoveLocks
<1>3. ASSUME NEW p, Unlock(p) PROVE LocksInv'
  BY <1>3, LocksFewer DEF Unlock
<1>4. ASSUME KillFiles PROVE LocksInv'
  BY <1>4, LocksFewer DEF KillFiles
<1>5. CASE UNCHANGED <<locks, granted>>
  BY <1>5, LocksFewer
<1>6. \A p, q, c : /\ PutFile(p, c) => UNCHANGED <<locks, granted>>
                   /\ RestoreVersion(p, c) => UNCHANGED <<locks, granted>>
                   /\ FsMove(p, q) \/ Copy(p, q) => UNCHANGED <<locks, granted>>
                   /\ Mkdir(p) \/ Delete(p) \/ LookPhoto(p) => UNCHANGED <<locks, granted>>
                   /\ InsertRow(p) \/ RemoveRow(p) \/ Restore(p) \/ Purge(p) => UNCHANGED <<locks, granted>>
  BY DEF PutFile, RestoreVersion, FsMove, Copy, Mkdir, Delete, LookPhoto, InsertRow, RemoveRow, Restore, Purge
<1>7. ReadPhoto \/ UNCHANGED filesVars => UNCHANGED <<locks, granted>>
  BY DEF ReadPhoto, filesVars
<1>8. QED
  BY <1>1, <1>2, <1>3, <1>4, <1>5, <1>6, <1>7 DEF FilesNext

\* webdav.rs, LOCK, UNLOCK and MOVE: whatever is locked and moved, a token is for
\* one path, so that who holds it can say which lock it is.
THEOREM TokensAreForOnePath == FilesSpec => []OneLockPerToken
<1>1. FilesInit => LocksInv
  BY DEF FilesInit, LocksInv, OneLockPerToken
<1>2. LocksInv => OneLockPerToken
  BY DEF LocksInv
<1>3. QED
  BY <1>1, <1>2, FilesNextLocks, PTL DEF FilesSpec

-----------------------------------------------------------------------------
(***************************************************************************)
(* The timeline.                                                           *)
(***************************************************************************)
\* A row of the index was read from the node it names, unless that node was once
\* looked up at this path and another one read.
MediaInv == \A r \in media : <<r.path, r.node>> \notin moved => r.of = r.node

LEMMA ReadPhotoMedia ==
    ASSUME MediaInv, ReadPhoto
    PROVE  MediaInv'
<1>1. PICK l \in look :
        \/ /\ media' = {r \in media : r.path # l.path}
                       \cup {[path |-> l.path, node |-> l.node, of |-> vtree[l.path]]}
           /\ moved' = IF vtree[l.path] = l.node THEN moved ELSE moved \cup {<<l.path, l.node>>}
        \/ UNCHANGED <<media, moved>>
  BY DEF ReadPhoto
<1>2. moved \subseteq moved'
  BY <1>1
<1>. SUFFICES ASSUME NEW r \in media', <<r.path, r.node>> \notin moved' PROVE r.of = r.node
  BY DEF MediaInv
<1>3. CASE r \in media
  BY <1>2, <1>3 DEF MediaInv
<1>4. CASE r = [path |-> l.path, node |-> l.node, of |-> vtree[l.path]] /\ r \notin media
  BY <1>1, <1>4
<1>5. QED
  BY <1>1, <1>3, <1>4

LEMMA FilesNextMedia == MediaInv /\ [FilesNext]_filesVars => MediaInv'
<1>. SUFFICES ASSUME MediaInv, [FilesNext]_filesVars PROVE MediaInv'
  OBVIOUS
<1>1. CASE ReadPhoto
  BY <1>1, ReadPhotoMedia
<1>2. CASE UNCHANGED <<media, moved>>
  BY <1>2 DEF MediaInv
<1>3. \A p, q, c : /\ PutFile(p, c) => UNCHANGED <<media, moved>>
                   /\ RestoreVersion(p, c) => UNCHANGED <<media, moved>>
                   /\ FsMove(p, q) \/ DavMove(p, q) \/ Copy(p, q) => UNCHANGED <<media, moved>>
                   /\ Mkdir(p) \/ Delete(p) \/ LookPhoto(p) => UNCHANGED <<media, moved>>
                   /\ Lock(p) \/ Unlock(p) => UNCHANGED <<media, moved>>
                   /\ InsertRow(p) \/ RemoveRow(p) \/ Restore(p) \/ Purge(p) => UNCHANGED <<media, moved>>
  BY DEF PutFile, RestoreVersion, FsMove, DavMove, Copy, Mkdir, Delete, LookPhoto, Lock, Unlock,
         InsertRow, RemoveRow, Restore, Purge
<1>4. KillFiles \/ UNCHANGED filesVars => UNCHANGED <<media, moved>>
  BY DEF KillFiles, filesVars
<1>5. QED
  BY <1>1, <1>2, <1>3, <1>4 DEF FilesNext

\* MediaIndex::get and upsert, keyed on path and node: whatever was put, moved,
\* restored and indexed in any order, the timeline shows what belongs to the photo,
\* unless this very node was once looked up at this path and, before it was read,
\* another one put there.
THEOREM TimelineShowsThePhoto == FilesSpec => []TimelineTruthful
<1>1. FilesInit => MediaInv
  BY DEF FilesInit, MediaInv
<1>2. ASSUME MediaInv PROVE TimelineTruthful
  <2>. SUFFICES ASSUME NEW p, <<p, vtree[p]>> \notin moved PROVE Shown(p) = {vtree[p]}
    BY DEF TimelineTruthful
  <2>1. \A r \in Cached(p, vtree[p]) : r.of = vtree[p]
    BY <1>2 DEF MediaInv, Cached
  <2>2. QED
    BY <2>1 DEF Shown
<1>3. QED
  BY <1>1, <1>2, FilesNextMedia, PTL DEF FilesSpec

-----------------------------------------------------------------------------
(***************************************************************************)
(* The trees of a vault: finite, with files of FileContent; and the log of *)
(* its snapshots, which ends with the tree of the head.                    *)
(***************************************************************************)
Content == FileContent \cup {DirNode}

FilesTree(t) == IsTree(t) /\ IsFiniteSet(DOMAIN t) /\ \A q \in DOMAIN t : t[q] \in Content
FilesNode(n) == IsNode(n) /\ IsFiniteSet(DOMAIN n) /\ \A q \in DOMAIN n : n[q] \in Content

Snapshots == {t \in UNION {[S -> Content] : S \in SUBSET Path} : FilesTree(t)}

AllRows == rows \cup {d.row : d \in due}

RowOK(r) == r = [id |-> r.id, path |-> r.path, node |-> r.node]
            /\ r.id \in 1 .. edits /\ r.path \in AnyPath /\ FilesNode(r.node)

LogOK ==
    /\ vlog \in Seq(Snapshots)
    /\ vlog # <<>> => vlog[Len(vlog)] = vtree
    /\ vlog = <<>> => vtree = EmptyTree

TrashOK ==
    /\ IsFiniteSet(rows) /\ IsFiniteSet(due)
    /\ \A r \in AllRows : RowOK(r)
    /\ \A d \in due : d.todo \in {"insert", "remove"}

FilesInv ==
    /\ FilesTree(vtree) /\ LogOK /\ TrashOK /\ LocksInv
    /\ edits \in 0 .. MaxEdits /\ granted \in 0 .. MaxLocks
    /\ blunt \in BOOLEAN

LEMMA FilesTreeIsSnapshot == ASSUME NEW t, FilesTree(t) PROVE t \in Snapshots
<1>1. t \in [DOMAIN t -> Content] /\ DOMAIN t \in SUBSET Path
  BY DEF FilesTree, IsTree
<1>2. QED
  BY <1>1 DEF Snapshots

LEMMA FileNodeFilesNode == ASSUME NEW c \in Content PROVE FilesNode(FileNode(c))
<1>1. IsFiniteSet({<<>>})
  BY FS_Singleton
<1>2. QED
  BY <1>1, FileNodeIs DEF FilesNode

LEMMA WithoutFilesTree == ASSUME NEW t, FilesTree(t), NEW p \in Path PROVE FilesTree(Without(t, p))
  BY WithoutIs, WithoutFinite DEF FilesTree

LEMMA NodeAtFilesNode ==
    ASSUME NEW t, FilesTree(t), NEW p \in Path, Has(t, p)
    PROVE  FilesNode(NodeAt(t, p))
<1>1. IsNode(NodeAt(t, p)) /\ IsFiniteSet(DOMAIN NodeAt(t, p))
  BY NodeAtIs, NodeAtFinite DEF FilesTree
<1>2. \A x \in DOMAIN NodeAt(t, p) : p \o x \in DOMAIN t /\ NodeAt(t, p)[x] = t[p \o x]
  BY NodeAtIs DEF FilesTree
<1>3. QED
  BY <1>1, <1>2 DEF FilesTree, FilesNode

LEMMA WithFilesTree ==
    ASSUME NEW t, FilesTree(t), NEW p \in Path, MayHold(t, p), NEW n, FilesNode(n)
    PROVE  FilesTree(With(t, p, n))
<1>. DEFINE u == With(t, p, n)
<1>1. IsTree(t) /\ IsNode(n)
  BY DEF FilesTree, FilesNode
<1>2. /\ IsTree(u)
      /\ \A q \in Path : Above(p, q) =>
            /\ Has(u, q) <=> Tail2(p, q) \in DOMAIN n
            /\ Has(u, q) => u[q] = n[Tail2(p, q)]
      /\ \A q \in Path : ~Above(p, q) =>
            /\ Has(u, q) <=> Has(t, q) \/ q \in Parents(p)
            /\ Has(t, q) => u[q] = t[q]
            /\ q \in Parents(p) => u[q] = DirNode
  BY <1>1, WithIs
<1>3. IsFiniteSet(DOMAIN u)
  BY WithFinite DEF FilesTree, FilesNode
<1>. HIDE DEF u
<1>4. \A q \in DOMAIN u : q \in Path /\ Has(u, q)
  BY <1>2 DEF IsTree, Has
<1>5. \A q \in DOMAIN u : u[q] \in Content
  BY <1>2, <1>4 DEF FilesTree, FilesNode, Has, Content
<1>6. QED
  BY <1>2, <1>3, <1>5 DEF FilesTree, u

LEMMA FilesPaths ==
    /\ AnyPath \subseteq Path
    /\ \A p \in AnyPath : p # <<>> => Sibling(p) \in Path
<1>1. AnyPath \subseteq Path
  BY VaultFilesAssumption DEF Path
<1>2. ASSUME NEW p \in AnyPath, p # <<>> PROVE Sibling(p) \in Path
  <2>1. p \in Seq(STRING) /\ RestoredName(p[Len(p)]) \in STRING
    BY <1>2, VaultFilesAssumption
  <2>2. Len(p) \in 1 .. Len(p)
    BY <1>2, <2>1, EmptySeq
  <2>3. [p EXCEPT ![Len(p)] = RestoredName(p[Len(p)])] \in Seq(STRING)
    BY <2>1, <2>2, ExceptSeq
  <2>4. QED
    BY <2>3 DEF Sibling, Path
<1>3. QED
  BY <1>1, <1>2

\* A commit logs the tree that it makes the head's.
LEMMA CommitLogs ==
    ASSUME FilesInv, NEW t, FilesTree(t), Commit(t)
    PROVE  /\ FilesTree(vtree)' /\ LogOK'
           /\ edits' \in 0 .. MaxEdits /\ edits' = edits + 1
           /\ \A r : RowOK(r) => RowOK(r)'
<1>1. edits < MaxEdits /\ edits' = edits + 1 /\ vtree' = t /\ vlog' = Append(vlog, t)
  BY DEF Commit, Logged
<1>2. edits \in 0 .. MaxEdits /\ MaxEdits \in Nat /\ vlog \in Seq(Snapshots) /\ t \in Snapshots
  BY FilesTreeIsSnapshot, VaultFilesAssumption DEF FilesInv, LogOK
<1>3. /\ vlog' \in Seq(Snapshots) /\ Len(vlog') = Len(vlog) + 1
      /\ vlog'[Len(vlog) + 1] = t /\ vlog' # <<>>
  BY <1>1, <1>2, AppendProperties
<1>4. LogOK'
  BY <1>1, <1>3 DEF LogOK
<1>5. \A r : RowOK(r) => RowOK(r)'
  BY <1>1, <1>2 DEF RowOK
<1>6. QED
  BY <1>1, <1>2, <1>4, <1>5 DEF FilesTree

LEMMA SetLogs ==
    ASSUME FilesInv, NEW p \in Path, NEW n, FilesNode(n), Set(p, n)
    PROVE  /\ FilesTree(vtree)' /\ LogOK'
           /\ edits' \in 0 .. MaxEdits /\ edits' = edits + 1
           /\ \A r : RowOK(r) => RowOK(r)'
<1>1. FilesTree(With(vtree, p, n)) /\ Commit(With(vtree, p, n))
  BY WithFilesTree DEF Set, FilesInv
<1>2. QED
  BY <1>1, CommitLogs

LEMMA PutFileInv ==
    ASSUME FilesInv, NEW p \in AnyPath, NEW c \in FileContent, PutFile(p, c)
    PROVE  FilesInv'
<1>1. Set(p, FileNode(c)) /\ UNCHANGED <<rows, due, locks, granted, moved>>
      /\ blunt' = (blunt \/ (Has(vtree, p) /\ ~IsFile(vtree, p)))
  BY DEF PutFile
<1>2. /\ FilesTree(vtree)' /\ LogOK' /\ edits' \in 0 .. MaxEdits
      /\ \A r : RowOK(r) => RowOK(r)'
  BY <1>1, FilesPaths, FileNodeFilesNode, SetLogs DEF Content
<1>3. TrashOK'
  BY <1>1, <1>2 DEF FilesInv, TrashOK, AllRows
<1>4. QED
  BY <1>1, <1>2, <1>3 DEF FilesInv, LocksInv, OneLockPerToken

\* A version is a file's content.
LEMMA VersionsAreContent ==
    ASSUME FilesInv, NEW p, NEW c \in VersionsIn(vlog, p)
    PROVE  c \in FileContent
<1>. DEFINE back(i) == vlog[Len(vlog) + 1 - i]
<1>1. PICK i \in 1 .. Len(vlog) : IsFile(back(i), p) /\ c = back(i)[p]
  BY DEF VersionsIn
<1>2. Len(vlog) \in Nat /\ \A k \in 1 .. Len(vlog) : vlog[k] \in Snapshots
  BY DEF FilesInv, LogOK
<1>3. back(i) \in Snapshots
  BY <1>2
<1>4. QED
  BY <1>1, <1>3 DEF Snapshots, FilesTree, IsFile, Has, Content

LEMMA CopyInv ==
    ASSUME FilesInv, NEW p \in AnyPath, NEW q \in AnyPath, Copy(p, q)
    PROVE  FilesInv'
<1>1. vtree[p] \in FileContent /\ PutFile(q, vtree[p])
  BY DEF Copy, IsFile, Has, FilesInv, FilesTree, Content
<1>2. QED
  BY <1>1, PutFileInv

LEMMA MkdirInv ==
    ASSUME FilesInv, NEW p \in AnyPath, Mkdir(p)
    PROVE  FilesInv'
<1>1. Set(p, EmptyDir) /\ UNCHANGED <<rows, due, locks, granted, moved>>
      /\ blunt' = (blunt \/ Has(vtree, p))
  BY DEF Mkdir
<1>2. FilesNode(EmptyDir)
  BY FileNodeFilesNode DEF EmptyDir, Content
<1>3. /\ FilesTree(vtree)' /\ LogOK' /\ edits' \in 0 .. MaxEdits
      /\ \A r : RowOK(r) => RowOK(r)'
  BY <1>1, <1>2, FilesPaths, SetLogs
<1>4. TrashOK'
  BY <1>1, <1>3 DEF FilesInv, TrashOK, AllRows
<1>5. QED
  BY <1>1, <1>3, <1>4 DEF FilesInv, LocksInv, OneLockPerToken

LEMMA DeleteInv ==
    ASSUME FilesInv, NEW p \in AnyPath, Delete(p)
    PROVE  FilesInv'
<1>1. PICK row : row = [id |-> edits + 1, path |-> p, node |-> NodeAt(vtree, p)]
  OBVIOUS
<1>2. PICK d : d = [todo |-> "insert", row |-> row]
  OBVIOUS
<1>3. /\ Has(vtree, p) /\ Commit(Without(vtree, p)) /\ due' = due \cup {d}
      /\ UNCHANGED <<rows, locks, granted, blunt, moved>>
  BY <1>1, <1>2 DEF Delete
<1>4. FilesTree(Without(vtree, p)) /\ FilesNode(NodeAt(vtree, p))
  BY <1>3, FilesPaths, WithoutFilesTree, NodeAtFilesNode DEF FilesInv
<1>5. /\ FilesTree(vtree)' /\ LogOK' /\ edits' \in 0 .. MaxEdits /\ edits' = edits + 1
      /\ \A r : RowOK(r) => RowOK(r)'
  BY <1>3, <1>4, CommitLogs
<1>6. RowOK(row)'
  <2>1. edits \in Nat /\ edits' = edits + 1
    BY <1>5 DEF FilesInv
  <2>2. QED
    BY <1>1, <1>4, <2>1 DEF RowOK
<1>7. TrashOK'
  <2>1. \A x \in AllRows' : x \in AllRows \/ x = row
    BY <1>2, <1>3 DEF AllRows
  <2>2. IsFiniteSet(due')
    BY <1>3, FS_AddElement DEF FilesInv, TrashOK
  <2>3. \A x \in due' : x.todo \in {"insert", "remove"}
    BY <1>2, <1>3 DEF FilesInv, TrashOK
  <2>4. \A x \in AllRows' : RowOK(x)'
    BY <1>5, <1>6, <2>1 DEF FilesInv, TrashOK
  <2>5. QED
    BY <1>3, <2>2, <2>3, <2>4 DEF FilesInv, TrashOK
<1>8. QED
  BY <1>3, <1>5, <1>7 DEF FilesInv, LocksInv, OneLockPerToken

LEMMA RestoreTarget ==
    ASSUME FilesInv, NEW row \in rows
    PROVE  LET target == IF Has(vtree, row.path) THEN Sibling(row.path) ELSE row.path
           IN  target \in Path /\ FilesNode(row.node)
<1>1. row.path \in AnyPath /\ FilesNode(row.node)
  BY DEF FilesInv, TrashOK, AllRows, RowOK
<1>2. Has(vtree, row.path) => row.path # <<>>
  BY DEF FilesInv, FilesTree, IsTree, WellFormed, Has
<1>3. QED
  BY <1>1, <1>2, FilesPaths

LEMMA RestoreInv ==
    ASSUME FilesInv, NEW row \in rows, Restore(row)
    PROVE  FilesInv'
<1>. DEFINE target == IF Has(vtree, row.path) THEN Sibling(row.path) ELSE row.path
            d == [todo |-> "remove", row |-> row]
<1>1. /\ Set(target, row.node) /\ due' = due \cup {d}
      /\ UNCHANGED <<rows, locks, granted, blunt, moved>>
  BY DEF Restore
<1>2. /\ FilesTree(vtree)' /\ LogOK' /\ edits' \in 0 .. MaxEdits
      /\ \A r : RowOK(r) => RowOK(r)'
  BY <1>1, RestoreTarget, SetLogs
<1>3. TrashOK'
  <2>1. \A x \in AllRows' : x \in AllRows
    BY <1>1 DEF AllRows
  <2>2. IsFiniteSet(due')
    BY <1>1, FS_AddElement DEF FilesInv, TrashOK
  <2>3. \A x \in due' : x.todo \in {"insert", "remove"}
    BY <1>1 DEF FilesInv, TrashOK
  <2>4. QED
    BY <1>1, <1>2, <2>1, <2>2, <2>3 DEF FilesInv, TrashOK
<1>4. QED
  BY <1>1, <1>2, <1>3 DEF FilesInv, LocksInv, OneLockPerToken

LEMMA MoveToLogs ==
    ASSUME FilesInv, NEW p \in AnyPath, NEW q \in AnyPath, MoveTo(p, q)
    PROVE  /\ FilesTree(vtree)' /\ LogOK'
           /\ edits' \in 0 .. MaxEdits /\ edits' = edits + 1
           /\ \A r : RowOK(r) => RowOK(r)'
<1>. DEFINE node == NodeAt(vtree, p)
            gone == Without(vtree, p)
<1>1. Has(vtree, p) /\ MayHold(gone, q) /\ Commit(With(gone, q, node))
  BY DEF MoveTo
<1>2. FilesTree(gone) /\ FilesNode(node) /\ q \in Path
  BY <1>1, FilesPaths, WithoutFilesTree, NodeAtFilesNode DEF FilesInv
<1>. HIDE DEF node, gone
<1>3. FilesTree(With(gone, q, node))
  BY <1>1, <1>2, WithFilesTree
<1>4. QED
  BY <1>1, <1>3, CommitLogs

LEMMA MovesInv ==
    ASSUME FilesInv, NEW p \in AnyPath, NEW q \in AnyPath, FsMove(p, q) \/ DavMove(p, q)
    PROVE  FilesInv'
<1>1. MoveTo(p, q) /\ UNCHANGED <<rows, due, granted, blunt, moved>>
  BY DEF FsMove, DavMove
<1>2. /\ FilesTree(vtree)' /\ LogOK' /\ edits' \in 0 .. MaxEdits
      /\ \A r : RowOK(r) => RowOK(r)'
  BY <1>1, MoveToLogs
<1>3. LocksInv'
  <2>1. CASE FsMove(p, q)
    BY <2>1, LocksFewer DEF FsMove, FilesInv
  <2>2. CASE DavMove(p, q)
    BY <2>2, DavMoveLocks DEF FilesInv
  <2>3. QED
    BY <2>1, <2>2
<1>4. TrashOK'
  BY <1>1, <1>2 DEF FilesInv, TrashOK, AllRows
<1>5. QED
  BY <1>1, <1>2, <1>3, <1>4 DEF FilesInv

\* gc keeps the newest snapshots.
LEMMA PurgeInv ==
    ASSUME FilesInv, NEW row, Purge(row)
    PROVE  FilesInv'
<1>1. /\ UNCHANGED <<vtree, edits, due, locks, granted, blunt, moved>>
      /\ rows' = rows \ {row}
      /\ vlog' = IF Len(vlog) > GC_HISTORY
                 THEN SubSeq(vlog, Len(vlog) - GC_HISTORY + 1, Len(vlog)) ELSE vlog
  BY DEF Purge
<1>2. LogOK'
  <2>1. CASE Len(vlog) > GC_HISTORY
    <3>. DEFINE m == Len(vlog) - GC_HISTORY + 1
    <3>1. Len(vlog) \in Nat /\ GC_HISTORY \in Nat \ {0} /\ vlog \in Seq(Snapshots)
      BY VaultFilesAssumption DEF FilesInv, LogOK
    <3>2. m \in Int /\ m >= 1 /\ m <= Len(vlog) /\ \A i \in m .. Len(vlog) : vlog[i] \in Snapshots
      BY <2>1, <3>1
    <3>. HIDE DEF m
    <3>3. /\ SubSeq(vlog, m, Len(vlog)) \in Seq(Snapshots)
          /\ Len(SubSeq(vlog, m, Len(vlog))) = Len(vlog) - m + 1
          /\ \A i \in 1 .. Len(vlog) - m + 1 : SubSeq(vlog, m, Len(vlog))[i] = vlog[m + i - 1]
      BY <3>1, <3>2, SubSeqProperties
    <3>4. vlog' = SubSeq(vlog, m, Len(vlog))
      BY <1>1, <2>1 DEF m
    <3>5. /\ vlog' \in Seq(Snapshots) /\ Len(vlog') = Len(vlog) - m + 1
          /\ Len(vlog) - m + 1 \in 1 .. Len(vlog) - m + 1 /\ m + (Len(vlog) - m + 1) - 1 = Len(vlog)
      BY <3>1, <3>2, <3>3, <3>4
    <3>6. vlog'[Len(vlog')] = vlog[Len(vlog)]
      BY <3>3, <3>4, <3>5
    <3>7. vlog # <<>>
      BY <2>1, <3>1, EmptySeq
    <3>8. vlog' # <<>>
      BY <3>1, <3>2, <3>5, EmptySeq
    <3>9. QED
      BY <1>1, <3>5, <3>7, <3>6, <3>8 DEF FilesInv, LogOK
  <2>2. CASE ~(Len(vlog) > GC_HISTORY)
    BY <1>1, <2>2 DEF FilesInv, LogOK
  <2>3. QED
    BY <2>1, <2>2
<1>3. TrashOK'
  <2>1. \A x \in AllRows' : x \in AllRows
    BY <1>1 DEF AllRows
  <2>2. IsFiniteSet(rows')
    BY <1>1, FS_RemoveElement DEF FilesInv, TrashOK
  <2>3. QED
    BY <1>1, <2>1, <2>2 DEF FilesInv, TrashOK, RowOK
<1>4. QED
  BY <1>1, <1>2, <1>3 DEF FilesInv, FilesTree, LocksInv, OneLockPerToken

\* What is done in the trash table after a commit, or not done after a kill.
LEMMA RowsInv ==
    ASSUME FilesInv, NEW d, InsertRow(d) \/ RemoveRow(d)
    PROVE  FilesInv'
<1>1. d \in due /\ UNCHANGED <<vtree, vlog, edits, locks, granted, blunt, moved>>
      /\ (rows' = rows \cup {d.row} \/ rows' = rows \ {d.row}) /\ due' = due \ {d}
  BY DEF InsertRow, RemoveRow
<1>2. \A x \in AllRows' : x \in AllRows
  BY <1>1 DEF AllRows
<1>3. IsFiniteSet(rows') /\ IsFiniteSet(due')
  BY <1>1, FS_AddElement, FS_RemoveElement DEF FilesInv, TrashOK
<1>4. TrashOK'
  BY <1>1, <1>2, <1>3 DEF FilesInv, TrashOK, RowOK
<1>5. QED
  BY <1>1, <1>4 DEF FilesInv, FilesTree, LogOK, LocksInv, OneLockPerToken

LEMMA KillFilesInv ==
    ASSUME FilesInv, KillFiles
    PROVE  FilesInv'
<1>1. UNCHANGED <<vtree, vlog, edits, rows, granted, blunt, moved>> /\ due' = {} /\ locks' = {}
  BY DEF KillFiles
<1>2. TrashOK'
  BY <1>1, FS_EmptySet DEF FilesInv, TrashOK, AllRows, RowOK
<1>3. QED
  BY <1>1, <1>2 DEF FilesInv, FilesTree, LogOK, LocksInv, OneLockPerToken

LEMMA RegistryInv ==
    ASSUME FilesInv, NEW p, Lock(p) \/ Unlock(p)
    PROVE  FilesInv'
<1>1. UNCHANGED <<vtree, vlog, edits, rows, due, blunt, moved>>
  BY DEF Lock, Unlock
<1>2. LocksInv' /\ granted' \in 0 .. MaxLocks
  <2>1. CASE Lock(p)
    <3>1. MaxLocks \in Nat /\ granted \in Nat /\ granted < MaxLocks /\ granted' = granted + 1
      BY <2>1, VaultFilesAssumption DEF FilesInv, LocksInv, Lock
    <3>2. QED
      BY <2>1, <3>1, LockInv DEF FilesInv
  <2>2. CASE Unlock(p)
    BY <2>2, LocksFewer DEF FilesInv, Unlock
  <2>3. QED
    BY <2>1, <2>2
<1>3. QED
  BY <1>1, <1>2 DEF FilesInv, FilesTree, LogOK, TrashOK, AllRows, RowOK

LEMMA TimelineInv ==
    ASSUME FilesInv, ReadPhoto \/ (\E p : LookPhoto(p)) \/ UNCHANGED filesVars
    PROVE  FilesInv'
<1>1. UNCHANGED <<vtree, vlog, edits, rows, due, locks, granted, blunt>>
  BY DEF ReadPhoto, LookPhoto, filesVars
<1>2. QED
  BY <1>1 DEF FilesInv, FilesTree, LogOK, TrashOK, AllRows, RowOK, LocksInv, OneLockPerToken

LEMMA FilesNextInv == FilesInv /\ [FilesNext]_filesVars => FilesInv'
<1>. SUFFICES ASSUME FilesInv, [FilesNext]_filesVars PROVE FilesInv'
  OBVIOUS
<1>1. ASSUME NEW p \in AnyPath, NEW c \in FileContent, PutFile(p, c) \/ RestoreVersion(p, c) PROVE FilesInv'
  BY <1>1, PutFileInv DEF RestoreVersion
<1>2. ASSUME NEW p \in AnyPath, NEW q \in AnyPath, FsMove(p, q) \/ DavMove(p, q) \/ Copy(p, q) PROVE FilesInv'
  BY <1>2, MovesInv, CopyInv
<1>3. ASSUME NEW p \in AnyPath, Mkdir(p) \/ Delete(p) \/ Lock(p) \/ Unlock(p) \/ LookPhoto(p) PROVE FilesInv'
  BY <1>3, MkdirInv, DeleteInv, RegistryInv, TimelineInv
<1>4. ASSUME NEW d, InsertRow(d) \/ RemoveRow(d) PROVE FilesInv'
  BY <1>4, RowsInv
<1>5. ASSUME NEW row \in rows, Restore(row) \/ Purge(row) PROVE FilesInv'
  BY <1>5, RestoreInv, PurgeInv
<1>6. CASE ReadPhoto \/ KillFiles \/ UNCHANGED filesVars
  BY <1>6, TimelineInv, KillFilesInv
<1>7. QED
  BY <1>1, <1>2, <1>3, <1>4, <1>5, <1>6 DEF FilesNext

LEMMA FilesInitInv == FilesInit => FilesInv
<1>. SUFFICES ASSUME FilesInit PROVE FilesInv
  OBVIOUS
<1>1. FilesTree(vtree)
  BY EmptyTreeIs, FS_EmptySet DEF FilesInit, FilesTree
<1>2. LogOK
  BY EmptySeq DEF FilesInit, LogOK
<1>3. TrashOK /\ LocksInv
  BY FS_EmptySet DEF FilesInit, TrashOK, AllRows, LocksInv, OneLockPerToken
<1>4. MaxEdits \in Nat /\ MaxLocks \in Nat
  BY VaultFilesAssumption
<1>5. edits \in 0 .. MaxEdits /\ granted \in 0 .. MaxLocks /\ blunt = FALSE
  BY <1>4 DEF FilesInit
<1>6. QED
  BY <1>1, <1>2, <1>3, <1>5 DEF FilesInv

\* vault.rs, api.rs, webdav.rs: the head's tree and every snapshot kept stay trees,
\* with a directory wherever something is below, and the newest one is the head's.
THEOREM FilesTyped == FilesSpec => []FilesTypeOK
<1>1. ASSUME FilesInv PROVE FilesTypeOK
  <2>1. \A i \in DOMAIN vlog : WellFormed(vlog[i])
    <3>1. \A i \in DOMAIN vlog : vlog[i] \in Snapshots
      BY <1>1 DEF FilesInv, LogOK
    <3>2. QED
      BY <3>1 DEF Snapshots, FilesTree, IsTree
  <2>2. QED
    BY <1>1, <2>1 DEF FilesTypeOK, FilesInv, FilesTree, IsTree, Content, LogOK, LocksInv, TrashOK
<1>2. QED
  BY <1>1, FilesInitInv, FilesNextInv, PTL DEF FilesSpec

-----------------------------------------------------------------------------
(***************************************************************************)
(* Versions: what a commit takes off a path is next to it in the log.      *)
(***************************************************************************)
LEMMA OnlyCommitsChangeTheTree ==
    ASSUME [FilesNext]_filesVars
    PROVE  vtree' = vtree \/ \E t : Commit(t)
<1>1. ASSUME NEW p, NEW c, PutFile(p, c) \/ RestoreVersion(p, c) PROVE \E t : Commit(t)
  BY <1>1 DEF PutFile, RestoreVersion, Set
<1>2. ASSUME NEW p, NEW q, FsMove(p, q) \/ DavMove(p, q) \/ Copy(p, q) PROVE \E t : Commit(t)
  BY <1>2 DEF FsMove, DavMove, MoveTo, Copy, PutFile, Set
<1>3. ASSUME NEW p, Mkdir(p) \/ Delete(p) \/ Restore(p) PROVE \E t : Commit(t)
  BY <1>3 DEF Mkdir, Delete, Restore, Set
<1>4. ASSUME NEW p, \/ Lock(p) \/ Unlock(p) \/ LookPhoto(p) \/ InsertRow(p) \/ RemoveRow(p) \/ Purge(p)
                    \/ ReadPhoto \/ KillFiles \/ UNCHANGED filesVars
      PROVE  vtree' = vtree
  BY <1>4 DEF Lock, Unlock, LookPhoto, InsertRow, RemoveRow, Purge, ReadPhoto, KillFiles, filesVars
<1>. SUFFICES ASSUME vtree' # vtree PROVE \E t : Commit(t)
  OBVIOUS
<1>5. FilesNext
  BY <1>4
<1>6. CASE \E p \in AnyPath :
             \/ \E c \in FileContent : PutFile(p, c) \/ RestoreVersion(p, c)
             \/ \E q \in AnyPath : FsMove(p, q) \/ DavMove(p, q) \/ Copy(p, q)
             \/ Mkdir(p) \/ Delete(p) \/ Lock(p) \/ Unlock(p) \/ LookPhoto(p)
  BY <1>1, <1>2, <1>3, <1>4, <1>6
<1>7. CASE \/ \E d \in due : InsertRow(d) \/ RemoveRow(d)
           \/ \E row \in rows : Restore(row) \/ Purge(row)
           \/ ReadPhoto \/ KillFiles
  BY <1>3, <1>4, <1>7
<1>8. QED
  BY <1>5, <1>6, <1>7 DEF FilesNext

LEMMA ReplacedIsAVersion ==
    ASSUME FilesInv, NEW t, Commit(t), NEW p \in Files(vtree),
           ~(IsFile(vtree', p) /\ vtree'[p] = vtree[p])
    PROVE  vtree[p] \in VersionsIn(vlog', p)
<1>. DEFINE L == Len(vlog)
            back(i) == vlog'[Len(vlog') + 1 - i]
            fresh == {i \in 1 .. Len(vlog') : /\ IsFile(back(i), p)
                                              /\ \A j \in 1 .. i - 1 :
                                                    IsFile(back(j), p) => back(j)[p] # back(i)[p]}
<1>1. vtree' = t /\ vlog' = Append(vlog, t) /\ vlog \in Seq(Snapshots \cup {t})
  BY DEF Commit, Logged, FilesInv, LogOK
<1>2. vlog # <<>> /\ vlog[L] = vtree
  BY EmptyTreeIs DEF FilesInv, LogOK, Files
<1>3. L \in Nat /\ L >= 1
  BY <1>1, <1>2, EmptySeq
<1>4. /\ Len(vlog') = L + 1 /\ vlog'[L + 1] = t
      /\ \A i \in 1 .. L : vlog'[i] = vlog[i]
  BY <1>1, AppendProperties
<1>5. back(1) = t /\ back(2) = vtree
  <2>1. Len(vlog') + 1 - 1 = L + 1 /\ Len(vlog') + 1 - 2 = L /\ L \in 1 .. L
    BY <1>3, <1>4
  <2>2. QED
    BY <1>2, <1>4, <2>1
<1>6. IsFile(vtree, p)
  BY DEF Files, IsFile, Has
<1>7. 2 \in fresh
  <2>1. 2 \in 1 .. Len(vlog')
    BY <1>3, <1>4
  <2>2. \A j \in 1 .. 2 - 1 : j = 1
    OBVIOUS
  <2>. HIDE DEF back
  <2>3. \A j \in 1 .. 2 - 1 : IsFile(back(j), p) => back(j)[p] # back(2)[p]
    BY <1>1, <1>5, <2>2
  <2>4. IsFile(back(2), p)
    BY <1>5, <1>6
  <2>5. QED
    BY <2>1, <2>3, <2>4
<1>8. Cardinality({j \in fresh : j < 2}) < VersionLimit
  <2>1. \A j \in fresh : j \in 1 .. Len(vlog')
    OBVIOUS
  <2>. HIDE DEF fresh
  <2>2. {j \in fresh : j < 2} \in SUBSET {1}
    BY <1>4, <1>3, <2>1
  <2>3. IsFiniteSet({1}) /\ Cardinality({1}) = 1
    BY FS_Singleton
  <2>4. Cardinality({j \in fresh : j < 2}) <= 1 /\ Cardinality({j \in fresh : j < 2}) \in Nat
    BY <2>2, <2>3, FS_Subset, FS_CardinalityType
  <2>5. VersionLimit \in Nat /\ VersionLimit # 0 /\ VersionLimit # 1
    BY VaultFilesAssumption
  <2>6. QED
    BY <2>4, <2>5
<1>9. VersionsIn(vlog', p) = {back(i)[p] : i \in {m \in fresh : Cardinality({j \in fresh : j < m}) < VersionLimit}}
  BY DEF VersionsIn
<1>. HIDE DEF fresh, back
<1>10. back(2)[p] \in VersionsIn(vlog', p)
  BY <1>7, <1>8, <1>9
<1>11. QED
  BY <1>5, <1>10

\* Vault::commit and Vault::versions: whatever is put, moved, restored, deleted or
\* purged, the content that a change takes off a path is a version of it afterwards.
THEOREM ReplacedStaysAVersion == FilesSpec => ChangesLeaveVersions
<1>. DEFINE Leaves == \A p \in Files(vtree) :
                         ~(IsFile(vtree', p) /\ vtree'[p] = vtree[p]) => vtree[p] \in VersionsIn(vlog', p)
<1>1. ASSUME FilesInv, [FilesNext]_filesVars PROVE [Leaves]_filesVars
  <2>1. CASE vtree' = vtree
    BY <2>1 DEF Files, IsFile, Has
  <2>2. CASE \E t : Commit(t)
    BY <1>1, <2>2, ReplacedIsAVersion
  <2>3. QED
    BY <1>1, <2>1, <2>2, OnlyCommitsChangeTheTree
<1>2. ChangesLeaveVersions <=> [][Leaves]_filesVars
  BY DEF ChangesLeaveVersions
<1>. HIDE DEF Leaves
<1>3. QED
  BY <1>1, <1>2, FilesInitInv, FilesNextInv, PTL DEF FilesSpec

-----------------------------------------------------------------------------
(***************************************************************************)
(* Files: a change puts each place where a file is held into one where it  *)
(* is held afterwards, or one where it is overwritten.                     *)
(***************************************************************************)
HeldIn(t, R, c) ==
    {<<0, q>> : q \in {x \in DOMAIN t : t[x] = c}}
    \cup UNION {{<<r.id, q>> : q \in {x \in DOMAIN r.node : r.node[x] = c}} : r \in R}

LEMMA HeldIs ==
    /\ \A c : Held(c) = HeldIn(vtree, AllRows, c)
    /\ \A c : Held(c)' = HeldIn(vtree', AllRows', c)
<1>1. \A c : Held(c) = HeldIn(vtree, AllRows, c)
  BY DEF Held, HeldIn, AllRows
<1>2. \A c : Held(c)' = HeldIn(vtree', AllRows', c)
  BY DEF Held, HeldIn, AllRows
<1>3. QED
  BY <1>1, <1>2

LEMMA HeldInIs ==
    ASSUME NEW t, NEW R, NEW c, NEW x
    PROVE  x \in HeldIn(t, R, c) <=>
              \/ \E q \in DOMAIN t : t[q] = c /\ x = <<0, q>>
              \/ \E r \in R : \E q \in DOMAIN r.node : r.node[q] = c /\ x = <<r.id, q>>
<1>1. x \in {<<0, q>> : q \in {y \in DOMAIN t : t[y] = c}} <=> \E q \in DOMAIN t : t[q] = c /\ x = <<0, q>>
  OBVIOUS
<1>2. \A r : x \in {<<r.id, q>> : q \in {y \in DOMAIN r.node : r.node[y] = c}} <=>
                \E q \in DOMAIN r.node : r.node[q] = c /\ x = <<r.id, q>>
  OBVIOUS
<1>3. x \in UNION {{<<r.id, q>> : q \in {y \in DOMAIN r.node : r.node[y] = c}} : r \in R} <=>
         \E r \in R : x \in {<<r.id, q>> : q \in {y \in DOMAIN r.node : r.node[y] = c}}
  OBVIOUS
<1>4. QED
  BY <1>1, <1>2, <1>3 DEF HeldIn

LEMMA HeldInFinite ==
    ASSUME NEW t, IsFiniteSet(DOMAIN t), NEW R, IsFiniteSet(R),
           \A r \in R : IsFiniteSet(DOMAIN r.node), NEW c
    PROVE  IsFiniteSet(HeldIn(t, R, c))
<1>. DEFINE A == {x \in DOMAIN t : t[x] = c}
            f == [q \in A |-> <<0, q>>]
            part(r) == {<<r.id, q>> : q \in {x \in DOMAIN r.node : r.node[x] = c}}
            g == [r \in R |-> part(r)]
<1>1. IsFiniteSet({<<0, q>> : q \in A})
  <2>1. IsFiniteSet(DOMAIN f)
    BY FS_Subset
  <2>2. {<<0, q>> : q \in A} = {f[q] : q \in DOMAIN f}
    OBVIOUS
  <2>. HIDE DEF f
  <2>3. QED
    BY <2>1, <2>2, ImageFinite
<1>2. ASSUME NEW r \in R PROVE IsFiniteSet(part(r))
  <2>. DEFINE B == {x \in DOMAIN r.node : r.node[x] = c}
              h == [q \in B |-> <<r.id, q>>]
  <2>1. IsFiniteSet(DOMAIN h)
    BY FS_Subset
  <2>2. part(r) = {h[q] : q \in DOMAIN h}
    OBVIOUS
  <2>. HIDE DEF h
  <2>3. QED
    BY <2>1, <2>2, ImageFinite
<1>3. IsFiniteSet({g[r] : r \in DOMAIN g})
  <2>1. IsFiniteSet(DOMAIN g)
    OBVIOUS
  <2>. HIDE DEF g
  <2>2. QED
    BY <2>1, ImageFinite
<1>4. {g[r] : r \in DOMAIN g} = {part(r) : r \in R}
  BY Zenon
<1>5. \A T \in {part(r) : r \in R} : IsFiniteSet(T)
  BY <1>2
<1>6. HeldIn(t, R, c) = {<<0, q>> : q \in A} \cup UNION {part(r) : r \in R}
  BY DEF HeldIn
<1>. HIDE DEF A, f, part, g
<1>7. IsFiniteSet(UNION {part(r) : r \in R})
  BY <1>3, <1>4, <1>5, FS_UNION
<1>8. \A X, Y : IsFiniteSet(X) /\ IsFiniteSet(Y) => IsFiniteSet(X \cup Y)
  BY FS_Union
<1>9. IsFiniteSet({<<0, q>> : q \in A} \cup UNION {part(r) : r \in R})
  BY <1>1, <1>7, <1>8, Zenon
<1>10. QED
  BY <1>6, <1>9, Zenon

LEMMA HeldFinite ==
    ASSUME NEW t, FilesTree(t), NEW R, NEW D, IsFiniteSet(R), IsFiniteSet(D),
           \A r \in R \cup {d.row : d \in D} : FilesNode(r.node), NEW c
    PROVE  /\ IsFiniteSet(HeldIn(t, R \cup {d.row : d \in D}, c))
           /\ Cardinality(HeldIn(t, R \cup {d.row : d \in D}, c)) \in Nat
<1>. DEFINE f == [d \in D |-> d.row]
            E == {d.row : d \in D}
<1>1. E = {f[d] : d \in DOMAIN f} /\ IsFiniteSet(DOMAIN f)
  OBVIOUS
<1>. HIDE DEF f
<1>2. IsFiniteSet(E)
  BY <1>1, ImageFinite
<1>. HIDE DEF E
<1>3. IsFiniteSet(R \cup E)
  BY <1>2, FS_Union
<1>4. \A r \in R \cup E : IsFiniteSet(DOMAIN r.node)
  BY DEF FilesNode, E
<1>5. IsFiniteSet(HeldIn(t, R \cup E, c))
  BY <1>3, <1>4, HeldInFinite DEF FilesTree
<1>6. QED
  BY <1>5, FS_CardinalityType DEF E

LEMMA HeldCounts ==
    ASSUME FilesInv, FilesInv', NEW c
    PROVE  /\ IsFiniteSet(Held(c)) /\ Cardinality(Held(c)) \in Nat
           /\ IsFiniteSet(Held(c)') /\ Cardinality(Held(c)') \in Nat
           /\ IsFiniteSet(Overwritten(c)) /\ Cardinality(Overwritten(c)) \in Nat
<1>1. IsFiniteSet(Held(c)) /\ Cardinality(Held(c)) \in Nat
  BY HeldIs, HeldFinite DEF FilesInv, TrashOK, AllRows, RowOK
<1>2. IsFiniteSet(Held(c)') /\ Cardinality(Held(c)') \in Nat
  <2>1. /\ FilesTree(vtree') /\ IsFiniteSet(rows') /\ IsFiniteSet(due')
        /\ \A r \in rows' \cup {d.row : d \in due'} : FilesNode(r.node)
    BY DEF FilesInv, TrashOK, AllRows, RowOK, FilesTree, FilesNode, Content
  <2>2. QED
    BY <2>1, HeldIs, HeldFinite DEF AllRows
<1>3. Overwritten(c) \in SUBSET DOMAIN vtree /\ IsFiniteSet(DOMAIN vtree)
  BY DEF Overwritten, FilesInv, FilesTree
<1>4. QED
  BY <1>1, <1>2, <1>3, FS_Subset, FS_CardinalityType

KeepsFile(c) == Cardinality(Held(c)') + Cardinality(Overwritten(c)) >= Cardinality(Held(c))

LEMMA KeptOrOverwritten ==
    ASSUME FilesInv, FilesInv', NEW c,
           Held(c) \subseteq Held(c)' \cup {<<0, q>> : q \in Overwritten(c)}
    PROVE  KeepsFile(c)
<1>. DEFINE f == [q \in Overwritten(c) |-> <<0, q>>]
            A == Held(c)
            B == Held(c)'
            C == {<<0, q>> : q \in Overwritten(c)}
<1>1. IsFiniteSet(DOMAIN f) /\ C = {f[q] : q \in DOMAIN f} /\ DOMAIN f = Overwritten(c)
  BY HeldCounts
<1>2. /\ IsFiniteSet(B) /\ Cardinality(A) \in Nat /\ Cardinality(B) \in Nat
      /\ Cardinality(Overwritten(c)) \in Nat /\ A \in SUBSET (B \cup C)
  BY HeldCounts
<1>. HIDE DEF f, A, B, C
<1>3. IsFiniteSet(C) /\ Cardinality(C) <= Cardinality(Overwritten(c))
  BY <1>1, ImageFinite
<1>4. Cardinality(C) \in Nat /\ Cardinality(B \cap C) \in Nat /\ IsFiniteSet(B \cup C)
      /\ Cardinality(B \cup C) = Cardinality(B) + Cardinality(C) - Cardinality(B \cap C)
  BY <1>2, <1>3, FS_CardinalityType, FS_Union, FS_Intersection
<1>5. Cardinality(A) <= Cardinality(B \cup C)
  BY <1>2, <1>4, FS_Subset
<1>6. Cardinality(A) <= Cardinality(B) + Cardinality(Overwritten(c))
  BY <1>2, <1>3, <1>4, <1>5
<1>7. QED
  BY <1>2, <1>6 DEF KeepsFile, A, B

LEMMA KeptElsewhere ==
    ASSUME FilesInv, FilesInv', NEW c, NEW f \in [Held(c) -> Held(c)'],
           \A x, y \in Held(c) : f[x] = f[y] => x = y
    PROVE  KeepsFile(c)
<1>1. Cardinality(Held(c)) <= Cardinality(Held(c)')
  BY HeldCounts, NoFewer
<1>2. QED
  BY <1>1, HeldCounts DEF KeepsFile

\* Nothing is below a path that is not there, so what is put there takes nothing away.
LEMMA FreeTakesNothing ==
    ASSUME NEW t, IsTree(t), NEW p \in Path, ~Has(t, p), MayHold(t, p), NEW n, IsNode(n)
    PROVE  \A q \in DOMAIN t : /\ ~Above(p, q)
                               /\ q \in DOMAIN With(t, p, n) /\ With(t, p, n)[q] = t[q]
<1>. SUFFICES ASSUME NEW q \in DOMAIN t
              PROVE  /\ ~Above(p, q)
                     /\ q \in DOMAIN With(t, p, n) /\ With(t, p, n)[q] = t[q]
  OBVIOUS
<1>1. q \in Path /\ p # <<>>
  BY DEF IsTree, MayHold
<1>2. ~Above(p, q)
  BY <1>1, AboveIsADirectory DEF Has
<1>3. QED
  BY <1>1, <1>2, WithIs DEF Has

LEMMA FreeKeeps ==
    ASSUME FilesInv, FilesInv', NEW p \in Path, ~Has(vtree, p), NEW n, IsNode(n), Set(p, n),
           UNCHANGED rows, due \subseteq due', NEW c
    PROVE  KeepsFile(c)
<1>1. MayHold(vtree, p) /\ vtree' = With(vtree, p, n)
  BY DEF Set, Commit
<1>2. \A q \in DOMAIN vtree : q \in DOMAIN vtree' /\ vtree'[q] = vtree[q]
  BY <1>1, FreeTakesNothing DEF FilesInv, FilesTree
<1>3. AllRows \subseteq AllRows'
  BY DEF AllRows
<1>4. ASSUME NEW x \in Held(c) PROVE x \in Held(c)'
  BY <1>2, <1>3, HeldIs, HeldInIs
<1>5. QED
  BY <1>4, KeptOrOverwritten

LEMMA PutFileKeeps ==
    ASSUME FilesInv, FilesInv', NEW p \in AnyPath, NEW new \in FileContent, PutFile(p, new), ~blunt',
           NEW c \in FileContent
    PROVE  KeepsFile(c)
<1>. DEFINE n == FileNode(new)
<1>1. /\ Set(p, n) /\ MayHold(vtree, p) /\ vtree' = With(vtree, p, n)
      /\ UNCHANGED <<rows, due>> /\ (Has(vtree, p) => IsFile(vtree, p))
  BY DEF PutFile, Set, Commit
<1>2. p \in Path /\ p # <<>> /\ IsTree(vtree) /\ IsNode(n) /\ DOMAIN n = {<<>>} /\ n[<<>>] = new
  BY <1>1, FilesPaths, FileNodeIs DEF MayHold, FilesInv, FilesTree
<1>. HIDE DEF n
<1>3. Has(vtree', p) /\ vtree'[p] = new
  BY <1>1, <1>2, WithIs, TailOfSelf, AboveReflexive
<1>4. ASSUME NEW q \in DOMAIN vtree, q # p PROVE q \in DOMAIN vtree' /\ vtree'[q] = vtree[q]
  <2>1. q \in Path
    BY <1>2 DEF IsTree
  <2>2. ~Above(p, q)
    BY <1>1, <1>2, <1>4, <2>1, AboveIsADirectory DEF IsFile
  <2>3. QED
    BY <1>1, <1>2, <2>1, <2>2, WithIs DEF Has
<1>5. AllRows' = AllRows
  BY <1>1 DEF AllRows
<1>6. new # DirNode
  BY VaultFilesAssumption
<1>7. ASSUME NEW x \in Held(c) PROVE x \in Held(c)' \cup {<<0, q>> : q \in Overwritten(c)}
  <2>1. CASE \E r \in AllRows : \E q \in DOMAIN r.node : r.node[q] = c /\ x = <<r.id, q>>
    BY <1>5, <2>1, HeldIs, HeldInIs
  <2>2. ASSUME NEW q \in DOMAIN vtree, vtree[q] = c, x = <<0, q>>, q # p \/ new = c PROVE x \in Held(c)'
    BY <1>3, <1>4, <2>2, HeldIs, HeldInIs DEF Has
  <2>3. ASSUME p \in DOMAIN vtree, vtree[p] = c, x = <<0, p>>, new # c PROVE p \in Overwritten(c)
    BY <1>3, <1>6, <2>3 DEF Overwritten, IsFile
  <2>4. QED
    BY <2>1, <2>2, <2>3, HeldIs, HeldInIs
<1>8. QED
  BY <1>7, KeptOrOverwritten

\* What is deleted is in the row that is to be inserted.
LEMMA DeleteKeeps ==
    ASSUME FilesInv, FilesInv', NEW p \in AnyPath, Delete(p), NEW c
    PROVE  KeepsFile(c)
<1>. DEFINE n == NodeAt(vtree, p)
            row == [id |-> edits + 1, path |-> p, node |-> n]
            f == [x \in Held(c) |-> IF x[1] = 0 /\ Above(p, x[2])
                                    THEN <<edits + 1, Tail2(p, x[2])>> ELSE x]
<1>1. /\ vtree' = Without(vtree, p) /\ UNCHANGED rows
      /\ due' = due \cup {[todo |-> "insert", row |-> row]}
  BY DEF Delete, Commit
<1>2. AllRows \subseteq AllRows' /\ row \in AllRows'
  <2>1. PICK d : d = [todo |-> "insert", row |-> row]
    OBVIOUS
  <2>2. d \in due' /\ d.row = row /\ due \subseteq due' /\ rows' = rows
    BY <1>1, <2>1
  <2>3. QED
    BY <2>2 DEF AllRows
<1>3. p \in Path /\ IsTree(vtree) /\ DOMAIN vtree \subseteq Path /\ edits \in Nat
  BY FilesPaths DEF FilesInv, FilesTree, IsTree
<1>4. /\ \A x \in Path : x \in DOMAIN n <=> p \o x \in DOMAIN vtree
      /\ \A x \in DOMAIN n : n[x] = vtree[p \o x]
  BY <1>3, NodeAtIs
<1>5. ASSUME NEW x \in Held(c)
      PROVE  /\ f[x] \in Held(c)'
             /\ \/ \E q \in Path : Above(p, q) /\ x = <<0, q>> /\ f[x] = <<edits + 1, Tail2(p, q)>>
                \/ f[x] = x /\ x[1] # edits + 1
  <2>1. CASE \E r \in AllRows : \E q \in DOMAIN r.node : r.node[q] = c /\ x = <<r.id, q>>
    <3>1. PICK r \in AllRows : \E q \in DOMAIN r.node : r.node[q] = c /\ x = <<r.id, q>>
      BY <2>1
    <3>2. PICK q \in DOMAIN r.node : r.node[q] = c /\ x = <<r.id, q>>
      BY <3>1
    <3>3. r.id \in 1 .. edits /\ x[1] = r.id
      BY <3>2 DEF FilesInv, TrashOK, RowOK
    <3>4. f[x] = x
      BY <3>3
    <3>. HIDE DEF f
    <3>5. x \in Held(c)'
      BY <1>2, <3>2, HeldIs, HeldInIs
    <3>6. QED
      BY <1>3, <3>3, <3>4, <3>5
  <2>2. ASSUME NEW q \in DOMAIN vtree, vtree[q] = c, x = <<0, q>>
        PROVE  /\ f[x] \in Held(c)'
               /\ \/ \E z \in Path : Above(p, z) /\ x = <<0, z>> /\ f[x] = <<edits + 1, Tail2(p, z)>>
                  \/ f[x] = x /\ x[1] # edits + 1
    <3>1. x[1] = 0 /\ x[2] = q /\ q \in Path
      BY <1>3, <2>2
    <3>2. CASE Above(p, q)
      <4>1. f[x] = <<edits + 1, Tail2(p, q)>>
        BY <3>1, <3>2
      <4>2. Tail2(p, q) \in Path /\ p \o Tail2(p, q) = q
        BY <1>3, <3>1, <3>2, TailFacts
      <4>. HIDE DEF f, n
      <4>3. Tail2(p, q) \in DOMAIN n /\ n[Tail2(p, q)] = c
        BY <1>4, <2>2, <4>2
      <4>4. row \in AllRows' /\ row.node = n /\ row.id = edits + 1
        BY <1>2
      <4>. HIDE DEF row
      <4>5. <<edits + 1, Tail2(p, q)>> \in Held(c)'
        BY <4>3, <4>4, HeldIs, HeldInIs
      <4>6. QED
        BY <2>2, <3>1, <3>2, <4>1, <4>5
    <3>3. CASE ~Above(p, q)
      <4>1. f[x] = x
        BY <3>1, <3>3
      <4>. HIDE DEF f
      <4>2. q \in DOMAIN vtree' /\ vtree'[q] = c
        BY <1>1, <1>3, <2>2, <3>1, <3>3, WithoutIs
      <4>3. x \in Held(c)'
        BY <2>2, <4>2, HeldIs, HeldInIs
      <4>4. QED
        BY <1>3, <3>1, <4>1, <4>3
    <3>4. QED
      BY <3>2, <3>3
  <2>. HIDE DEF f
  <2>3. QED
    BY <2>1, <2>2, HeldIs, HeldInIs
<1>6. f \in [Held(c) -> Held(c)']
  BY <1>5
<1>. HIDE DEF f
<1>7. ASSUME NEW q \in Path, NEW z \in Path, Above(p, q), Above(p, z), Tail2(p, q) = Tail2(p, z) PROVE q = z
  BY <1>3, <1>7, TailFacts
<1>8. ASSUME NEW x \in Held(c), NEW y \in Held(c), f[x] = f[y] PROVE x = y
  <2>1. ASSUME NEW q \in Path, x = <<0, q>>, f[x] = <<edits + 1, Tail2(p, q)>>, Above(p, q) PROVE x = y
    <3>1. f[y] = <<edits + 1, Tail2(p, q)>> /\ f[y][1] = edits + 1
      BY <1>8, <2>1
    <3>2. PICK z \in Path : Above(p, z) /\ y = <<0, z>> /\ f[y] = <<edits + 1, Tail2(p, z)>>
      BY <1>5, <3>1
    <3>3. Tail2(p, z) = Tail2(p, q)
      BY <3>1, <3>2
    <3>4. QED
      BY <1>7, <2>1, <3>2, <3>3
  <2>2. CASE f[x] = x /\ x[1] # edits + 1
    <3>1. f[y][1] # edits + 1
      BY <1>8, <2>2
    <3>2. f[y] = y
      BY <1>5, <3>1
    <3>3. QED
      BY <1>8, <2>2, <3>2
  <2>3. QED
    BY <1>5, <2>1, <2>2
<1>9. QED
  BY <1>6, <1>8, KeptElsewhere

\* What is moved is at the same place below the new path.
LEMMA MoveKeeps ==
    ASSUME FilesInv, FilesInv', NEW p \in AnyPath, NEW q \in AnyPath, MoveTo(p, q),
           UNCHANGED <<rows, due>>, NEW c
    PROVE  KeepsFile(c)
<1>. DEFINE n == NodeAt(vtree, p)
            gone == Without(vtree, p)
            f == [x \in Held(c) |-> IF x[1] = 0 /\ Above(p, x[2])
                                    THEN <<0, q \o Tail2(p, x[2])>> ELSE x]
<1>1. /\ Has(vtree, p) /\ ~Above(p, q) /\ q # <<>> /\ ~Has(vtree, q) /\ MayHold(gone, q)
      /\ vtree' = With(gone, q, n)
  BY DEF MoveTo, Commit, Free
<1>2. p \in Path /\ q \in Path /\ IsTree(vtree) /\ DOMAIN vtree \subseteq Path
  BY FilesPaths DEF FilesInv, FilesTree, IsTree
<1>3. /\ \A x \in Path : x \in DOMAIN n <=> p \o x \in DOMAIN vtree
      /\ \A x \in DOMAIN n : n[x] = vtree[p \o x]
      /\ IsNode(n)
  BY <1>1, <1>2, NodeAtIs
<1>4. /\ IsTree(gone)
      /\ \A x \in Path : x \in DOMAIN gone <=> x \in DOMAIN vtree /\ ~Above(p, x)
      /\ \A x \in DOMAIN gone : gone[x] = vtree[x]
  BY <1>2, WithoutIs
<1>. HIDE DEF n, gone
<1>5. \A x \in DOMAIN gone : ~Above(q, x) /\ x \in DOMAIN vtree' /\ vtree'[x] = gone[x]
  BY <1>1, <1>2, <1>3, <1>4, FreeTakesNothing DEF Has
<1>6. ASSUME NEW x \in DOMAIN n PROVE q \o x \in DOMAIN vtree' /\ vtree'[q \o x] = n[x]
  <2>1. x \in Path /\ q \o x \in Path /\ Above(q, q \o x) /\ Tail2(q, q \o x) = x
    BY <1>2, <1>3, BelowStart, TailOfConcat DEF IsNode
  <2>2. QED
    BY <1>1, <1>2, <1>3, <1>4, <2>1, WithIs DEF Has
<1>7. AllRows' = AllRows
  BY DEF AllRows
<1>8. ASSUME NEW x \in Held(c)
      PROVE  /\ f[x] \in Held(c)'
             /\ \/ \E z \in Path : Above(p, z) /\ x = <<0, z>> /\ f[x] = <<0, q \o Tail2(p, z)>>
                \/ f[x] = x /\ (x[1] # 0 \/ ~Above(q, x[2]))
  <2>1. CASE \E r \in AllRows : \E z \in DOMAIN r.node : r.node[z] = c /\ x = <<r.id, z>>
    <3>1. PICK r \in AllRows : \E z \in DOMAIN r.node : r.node[z] = c /\ x = <<r.id, z>>
      BY <2>1
    <3>2. r.id \in 1 .. edits /\ edits \in Nat /\ x[1] = r.id
      BY <3>1 DEF FilesInv, TrashOK, RowOK
    <3>3. f[x] = x /\ x[1] # 0
      BY <3>2
    <3>. HIDE DEF f
    <3>4. x \in Held(c)'
      BY <1>7, <2>1, HeldIs, HeldInIs
    <3>5. QED
      BY <3>3, <3>4
  <2>2. ASSUME NEW z \in DOMAIN vtree, vtree[z] = c, x = <<0, z>>
        PROVE  /\ f[x] \in Held(c)'
               /\ \/ \E y \in Path : Above(p, y) /\ x = <<0, y>> /\ f[x] = <<0, q \o Tail2(p, y)>>
                  \/ f[x] = x /\ (x[1] # 0 \/ ~Above(q, x[2]))
    <3>1. x[1] = 0 /\ x[2] = z /\ z \in Path
      BY <1>2, <2>2
    <3>2. CASE Above(p, z)
      <4>1. f[x] = <<0, q \o Tail2(p, z)>>
        BY <3>1, <3>2
      <4>2. Tail2(p, z) \in Path /\ p \o Tail2(p, z) = z
        BY <1>2, <3>1, <3>2, TailFacts
      <4>. HIDE DEF f
      <4>3. Tail2(p, z) \in DOMAIN n /\ n[Tail2(p, z)] = c
        BY <1>3, <2>2, <4>2
      <4>4. f[x] \in Held(c)'
        BY <1>6, <4>1, <4>3, HeldIs, HeldInIs
      <4>5. QED
        BY <2>2, <3>1, <3>2, <4>1, <4>4
    <3>3. CASE ~Above(p, z)
      <4>1. f[x] = x
        BY <3>1, <3>3
      <4>. HIDE DEF f
      <4>2. z \in DOMAIN vtree' /\ vtree'[z] = c /\ ~Above(q, z)
        BY <1>4, <1>5, <2>2, <3>1, <3>3
      <4>3. x \in Held(c)'
        BY <2>2, <4>2, HeldIs, HeldInIs
      <4>4. QED
        BY <3>1, <4>1, <4>2, <4>3
    <3>4. QED
      BY <3>2, <3>3
  <2>. HIDE DEF f
  <2>3. QED
    BY <2>1, <2>2, HeldIs, HeldInIs
<1>9. f \in [Held(c) -> Held(c)']
  BY <1>8
<1>. HIDE DEF f
<1>10. ASSUME NEW y \in Path, NEW z \in Path, Above(p, y), Above(p, z), q \o Tail2(p, y) = q \o Tail2(p, z)
       PROVE  y = z
  <2>1. Tail2(p, y) \in Path /\ Tail2(p, z) \in Path /\ p \o Tail2(p, y) = y /\ p \o Tail2(p, z) = z
    BY <1>2, <1>10, TailFacts
  <2>2. \A a, b \in Path : q \o a = q \o b => a = b
    <3>1. \A a \in Path : Tail2(q, q \o a) = a
      BY <1>2, TailOfConcat
    <3>2. QED
      BY <3>1
  <2>3. Tail2(p, y) = Tail2(p, z)
    BY <1>10, <2>1, <2>2
  <2>4. QED
    BY <2>1, <2>3
<1>11. \A z \in Path : Above(p, z) => Above(q, q \o Tail2(p, z))
  BY <1>2, TailFacts, BelowStart
<1>12. ASSUME NEW x \in Held(c), NEW y \in Held(c), f[x] = f[y] PROVE x = y
  <2>1. ASSUME NEW u \in Path, x = <<0, u>>, f[x] = <<0, q \o Tail2(p, u)>>, Above(p, u) PROVE x = y
    <3>1. PICK w : w = q \o Tail2(p, u)
      OBVIOUS
    <3>2. f[y] = <<0, w>>
      BY <1>12, <2>1, <3>1
    <3>3. f[y][1] = 0 /\ f[y][2] = w /\ Above(q, w)
      BY <1>11, <2>1, <3>1, <3>2
    <3>4. PICK z \in Path : Above(p, z) /\ y = <<0, z>> /\ f[y] = <<0, q \o Tail2(p, z)>>
      BY <1>8, <3>3
    <3>5. \A v : f[y] = <<0, v>> => v = w
      BY <3>3
    <3>6. q \o Tail2(p, z) = q \o Tail2(p, u)
      BY <3>1, <3>4, <3>5
    <3>7. QED
      BY <1>10, <2>1, <3>4, <3>6
  <2>2. CASE f[x] = x /\ (x[1] # 0 \/ ~Above(q, x[2]))
    <3>1. f[y] = x
      BY <1>12, <2>2
    <3>2. ASSUME NEW z \in Path, Above(p, z), y = <<0, z>>, f[y] = <<0, q \o Tail2(p, z)>> PROVE FALSE
      <4>1. x[1] = 0 /\ x[2] = q \o Tail2(p, z)
        BY <3>1, <3>2
      <4>2. QED
        BY <1>11, <2>2, <3>2, <4>1
    <3>3. f[y] = y
      BY <1>8, <3>2
    <3>4. QED
      BY <3>1, <3>3
  <2>3. QED
    BY <1>8, <2>1, <2>2
<1>13. QED
  BY <1>9, <1>12, KeptElsewhere

LEMMA StepKeepsFiles ==
    ASSUME FilesInv, FilesInv', [FilesNext]_filesVars, vtree' # vtree, ~blunt'
    PROVE  KeepsFiles
<1>. SUFFICES ASSUME NEW c \in FileContent PROVE KeepsFile(c)
  BY DEF KeepsFiles, KeepsFile
<1>1. ASSUME NEW p \in AnyPath, NEW new \in FileContent, PutFile(p, new) \/ RestoreVersion(p, new)
      PROVE  KeepsFile(c)
  BY <1>1, PutFileKeeps DEF RestoreVersion
<1>2. ASSUME NEW p \in AnyPath, NEW q \in AnyPath, FsMove(p, q) \/ DavMove(p, q) PROVE KeepsFile(c)
  BY <1>2, MoveKeeps DEF FsMove, DavMove
<1>3. ASSUME NEW p \in AnyPath, NEW q \in AnyPath, Copy(p, q) PROVE KeepsFile(c)
  <2>1. vtree[p] \in FileContent /\ PutFile(q, vtree[p])
    BY <1>3 DEF Copy, IsFile, Has, FilesInv, FilesTree, Content
  <2>2. QED
    BY <2>1, PutFileKeeps
<1>4. ASSUME NEW p \in AnyPath, Mkdir(p) PROVE KeepsFile(c)
  <2>1. Set(p, EmptyDir) /\ ~Has(vtree, p) /\ UNCHANGED <<rows, due>>
    BY <1>4 DEF Mkdir
  <2>2. IsNode(EmptyDir) /\ p \in Path
    BY FileNodeIs, FilesPaths DEF EmptyDir
  <2>3. QED
    BY <2>1, <2>2, FreeKeeps
<1>5. ASSUME NEW p \in AnyPath, Delete(p) PROVE KeepsFile(c)
  BY <1>5, DeleteKeeps
<1>6. ASSUME NEW row \in rows, Restore(row) PROVE KeepsFile(c)
  <2>1. PICK target : target = IF Has(vtree, row.path) THEN Sibling(row.path) ELSE row.path
    OBVIOUS
  <2>2. target \in Path /\ IsNode(row.node)
    BY <2>1, RestoreTarget DEF FilesNode
  <2>3. Set(target, row.node) /\ ~Has(vtree, target) /\ UNCHANGED rows /\ due \subseteq due'
    BY <1>6, <2>1 DEF Restore, Free
  <2>4. QED
    BY <2>2, <2>3, FreeKeeps
<1>7. ASSUME NEW p, \/ Lock(p) \/ Unlock(p) \/ LookPhoto(p) \/ InsertRow(p) \/ RemoveRow(p) \/ Purge(p)
                    \/ ReadPhoto \/ KillFiles \/ UNCHANGED filesVars
      PROVE  FALSE
  BY <1>7 DEF Lock, Unlock, LookPhoto, InsertRow, RemoveRow, Purge, ReadPhoto, KillFiles, filesVars
<1>8. FilesNext
  BY <1>7
<1>9. CASE \E p \in AnyPath :
             \/ \E d \in FileContent : PutFile(p, d) \/ RestoreVersion(p, d)
             \/ \E q \in AnyPath : FsMove(p, q) \/ DavMove(p, q) \/ Copy(p, q)
             \/ Mkdir(p) \/ Delete(p) \/ Lock(p) \/ Unlock(p) \/ LookPhoto(p)
  BY <1>1, <1>2, <1>3, <1>4, <1>5, <1>7, <1>9
<1>10. CASE \/ \E d \in due : InsertRow(d) \/ RemoveRow(d)
            \/ \E row \in rows : Restore(row) \/ Purge(row)
            \/ ReadPhoto \/ KillFiles
  BY <1>6, <1>7, <1>10
<1>11. QED
  BY <1>8, <1>9, <1>10 DEF FilesNext

\* webdav.rs, "deletions go to the trash like everywhere else": whatever is put,
\* moved, copied, deleted and restored, of any depth, no file leaves the tree other
\* than into the trash or for its next version, unless something was put over it.
THEOREM FilesAreKept == FilesSpec => NothingDroppedWithCare
<1>. DEFINE Keeps == vtree' # vtree /\ ~blunt' => KeepsFiles
<1>1. ASSUME FilesInv, FilesInv', [FilesNext]_filesVars PROVE [Keeps]_filesVars
  BY <1>1, StepKeepsFiles
<1>2. NothingDroppedWithCare <=> [][Keeps]_filesVars
  BY DEF NothingDroppedWithCare
<1>. HIDE DEF Keeps
<1>3. QED
  BY <1>1, <1>2, FilesInitInv, FilesNextInv, PTL DEF FilesSpec

-----------------------------------------------------------------------------
(***************************************************************************)
(* The parts together.                                                     *)
(***************************************************************************)
LEMMA PartsAreTheirOwn ==
    PartsSpec => AccountsSpec /\ SharingSpec /\ PublicSpec /\ FilesSpec /\ TreeSpec
<1>1. PartsInit => AccountsInit /\ SharingInit /\ PublicInit /\ FilesInit /\ TreeInit
  BY DEF PartsInit
<1>2. [PartsNext]_partsVars => /\ [AccountsNext]_accountsVars /\ [SharingNext]_sharingVars
                               /\ [PublicNext]_publicVars /\ [FilesNext]_filesVars /\ [TreeNext]_treeVars
  BY DEF PartsNext, partsVars
<1>3. QED
  BY <1>1, <1>2, PTL DEF PartsSpec, AccountsSpec, SharingSpec, PublicSpec, FilesSpec, TreeSpec

\* The five parts beside each other, as MCVaultParts composes them: every variable of
\* each keeps its type, since a step of one is a stutter of the others.
THEOREM PartsTyped == PartsSpec => []PartsTypeOK
<1>1. AccountsTypeOK /\ SharingTypeOK /\ PublicTypeOK /\ FilesTypeOK /\ TreeTypeOK => PartsTypeOK
  BY DEF PartsTypeOK
<1>2. QED
  BY <1>1, PartsAreTheirOwn, AccountsTypeCorrect, SharingTypeCorrect, PublicTyped, FilesTyped, TreeTyped, PTL

=============================================================================
