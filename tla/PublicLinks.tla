----------------------------- MODULE PublicLinks -----------------------------
(***************************************************************************)
(* What a visitor with the URL of a public link sees of a vault: the rows  *)
(* of the links table, public_link, and public_list over the tree of the   *)
(* head (crates/quarkdrive-server/src/api.rs, db.rs).                      *)
(*                                                                         *)
(* Who may make and remove links is the subject of Sharing; here whoever   *)
(* may has done it, and the vault's users go on changing its tree.  A      *)
(* handler reads the row and then the head, and anything may come between. *)
(* A link's path is kept as it was given; the web client gives the folder  *)
(* that is open, with no slash too many.  A visit begins with the password *)
(* its link asks for; public_meta and public_download look a path up as a  *)
(* listing does, and change nothing.                                       *)
(***************************************************************************)
EXTENDS VaultTree

CONSTANTS
    SitePath,       \* paths of the vault that its users touch
    VisitPath,      \* paths that a visitor asks for, below the link
    SiteFile,       \* nodes of files
    MaxSiteEdits,   \* bound: commits
    MaxSiteLinks,   \* bound: links made
    MaxSiteTime     \* bound: ticks

ASSUME PublicLinksAssumption ==
    /\ SitePath \cup VisitPath \subseteq Seq(STRING)
    /\ DirNode \notin SiteFile /\ {MaxSiteEdits, MaxSiteLinks} \subseteq Nat /\ MaxSiteTime \in Nat \ {0}

VARIABLES
    site,       \* the tree of the head
    siteEdits,
    rowsOf,     \* the rows of links: [id, path, expires]; expires 0 for NULL
    linkIds,    \* links ever made
    now,
    visit,      \* the listing in hand: a set of at most one [row, rel]
    page        \* the one on the visitor's screen: a set of at most one [row, items, fresh]

publicVars == <<site, siteEdits, rowsOf, linkIds, now, visit, page>>

PublicInit ==
    /\ site = EmptyTree /\ siteEdits = 0
    /\ rowsOf = {} /\ linkIds = 0 /\ now = 1
    /\ visit = {} /\ page = {}

-----------------------------------------------------------------------------
\* The vault's users: a file, a folder, or something removed.
SiteEdit == \E t \in {With(site, p, FileNode(c)) : p \in {q \in SitePath : MayHold(site, q)}, c \in SiteFile}
                     \cup {With(site, p, EmptyDir) : p \in {q \in SitePath : MayHold(site, q)}}
                     \cup {Without(site, p) : p \in DOMAIN site} :
    /\ siteEdits < MaxSiteEdits /\ siteEdits' = siteEdits + 1
    /\ site' = t
    /\ page' = {[g EXCEPT !.fresh = FALSE] : g \in page}
    /\ UNCHANGED <<rowsOf, linkIds, now, visit>>

\* create_link, for a path that is there; an expiry may be over already.
MakeLink == \E p \in SitePath \cup {<<>>}, expires \in 0 .. MaxSiteTime :
    /\ p = <<>> \/ Has(site, p)
    /\ linkIds < MaxSiteLinks /\ linkIds' = linkIds + 1
    /\ rowsOf' = rowsOf \cup {[id |-> linkIds + 1, path |-> p, expires |-> expires]}
    /\ UNCHANGED <<site, siteEdits, now, visit, page>>

RemoveLink == \E r \in rowsOf :
    /\ rowsOf' = rowsOf \ {r}
    /\ UNCHANGED <<site, siteEdits, linkIds, now, visit, page>>

SiteTick ==
    /\ now < MaxSiteTime /\ now' = now + 1
    /\ UNCHANGED <<site, siteEdits, rowsOf, linkIds, visit, page>>

-----------------------------------------------------------------------------
LinkExpired(r) == r.expires # 0 /\ r.expires =< now

\* public_link.
StartVisit == \E r \in rowsOf, rel \in VisitPath :
    /\ visit = {} /\ ~LinkExpired(r)
    /\ visit' = {[row |-> r, rel |-> rel]}
    /\ UNCHANGED <<site, siteEdits, rowsOf, linkIds, now, page>>

\* resolve_under_link, for a link that is not to the whole vault.
Resolve(r, rel) == r.path \o rel

\* split_path refuses the path of a link to the whole vault, and the visit with it.
Resolves(r) == r.path # <<>>

\* A listing whose paths are relative to the folder that is listed.
ShownFromFolder(r, rel, p) == SubSeq(p, Len(Resolve(r, rel)) + 1, Len(p))

\* public_list cuts the link's path off the entry's.
ShownPath(r, rel, p) == SubSeq(p, Len(r.path) + 1, Len(p))

\* public_list.
AnswerList == \E v \in visit :
    LET full == Resolve(v.row, v.rel)
    IN  /\ visit' = {}
        /\ IF Resolves(v.row) /\ IsDir(site, full)
           THEN page' = {[row |-> v.row, fresh |-> TRUE,
                          items |-> {[path |-> ShownPath(v.row, v.rel, p), dir |-> IsDir(site, p)] :
                                        p \in Children(site, full)}]}
           ELSE UNCHANGED page
        /\ UNCHANGED <<site, siteEdits, rowsOf, linkIds, now>>

PublicNext == SiteEdit \/ MakeLink \/ RemoveLink \/ SiteTick \/ StartVisit \/ AnswerList

PublicSpec == PublicInit /\ [][PublicNext]_publicVars

-----------------------------------------------------------------------------
PublicTypeOK ==
    /\ WellFormed(site) /\ \A p \in DOMAIN site : site[p] \in SiteFile \cup {DirNode}
    /\ siteEdits \in 0 .. MaxSiteEdits /\ now \in 0 .. MaxSiteTime
    /\ \A r \in rowsOf : r \in [id : 1 .. linkIds, path : SitePath \cup {<<>>}, expires : 0 .. MaxSiteTime]
    /\ linkIds \in 0 .. MaxSiteLinks

\* The paths of a listing are for the visitor to send back: under the same link
\* each leads to what was listed, while nobody changes the tree.
ListedOpens ==
    \A g \in page : g.fresh => \A i \in g.items :
        LET p == Resolve(g.row, i.path) IN Has(site, p) /\ (i.dir <=> IsDir(site, p))

=============================================================================
