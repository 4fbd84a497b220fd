------------------------------- MODULE Sharing -------------------------------
(***************************************************************************)
(* Whose vaults are whose: the vaults, shares and links tables and the     *)
(* handlers over them (crates/quarkdrive-server/src/api.rs, db.rs).        *)
(*                                                                         *)
(* A handler asks AppState::vault for the caller's role, checks it, and    *)
(* then makes one more access to the database; the two are steps, and      *)
(* other requests come between.  Vaults and accounts are never deleted and *)
(* a vault never changes hands, so the cached Vault of AppState::vault is  *)
(* the vault.  What a link shows, to whom and how long is left out.        *)
(***************************************************************************)
EXTENDS Integers, FiniteSets

CONSTANTS
    User,          \* accounts
    Vault,         \* vault names
    NoUser,        \* no account
    ShareRequests, \* requests in flight at once
    MaxLinks       \* bound: links ever made

ASSUME SharingAssumption == NoUser \notin User /\ MaxLinks \in Nat

SharedRole == {"read", "write"}
VaultRole  == {"owner", "none"} \cup SharedRole

VARIABLES
    owner,      \* vaults.owner_id, NoUser while there is no such vault
    sealed,     \* vaults.encrypted
    shares,     \* rows of shares: [vault, user, role]
    links,      \* rows of links: [id, vault]
    linksMade,  \* links ever made
    spc,        \* spc[r]: what request r may do next, "idle" when it is free
    ask         \* ask[r]: what it was asked: [user, vault, target, role, link, as], with
                \* `as' the role AppState::vault found

sharingVars == <<owner, sealed, shares, links, linksMade, spc, ask>>

NoAsk == [user |-> NoUser, vault |-> NoUser, target |-> NoUser, role |-> "none", link |-> 0,
          as |-> "none"]

SharingInit ==
    /\ owner  = [v \in Vault |-> NoUser]
    /\ sealed = [v \in Vault |-> FALSE]
    /\ shares = {} /\ links = {} /\ linksMade = 0
    /\ spc = [r \in ShareRequests |-> "idle"]
    /\ ask = [r \in ShareRequests |-> NoAsk]

-----------------------------------------------------------------------------
\* share_role: the row of a vault and a user; there is one at most.
ShareRows(v, u) == {s \in shares : s.vault = v /\ s.user = u}
ShareRole(v, u) == IF ShareRows(v, u) = {} THEN "none" ELSE (CHOOSE s \in ShareRows(v, u) : TRUE).role

\* AppState::vault: the owner, a sharee, or nobody.
Granted(v, u) == IF owner[v] = u THEN "owner" ELSE ShareRole(v, u)

CanWrite(role) == role \in {"owner", "write"}

Owned(u)      == {v \in Vault : owner[v] = u}
SharedWith(u) == {s \in shares : s.user = u}

\* list_vaults: the vaults one owns and the shares one has.
Listed(u) == {<<v, "owner">> : v \in Owned(u)} \cup {<<s.vault, s.role>> : s \in SharedWith(u)}

ShareGo(r, step, what) ==
    /\ spc' = [spc EXCEPT ![r] = step]
    /\ ask' = [ask EXCEPT ![r] = what]
ShareDone(r) == ShareGo(r, "idle", NoAsk)

CreateVault(u, v, encrypted) ==
    /\ owner[v] = NoUser
    /\ owner'  = [owner  EXCEPT ![v] = u]
    /\ sealed' = [sealed EXCEPT ![v] = encrypted]
    /\ UNCHANGED <<shares, links, linksMade, spc, ask>>

-----------------------------------------------------------------------------
\* A create_share that takes the owner for a stranger.
MayShareAnyone(u, v, target) == Granted(v, u) = "owner" /\ ~sealed[v]

\* create_share: the owner, a vault the server can read, and someone else.
MayShare(u, v, target) == Granted(v, u) = "owner" /\ ~sealed[v] /\ target # owner[v]

StartShare(r, u, v, target, role) ==
    /\ spc[r] = "idle" /\ MayShare(u, v, target)
    /\ ShareGo(r, "share", [NoAsk EXCEPT !.user = u, !.vault = v, !.target = target, !.role = role,
                                         !.as = "owner"])
    /\ UNCHANGED <<owner, sealed, shares, links, linksMade>>

\* share_vault: a second share with one user replaces the first.
WithShare(v, u, role) ==
    {s \in shares : s.vault # v \/ s.user # u} \cup {[vault |-> v, user |-> u, role |-> role]}

WriteShare(r) ==
    /\ spc[r] = "share"
    /\ shares' = WithShare(ask[r].vault, ask[r].target, ask[r].role)
    /\ ShareDone(r)
    /\ UNCHANGED <<owner, sealed, links, linksMade>>

StartUnshare(r, u, v, target) ==
    /\ spc[r] = "idle" /\ Granted(v, u) = "owner"
    /\ ShareGo(r, "unshare", [NoAsk EXCEPT !.user = u, !.vault = v, !.target = target,
                                           !.as = "owner"])
    /\ UNCHANGED <<owner, sealed, shares, links, linksMade>>

DropShare(r) ==
    /\ spc[r] = "unshare"
    /\ shares' = {s \in shares : s.vault # ask[r].vault \/ s.user # ask[r].target}
    /\ ShareDone(r)
    /\ UNCHANGED <<owner, sealed, links, linksMade>>

-----------------------------------------------------------------------------
StartLink(r, u, v) ==
    /\ spc[r] = "idle" /\ CanWrite(Granted(v, u)) /\ linksMade < MaxLinks
    /\ ShareGo(r, "link", [NoAsk EXCEPT !.user = u, !.vault = v, !.as = Granted(v, u)])
    /\ UNCHANGED <<owner, sealed, shares, links, linksMade>>

WriteLink(r) ==
    /\ spc[r] = "link" /\ linksMade < MaxLinks
    /\ linksMade' = linksMade + 1
    /\ links' = links \cup {[id |-> linksMade + 1, vault |-> ask[r].vault]}
    /\ ShareDone(r)
    /\ UNCHANGED <<owner, sealed, shares>>

\* delete_link is given any id at all.
StartUnlink(r, u, v) == \E id \in 1 .. linksMade :
    /\ spc[r] = "idle" /\ CanWrite(Granted(v, u))
    /\ ShareGo(r, "unlink", [NoAsk EXCEPT !.user = u, !.vault = v, !.link = id,
                                          !.as = Granted(v, u)])
    /\ UNCHANGED <<owner, sealed, shares, links, linksMade>>

\* A DELETE that goes by the id alone.
NamedAnywhere(l, v, id) == l.id = id

\* link_delete: the row of this vault with this id.
Named(l, v, id) == l.id = id /\ l.vault = v

DropLink(r) ==
    /\ spc[r] = "unlink"
    /\ links' = {l \in links : ~Named(l, ask[r].vault, ask[r].link)}
    /\ ShareDone(r)
    /\ UNCHANGED <<owner, sealed, shares, linksMade>>

SharingNext ==
    \/ \E u \in User, v \in Vault :
         \/ \E encrypted \in BOOLEAN : CreateVault(u, v, encrypted)
         \/ \E r \in ShareRequests :
              \/ \E target \in User, role \in SharedRole : StartShare(r, u, v, target, role)
              \/ \E target \in User : StartUnshare(r, u, v, target)
              \/ StartLink(r, u, v) \/ StartUnlink(r, u, v)
    \/ \E r \in ShareRequests : WriteShare(r) \/ DropShare(r) \/ WriteLink(r) \/ DropLink(r)

SharingSpec == SharingInit /\ [][SharingNext]_sharingVars

-----------------------------------------------------------------------------
SharingTypeOK ==
    /\ owner \in [Vault -> User \cup {NoUser}] /\ sealed \in [Vault -> BOOLEAN]
    /\ \A s \in shares : s \in [vault : Vault, user : User, role : SharedRole]
    /\ \A l \in links : l \in [id : 1 .. linksMade, vault : Vault]
    /\ linksMade \in 0 .. MaxLinks
    /\ spc \in [ShareRequests -> {"idle", "share", "unshare", "link", "unlink"}]
    /\ \A r \in ShareRequests : spc[r] # "idle" => CanWrite(ask[r].as)

\* Two pieces of code say what a user has of a vault: list_vaults joins two
\* queries, AppState::vault asks the vault first and the shares second.  They
\* agree, and nobody sees a vault twice, whatever requests were interleaved.
ListedIsGranted ==
    \A u \in User :
        Listed(u) = {<<v, Granted(v, u)>> : v \in {w \in Vault : Granted(w, u) # "none"}}

\* A link comes and goes only by a request on its own vault whose caller could
\* write there when it began: an id from another vault deletes nothing.
LinksBelongToWriters ==
    [][\A l \in (links \cup links') :
          (l \in links) # (l \in links') =>
            \E r \in ShareRequests : /\ spc[r] \in {"link", "unlink"} /\ spc'[r] = "idle"
                                     /\ ask[r].vault = l.vault /\ CanWrite(ask[r].as)]_sharingVars

=============================================================================
