---------------------------- MODULE MCVaultParts ----------------------------
(***************************************************************************)
(* Small instances of five parts that share no state: accounts, sharing,   *)
(* public links, the files of a vault on the server, and the sync of a     *)
(* directory tree by a client.  One of them moves in a behaviour and the   *)
(* others stand still, so that the states checked are the union of the     *)
(* parts' states and not their product; fairness is asked of the part that *)
(* moves.                                                                  *)
(***************************************************************************)
EXTENDS Accounts, Sharing, PublicLinks, VaultFiles, TreeSync

CONSTANTS n1, n2, n3    \* file names

VARIABLE moving         \* the part that moves

MCPaths  == {<<n1>>, <<n2>>, <<n1, n2>>}
MCPhotos == {<<n1>>}
MCSite   == {<<n1>>, <<n1, n2>>, <<n1, n2, n1>>}
MCVisits == {<<>>, <<n2>>}
MCRestoredName(n) == n3

partsVars == <<moving, accountsVars, sharingVars, publicVars, filesVars, treeVars>>

PartsInit ==
    /\ moving \in {"accounts", "sharing", "public", "files", "tree"}
    /\ AccountsInit /\ SharingInit /\ PublicInit /\ FilesInit /\ TreeInit

PartsNext ==
    /\ UNCHANGED moving
    /\ \/ moving = "accounts" /\ AccountsNext /\ UNCHANGED <<sharingVars, publicVars, filesVars, treeVars>>
       \/ moving = "sharing"  /\ SharingNext  /\ UNCHANGED <<accountsVars, publicVars, filesVars, treeVars>>
       \/ moving = "public"   /\ PublicNext   /\ UNCHANGED <<accountsVars, sharingVars, filesVars, treeVars>>
       \/ moving = "files"    /\ FilesNext    /\ UNCHANGED <<accountsVars, sharingVars, publicVars, treeVars>>
       \/ moving = "tree"     /\ TreeNext     /\ UNCHANGED <<accountsVars, sharingVars, publicVars, filesVars>>

PartsSpec ==
    /\ PartsInit /\ [][PartsNext]_partsVars
    /\ WF_treeVars(moving = "tree" /\ Attempt)

\* Every part's variables have their types.
PartsTypeOK == AccountsTypeOK /\ SharingTypeOK /\ PublicTypeOK /\ FilesTypeOK /\ TreeTypeOK

=============================================================================
