--------------------------- MODULE MCVaultServer ---------------------------
(***************************************************************************)
(* Small instances of VaultServer: a path is a name, or a name restored    *)
(* beside a newer file of the same name.                                   *)
(***************************************************************************)
EXTENDS VaultServer, TLC

CONSTANTS MCNames    \* file names, model values

MCPath == {<<n>> : n \in MCNames} \cup {<<n, "restored">> : n \in MCNames}
MCRestored(p) == <<p[1], "restored">>

\* Neither requests nor contents are told apart by any action or property.
MCSymmetry == Permutations(Requests) \cup Permutations(Content)

=============================================================================
