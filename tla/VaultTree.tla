------------------------------ MODULE VaultTree ------------------------------
(***************************************************************************)
(* A tree of directories as the function from the paths in it to what is   *)
(* there, and the operations the server does to one                        *)
(* (crates/quarkdrive-server/src/vault.rs, crates/quarkdrive-core/src/     *)
(* tree.rs).  A directory's node holds the nodes below it, so a node id    *)
(* stands for a whole subtree: a function as well, with the node itself at *)
(* the empty path.  A path is the sequence of its names, after split_path. *)
(***************************************************************************)
EXTENDS Sequences, Integers

CONSTANTS
    DirNode     \* what is at the path of a directory; at a file's, its content

EmptyTree == [p \in {} |-> DirNode]

\* TreeSet::lookup, and Vault::lookup_id for a path without "." segments.
Has(t, p)   == p \in DOMAIN t
IsDir(t, p) == p = <<>> \/ (Has(t, p) /\ t[p] = DirNode)
IsFile(t, p) == Has(t, p) /\ t[p] # DirNode

Above(p, q) == Len(p) =< Len(q) /\ SubSeq(q, 1, Len(p)) = p
Below(t, p) == {q \in DOMAIN t : Above(p, q)}
Parents(p)  == {SubSeq(p, 1, k) : k \in 1 .. Len(p) - 1}

Tail2(p, q) == SubSeq(q, Len(p) + 1, Len(q))

\* The node at a path, with everything below it.
NodeAt(t, p) == [q \in {Tail2(p, x) : x \in Below(t, p)} |-> t[p \o q]]

FileNode(c) == [q \in {<<>>} |-> c]
EmptyDir    == FileNode(DirNode)

-----------------------------------------------------------------------------
Without(t, p) == [q \in DOMAIN t \ Below(t, p) |-> t[q]]

\* A set_in_tree that writes below a file.
MayHoldAnywhere(t, p) == p # <<>>

\* set_in_tree fails when a name on the way is not a directory.
MayHold(t, p) == p # <<>> /\ \A a \in Parents(p) : Has(t, a) => t[a] = DirNode

\* set_in_tree with a node: directories on the way are made, and whatever was
\* at the path goes.
With(t, p, node) ==
    LET rest == Without(t, p)
    IN  [q \in DOMAIN rest \cup Parents(p) \cup {p \o x : x \in DOMAIN node} |->
            IF Above(p, q) THEN node[Tail2(p, q)]
            ELSE IF q \in DOMAIN rest THEN rest[q]
            ELSE DirNode]

WellFormed(t) == \A p \in DOMAIN t : p # <<>> /\ \A a \in Parents(p) : Has(t, a) /\ t[a] = DirNode

\* TreeSet::walk and Vault::list_dir: everything below a directory, and what is
\* right in it.
Children(t, p) == {q \in DOMAIN t : Len(q) = Len(p) + 1 /\ Above(p, q)}
Files(t) == {p \in DOMAIN t : t[p] # DirNode}

=============================================================================
