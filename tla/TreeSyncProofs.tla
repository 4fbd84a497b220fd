--------------------------- MODULE TreeSyncProofs ---------------------------
(***************************************************************************)
(* Lemmas about paths and trees of directories, which the proofs about the *)
(* vault's files and its public links cite too; then the sync of such a    *)
(* tree: its type invariant, that the disk is the tree that is committed,  *)
(* that nobody's file is destroyed, and that qd status tells the whole     *)
(* difference.                                                             *)
(***************************************************************************)
EXTENDS TreeSync, SequenceTheorems, FiniteSetTheorems, WellFoundedInduction, TLAPS

Path == Seq(STRING)

-----------------------------------------------------------------------------
(***************************************************************************)
(* Paths, in the order of what is above what.                              *)
(***************************************************************************)
\* A path begins with a path as far as the second is long, and it is as long.
LEMMA AboveFacts ==
    ASSUME NEW p \in Path, NEW q \in Path
    PROVE  Above(p, q) <=> Len(p) =< Len(q) /\ \A i \in 1 .. Len(p) : q[i] = p[i]
<1>. DEFINE s == SubSeq(q, 1, Len(p))
<1>1. CASE ~(Len(p) =< Len(q))
  BY <1>1 DEF Above
<1>2. CASE Len(p) =< Len(q)
  <2>1. Len(p) \in Nat /\ Len(q) \in Nat /\ \A i \in 1 .. Len(q) : q[i] \in STRING
    BY DEF Path
  <2>2. 1 \in Int /\ Len(p) \in Int /\ \A i \in 1 .. Len(p) : q[i] \in STRING
    BY <1>2, <2>1
  <2>3. /\ s \in Seq(STRING) /\ Len(s) = IF 1 <= Len(p) THEN Len(p) - 1 + 1 ELSE 0
        /\ \A i \in 1 .. Len(p) - 1 + 1 : s[i] = q[1 + i - 1]
    BY <2>2, SubSeqProperties
  <2>4. Len(s) = Len(p) /\ \A i \in 1 .. Len(p) : s[i] = q[i]
    BY <2>1, <2>3
  <2>5. s \in Path /\ (Above(p, q) <=> s = p)
    BY <1>2, <2>3 DEF Above, Path
  <2>. HIDE DEF s
  <2>6. (\A i \in 1 .. Len(p) : q[i] = p[i]) => s = p
    <3>. SUFFICES ASSUME \A i \in 1 .. Len(p) : q[i] = p[i] PROVE s = p
      OBVIOUS
    <3>1. \A i \in 1 .. Len(s) : s[i] = p[i]
      BY <2>4
    <3>2. QED
      BY <2>4, <2>5, <3>1, SeqEqual DEF Path
  <2>7. QED
    BY <1>2, <2>4, <2>5, <2>6
<1>3. QED
  BY <1>1, <1>2

LEMMA AboveReflexive ==
    ASSUME NEW p \in Path
    PROVE  Above(p, p) /\ Above(<<>>, p) /\ <<>> \in Path /\ Len(p) \in Nat
<1>1. <<>> \in Path /\ Len(p) \in Nat
  BY EmptySeq DEF Path
<1>2. Above(p, p)
  BY <1>1, AboveFacts
<1>3. Above(<<>>, p)
  BY <1>1, AboveFacts
<1>4. QED
  BY <1>1, <1>2, <1>3

LEMMA AboveTransitive ==
    ASSUME NEW p \in Path, NEW q \in Path, NEW r \in Path, Above(p, q), Above(q, r)
    PROVE  Above(p, r)
<1>1. Len(p) \in Nat /\ Len(q) \in Nat /\ Len(r) \in Nat
  BY DEF Path
<1>2. /\ Len(p) =< Len(q) /\ \A i \in 1 .. Len(p) : q[i] = p[i]
      /\ Len(q) =< Len(r) /\ \A i \in 1 .. Len(q) : r[i] = q[i]
  BY AboveFacts
<1>3. Len(p) =< Len(r) /\ \A i \in 1 .. Len(p) : r[i] = p[i]
  BY <1>1, <1>2
<1>4. QED
  BY <1>3, AboveFacts

LEMMA AboveAntisymmetric ==
    ASSUME NEW p \in Path, NEW q \in Path, Above(p, q), Above(q, p)
    PROVE  p = q
<1>1. Len(p) \in Nat /\ Len(q) \in Nat /\ Len(p) = Len(q)
  BY AboveFacts, AboveReflexive
<1>2. \A i \in 1 .. Len(p) : p[i] = q[i]
  BY <1>1, AboveFacts
<1>3. QED
  BY <1>1, <1>2, SeqEqual DEF Path

\* Of two paths above one, one is above the other.
LEMMA AboveChain ==
    ASSUME NEW p \in Path, NEW a \in Path, NEW b \in Path, Above(a, p), Above(b, p)
    PROVE  Above(a, b) \/ Above(b, a)
<1>1. Len(p) \in Nat /\ Len(a) \in Nat /\ Len(b) \in Nat
  BY AboveReflexive
<1>2. /\ Len(a) =< Len(p) /\ \A i \in 1 .. Len(a) : p[i] = a[i]
      /\ Len(b) =< Len(p) /\ \A i \in 1 .. Len(b) : p[i] = b[i]
  BY AboveFacts
<1>3. CASE Len(a) =< Len(b)
  <2>1. \A i \in 1 .. Len(a) : b[i] = a[i]
    BY <1>1, <1>2, <1>3
  <2>2. QED
    BY <1>3, <2>1, AboveFacts
<1>4. CASE Len(b) =< Len(a)
  <2>1. \A i \in 1 .. Len(b) : a[i] = b[i]
    BY <1>1, <1>2, <1>4
  <2>2. QED
    BY <1>4, <2>1, AboveFacts
<1>5. QED
  BY <1>1, <1>3, <1>4

\* The parents of a path are what is above it, but for itself and the top.
LEMMA ParentsAre ==
    ASSUME NEW p \in Path
    PROVE  /\ Parents(p) \subseteq Path
           /\ \A a \in Path : a \in Parents(p) <=> Above(a, p) /\ a # p /\ a # <<>>
<1>1. Len(p) \in Nat /\ \A i \in 1 .. Len(p) : p[i] \in STRING
  BY DEF Path
<1>2. ASSUME NEW k \in 1 .. Len(p) - 1
      PROVE  LET a == SubSeq(p, 1, k) IN a \in Path /\ Above(a, p) /\ a # p /\ a # <<>>
  <2>. DEFINE a == SubSeq(p, 1, k)
  <2>1. 1 \in Int /\ k \in Int /\ \A i \in 1 .. k : p[i] \in STRING
    BY <1>1
  <2>2. a \in Seq(STRING) /\ Len(a) = k
    BY <1>1, <2>1, SubSeqProperties
  <2>. HIDE DEF a
  <2>3. Above(a, p)
    BY <1>1, <2>2 DEF Above, a
  <2>4. a # p /\ a # <<>>
    BY <1>1, <2>2
  <2>5. QED
    BY <2>2, <2>3, <2>4 DEF a, Path
<1>3. ASSUME NEW a \in Path, Above(a, p), a # p, a # <<>>
      PROVE  a \in Parents(p)
  <2>1. Len(a) \in Nat /\ Len(a) =< Len(p) /\ SubSeq(p, 1, Len(a)) = a
    BY <1>3, AboveReflexive DEF Above
  <2>2. Len(a) # 0
    BY <1>3, EmptySeq DEF Path
  <2>3. Len(a) # Len(p)
    BY <1>3, <2>1, SubSeqFull DEF Path
  <2>4. Len(a) \in 1 .. Len(p) - 1
    BY <1>1, <2>1, <2>2, <2>3
  <2>5. QED
    BY <2>1, <2>4 DEF Parents
<1>4. QED
  BY <1>2, <1>3 DEF Parents

LEMMA BelowStart ==
    ASSUME NEW p \in Path, NEW q \in Path
    PROVE  p \o q \in Path /\ Above(p, p \o q)
<1>1. /\ p \o q \in Path /\ Len(p \o q) = Len(p) + Len(q) /\ Len(p) \in Nat /\ Len(q) \in Nat
      /\ \A i \in 1 .. Len(p) + Len(q) : (p \o q)[i] = IF i <= Len(p) THEN p[i] ELSE q[i - Len(p)]
  BY ConcatProperties DEF Path
<1>2. Len(p) =< Len(p \o q) /\ \A i \in 1 .. Len(p) : (p \o q)[i] = p[i]
  BY <1>1
<1>3. QED
  BY <1>1, <1>2, AboveFacts

\* What follows a path, in one that begins with it.
LEMMA TailFacts ==
    ASSUME NEW p \in Path, NEW q \in Path, Above(p, q)
    PROVE  Tail2(p, q) \in Path /\ p \o Tail2(p, q) = q
<1>1. Len(p) \in Nat /\ Len(q) \in Nat /\ Len(p) =< Len(q) /\ SubSeq(q, 1, Len(p)) = p
  BY AboveReflexive DEF Above
<1>2. \A i \in Len(p) + 1 .. Len(q) : q[i] \in STRING
  BY <1>1 DEF Path
<1>3. Tail2(p, q) \in Path
  BY <1>1, <1>2, SubSeqProperties DEF Tail2, Path
<1>4. 1 \in 1 .. Len(q) + 1 /\ Len(p) \in 1 - 1 .. Len(q) /\ Len(q) \in Len(p) .. Len(q)
  BY <1>1
<1>5. SubSeq(q, 1, Len(p)) \o SubSeq(q, Len(p) + 1, Len(q)) = SubSeq(q, 1, Len(q))
  BY <1>4, ConcatAdjacentSubSeq DEF Path
<1>6. SubSeq(q, 1, Len(q)) = q
  BY SubSeqFull DEF Path
<1>7. QED
  BY <1>1, <1>3, <1>5, <1>6 DEF Tail2

LEMMA TailOfConcat ==
    ASSUME NEW p \in Path, NEW x \in Path
    PROVE  Tail2(p, p \o x) = x
<1>1. p \o x \in Path /\ Above(p, p \o x)
  BY BelowStart
<1>2. Tail2(p, p \o x) \in Path /\ p \o Tail2(p, p \o x) = p \o x
  BY <1>1, TailFacts
<1>3. \A s, t, v \in Path : s \o t = s \o v => t = v
  BY ConcatSimplifications, Zenon DEF Path
<1>4. QED
  BY <1>2, <1>3

LEMMA TailOfSelf ==
    ASSUME NEW p \in Path
    PROVE  Tail2(p, p) = <<>> /\ p \o <<>> = p
<1>1. p \o <<>> = p /\ <<>> \in Path
  BY ConcatEmptySeq, AboveReflexive DEF Path
<1>2. QED
  BY <1>1, TailOfConcat

\* Below a path, what is above what is so for the rests.
LEMMA AboveBelow ==
    ASSUME NEW p \in Path, NEW x \in Path, NEW y \in Path
    PROVE  Above(p \o x, p \o y) <=> Above(x, y)
<1>1. /\ p \o x \in Path /\ p \o y \in Path /\ Len(p) \in Nat /\ Len(x) \in Nat /\ Len(y) \in Nat
      /\ Len(p \o x) = Len(p) + Len(x) /\ Len(p \o y) = Len(p) + Len(y)
      /\ \A i \in 1 .. Len(p) + Len(x) : (p \o x)[i] = IF i <= Len(p) THEN p[i] ELSE x[i - Len(p)]
      /\ \A i \in 1 .. Len(p) + Len(y) : (p \o y)[i] = IF i <= Len(p) THEN p[i] ELSE y[i - Len(p)]
  BY ConcatProperties DEF Path
<1>2. ASSUME Above(x, y) PROVE Above(p \o x, p \o y)
  <2>1. Len(x) =< Len(y) /\ \A i \in 1 .. Len(x) : y[i] = x[i]
    BY <1>2, AboveFacts
  <2>2. Len(p \o x) =< Len(p \o y)
    BY <1>1, <2>1
  <2>3. ASSUME NEW i \in 1 .. Len(p \o x) PROVE (p \o y)[i] = (p \o x)[i]
    <3>1. CASE i <= Len(p)
      BY <1>1, <2>1, <3>1
    <3>2. CASE ~(i <= Len(p))
      <4>1. i - Len(p) \in 1 .. Len(x)
        BY <1>1, <3>2
      <4>2. y[i - Len(p)] = x[i - Len(p)]
        BY <2>1, <4>1
      <4>3. QED
        BY <1>1, <2>1, <3>2, <4>2
    <3>3. QED
      BY <3>1, <3>2
  <2>4. QED
    BY <1>1, <2>2, <2>3, AboveFacts
<1>3. ASSUME Above(p \o x, p \o y) PROVE Above(x, y)
  <2>1. /\ Len(p \o x) =< Len(p \o y)
        /\ \A i \in 1 .. Len(p \o x) : (p \o y)[i] = (p \o x)[i]
    BY <1>1, <1>3, AboveFacts
  <2>2. Len(x) =< Len(y)
    BY <1>1, <2>1
  <2>3. ASSUME NEW i \in 1 .. Len(x) PROVE y[i] = x[i]
    <3>1. Len(p) + i \in 1 .. Len(p) + Len(x) /\ Len(p) + i \in 1 .. Len(p) + Len(y)
      BY <1>1, <2>2
    <3>2. (p \o y)[Len(p) + i] = (p \o x)[Len(p) + i]
      BY <1>1, <2>1, <3>1
    <3>3. ~(Len(p) + i <= Len(p)) /\ (Len(p) + i) - Len(p) = i
      BY <1>1
    <3>4. QED
      BY <1>1, <3>1, <3>2, <3>3
  <2>4. QED
    BY <2>2, <2>3, AboveFacts
<1>4. QED
  BY <1>2, <1>3

-----------------------------------------------------------------------------
(***************************************************************************)
(* Trees, and the nodes put in them.                                       *)
(***************************************************************************)
IsTree(t) ==
    /\ t = [q \in DOMAIN t |-> t[q]]
    /\ DOMAIN t \subseteq Path
    /\ WellFormed(t)

\* A node with what is below it: a tree with its own root.
IsNode(n) ==
    /\ n = [x \in DOMAIN n |-> n[x]]
    /\ DOMAIN n \subseteq Path /\ <<>> \in DOMAIN n
    /\ \A x \in DOMAIN n, a \in Path : Above(a, x) /\ a # x => a \in DOMAIN n /\ n[a] = DirNode

LEMMA EmptyTreeIs == IsTree(EmptyTree) /\ DOMAIN EmptyTree = {}
  BY DEF IsTree, EmptyTree, WellFormed

\* Whatever is above something in a tree is a directory of it.
LEMMA AboveIsADirectory ==
    ASSUME NEW t, IsTree(t), NEW q \in DOMAIN t, NEW a \in Path, Above(a, q), a # q
    PROVE  IsDir(t, a) /\ (a # <<>> => Has(t, a) /\ t[a] = DirNode)
<1>1. q \in Path
  BY DEF IsTree
<1>2. a # <<>> => a \in Parents(q)
  BY <1>1, ParentsAre
<1>3. QED
  BY <1>2 DEF IsTree, WellFormed, IsDir, Has

LEMMA WithoutIs ==
    ASSUME NEW t, IsTree(t), NEW p \in Path
    PROVE  /\ IsTree(Without(t, p))
           /\ \A q \in Path : q \in DOMAIN Without(t, p) <=> q \in DOMAIN t /\ ~Above(p, q)
           /\ \A q \in DOMAIN Without(t, p) : q \in DOMAIN t /\ Without(t, p)[q] = t[q]
<1>. DEFINE u == Without(t, p)
<1>1. /\ DOMAIN u = DOMAIN t \ Below(t, p)
      /\ \A q \in DOMAIN u : u[q] = t[q]
      /\ u = [q \in DOMAIN u |-> u[q]]
  BY DEF Without
<1>. HIDE DEF u
<1>2. \A q \in Path : q \in DOMAIN u <=> q \in DOMAIN t /\ ~Above(p, q)
  BY <1>1 DEF Below
<1>3. DOMAIN u \subseteq Path
  BY <1>1 DEF IsTree
<1>4. ASSUME NEW q \in DOMAIN u, NEW a \in Parents(q)
      PROVE  Has(u, a) /\ u[a] = DirNode
  <2>1. q \in Path /\ a \in Path /\ Above(a, q) /\ q \in DOMAIN t
    BY <1>1, <1>3, ParentsAre
  <2>2. a \in DOMAIN t /\ t[a] = DirNode
    BY <2>1 DEF IsTree, WellFormed, Has
  <2>3. ~Above(p, a)
    BY <1>2, <2>1, AboveTransitive
  <2>4. QED
    BY <1>1, <1>2, <2>1, <2>2, <2>3 DEF Has
<1>5. \A q \in DOMAIN u : q # <<>>
  BY <1>1 DEF IsTree, WellFormed
<1>6. IsTree(u)
  BY <1>1, <1>3, <1>4, <1>5 DEF IsTree, WellFormed
<1>7. QED
  BY <1>1, <1>2, <1>6 DEF u

LEMMA FileNodeIs ==
    ASSUME NEW c
    PROVE  IsNode(FileNode(c)) /\ DOMAIN FileNode(c) = {<<>>} /\ FileNode(c)[<<>>] = c
<1>1. /\ DOMAIN FileNode(c) = {<<>>} /\ FileNode(c)[<<>>] = c
      /\ FileNode(c) = [x \in DOMAIN FileNode(c) |-> FileNode(c)[x]]
  BY DEF FileNode
<1>2. <<>> \in Path
  BY EmptySeq DEF Path
<1>3. \A a \in Path : Above(a, <<>>) => a = <<>>
  BY <1>2, AboveReflexive, AboveAntisymmetric
<1>4. QED
  BY <1>1, <1>2, <1>3 DEF IsNode

\* The node at a path has what is in the tree below it.
LEMMA NodeAtIs ==
    ASSUME NEW t, IsTree(t), NEW p \in Path
    PROVE  /\ \A x \in Path : x \in DOMAIN NodeAt(t, p) <=> p \o x \in DOMAIN t
           /\ \A x \in DOMAIN NodeAt(t, p) : x \in Path /\ NodeAt(t, p)[x] = t[p \o x]
           /\ Has(t, p) => IsNode(NodeAt(t, p))
<1>. DEFINE n == NodeAt(t, p)
<1>1. /\ DOMAIN n = {Tail2(p, x) : x \in Below(t, p)}
      /\ \A x \in DOMAIN n : n[x] = t[p \o x]
      /\ n = [x \in DOMAIN n |-> n[x]]
  BY DEF NodeAt
<1>. HIDE DEF n
<1>2. \A x \in DOMAIN n : x \in Path /\ p \o x \in DOMAIN t
  <2>. SUFFICES ASSUME NEW y \in Below(t, p) PROVE Tail2(p, y) \in Path /\ p \o Tail2(p, y) \in DOMAIN t
    BY <1>1
  <2>1. y \in DOMAIN t /\ y \in Path /\ Above(p, y)
    BY DEF Below, IsTree
  <2>2. QED
    BY <2>1, TailFacts
<1>3. ASSUME NEW x \in Path, p \o x \in DOMAIN t PROVE x \in DOMAIN n
  <2>1. p \o x \in Below(t, p) /\ Tail2(p, p \o x) = x
    BY <1>3, BelowStart, TailOfConcat DEF Below
  <2>2. QED
    BY <1>1, <2>1
<1>4. ASSUME Has(t, p) PROVE IsNode(n)
  <2>1. <<>> \in DOMAIN n
    BY <1>3, <1>4, TailOfSelf, AboveReflexive DEF Has
  <2>2. ASSUME NEW x \in DOMAIN n, NEW a \in Path, Above(a, x), a # x
        PROVE  a \in DOMAIN n /\ n[a] = DirNode
    <3>1. x \in Path /\ p \o x \in DOMAIN t /\ p \o a \in Path
      BY <1>2, BelowStart
    <3>2. Above(p \o a, p \o x)
      BY <2>2, <3>1, AboveBelow
    <3>3. p \o a # p \o x
      BY <2>2, <3>1, TailOfConcat
    <3>4. p \o a # <<>>
      <4>1. Above(p, p \o a)
        BY BelowStart
      <4>2. p # <<>>
        BY <1>4 DEF IsTree, WellFormed, Has
      <4>3. QED
        BY <4>1, <4>2, AboveReflexive, AboveAntisymmetric
    <3>5. p \o a \in DOMAIN t /\ t[p \o a] = DirNode
      BY <3>1, <3>2, <3>3, <3>4, AboveIsADirectory DEF Has
    <3>6. QED
      BY <1>1, <1>3, <3>5
  <2>3. QED
    BY <1>1, <1>2, <2>1, <2>2 DEF IsNode
<1>5. QED
  BY <1>1, <1>2, <1>3, <1>4 DEF n

\* Two trees with the same node at a path are the same there and below.
LEMMA SameNodeSameBelow ==
    ASSUME NEW t, IsTree(t), NEW u, IsTree(u), NEW p \in Path, NodeAt(t, p) = NodeAt(u, p),
           NEW q \in Path, Above(p, q)
    PROVE  (Has(t, q) <=> Has(u, q)) /\ (Has(t, q) => t[q] = u[q])
<1>. DEFINE x == Tail2(p, q)
<1>1. x \in Path /\ p \o x = q
  BY TailFacts
<1>2. /\ x \in DOMAIN NodeAt(t, p) <=> q \in DOMAIN t
      /\ x \in DOMAIN NodeAt(t, p) => NodeAt(t, p)[x] = t[q]
  <2>. HIDE DEF x
  <2>1. QED
    BY <1>1, NodeAtIs
<1>3. /\ x \in DOMAIN NodeAt(u, p) <=> q \in DOMAIN u
      /\ x \in DOMAIN NodeAt(u, p) => NodeAt(u, p)[x] = u[q]
  <2>. HIDE DEF x
  <2>1. QED
    BY <1>1, NodeAtIs
<1>. HIDE DEF x
<1>4. QED
  BY <1>2, <1>3 DEF Has

\* Below the path there is the node, elsewhere what there was and the path's parents.
LEMMA WithIs ==
    ASSUME NEW t, IsTree(t), NEW p \in Path, MayHold(t, p), NEW n, IsNode(n)
    PROVE  LET u == With(t, p, n) IN
           /\ IsTree(u)
           /\ \A q \in Path : Above(p, q) =>
                 /\ Has(u, q) <=> Tail2(p, q) \in DOMAIN n
                 /\ Has(u, q) => u[q] = n[Tail2(p, q)]
           /\ \A q \in Path : ~Above(p, q) =>
                 /\ Has(u, q) <=> Has(t, q) \/ q \in Parents(p)
                 /\ Has(t, q) => u[q] = t[q]
                 /\ q \in Parents(p) => u[q] = DirNode
<1>. DEFINE u == With(t, p, n)
            rest == Without(t, p)
<1>1. /\ IsTree(rest)
      /\ \A q \in Path : q \in DOMAIN rest <=> q \in DOMAIN t /\ ~Above(p, q)
      /\ \A q \in DOMAIN rest : q \in DOMAIN t /\ rest[q] = t[q]
  BY WithoutIs
<1>2. /\ DOMAIN u = DOMAIN rest \cup Parents(p) \cup {p \o x : x \in DOMAIN n}
      /\ \A q \in DOMAIN u : u[q] = IF Above(p, q) THEN n[Tail2(p, q)]
                                    ELSE IF q \in DOMAIN rest THEN rest[q] ELSE DirNode
      /\ u = [q \in DOMAIN u |-> u[q]]
  BY DEF With
<1>. HIDE DEF u, rest
<1>3. Parents(p) \subseteq Path /\ \A a \in Parents(p) : Above(a, p) /\ a # p /\ a # <<>> /\ ~Above(p, a)
  BY ParentsAre, AboveAntisymmetric
<1>4. DOMAIN u \subseteq Path
  <2>1. \A x \in DOMAIN n : p \o x \in Path
    BY BelowStart DEF IsNode
  <2>2. DOMAIN rest \subseteq Path
    BY <1>1 DEF IsTree
  <2>3. QED
    BY <1>2, <1>3, <2>1, <2>2
<1>5. ASSUME NEW q \in Path, Above(p, q)
      PROVE  /\ Has(u, q) <=> Tail2(p, q) \in DOMAIN n
             /\ Has(u, q) => u[q] = n[Tail2(p, q)]
  <2>1. q \notin DOMAIN rest /\ q \notin Parents(p)
    BY <1>1, <1>3, <1>5
  <2>2. Tail2(p, q) \in Path /\ p \o Tail2(p, q) = q
    BY <1>5, TailFacts
  <2>3. \A x \in DOMAIN n : p \o x = q => x = Tail2(p, q)
    BY TailOfConcat DEF IsNode
  <2>4. QED
    BY <1>2, <1>5, <2>1, <2>2, <2>3 DEF Has
<1>6. ASSUME NEW q \in Path, ~Above(p, q)
      PROVE  /\ Has(u, q) <=> Has(t, q) \/ q \in Parents(p)
             /\ Has(t, q) => u[q] = t[q]
             /\ q \in Parents(p) => u[q] = DirNode
  <2>1. \A x \in DOMAIN n : p \o x # q
    BY <1>6, BelowStart DEF IsNode
  <2>2. q \in Parents(p) /\ Has(t, q) => t[q] = DirNode
    BY DEF MayHold
  <2>3. QED
    BY <1>1, <1>2, <1>6, <2>1, <2>2 DEF Has
<1>7. ASSUME NEW q \in DOMAIN u, NEW a \in Parents(q)
      PROVE  Has(u, a) /\ u[a] = DirNode
  <2>1. q \in Path /\ a \in Path /\ Above(a, q) /\ a # q /\ a # <<>>
    BY <1>4, ParentsAre
  <2>2. CASE ~Above(p, q)
    <3>1. ~Above(p, a)
      BY <2>1, <2>2, AboveTransitive
    <3>2. CASE Has(t, q)
      <4>1. Has(t, a) /\ t[a] = DirNode
        BY <2>1, <3>2, AboveIsADirectory DEF Has
      <4>2. QED
        BY <1>6, <2>1, <3>1, <4>1
    <3>3. CASE q \in Parents(p)
      <4>1. a \in Parents(p)
        BY <1>3, <2>1, <3>3, AboveTransitive, AboveAntisymmetric, ParentsAre
      <4>2. QED
        BY <1>6, <2>1, <3>1, <4>1
    <3>4. QED
      BY <1>6, <2>1, <2>2, <3>2, <3>3 DEF Has
  <2>3. CASE Above(p, q)
    <3>1. CASE Above(p, a)
      <4>. DEFINE x == Tail2(p, q)
                  y == Tail2(p, a)
      <4>1. x \in Path /\ y \in Path /\ p \o x = q /\ p \o y = a /\ x \in DOMAIN n
        BY <1>5, <2>1, <2>3, <3>1, TailFacts DEF Has
      <4>2. Above(y, x) /\ y # x
        BY <2>1, <4>1, AboveBelow
      <4>3. y \in DOMAIN n /\ n[y] = DirNode
        BY <4>1, <4>2 DEF IsNode
      <4>4. QED
        BY <1>5, <2>1, <3>1, <4>3
    <3>2. CASE ~Above(p, a)
      <4>1. Above(a, p)
        BY <2>1, <2>3, <3>2, AboveChain
      <4>2. a # p
        BY <3>2, AboveReflexive
      <4>3. a \in Parents(p)
        BY <2>1, <4>1, <4>2, ParentsAre
      <4>4. QED
        BY <1>6, <2>1, <3>2, <4>3
    <3>3. QED
      BY <3>1, <3>2
  <2>4. QED
    BY <2>2, <2>3
<1>8. ASSUME NEW q \in DOMAIN u PROVE q # <<>>
  <2>1. p # <<>>
    BY DEF MayHold
  <2>2. q = <<>> => ~Above(p, q)
    BY <2>1, AboveReflexive, AboveAntisymmetric
  <2>3. q \in Path /\ (~Above(p, q) => Has(t, q) \/ q \in Parents(p))
    BY <1>4, <1>6 DEF Has
  <2>4. QED
    BY <1>3, <2>2, <2>3 DEF IsTree, WellFormed, Has
<1>9. IsTree(u)
  BY <1>2, <1>4, <1>7, <1>8 DEF IsTree, WellFormed
<1>10. QED
  BY <1>5, <1>6, <1>9 DEF u

-----------------------------------------------------------------------------
(***************************************************************************)
(* How many paths there are.                                               *)
(***************************************************************************)
LEMMA ImageFinite ==
    ASSUME NEW f, IsFiniteSet(DOMAIN f)
    PROVE  /\ IsFiniteSet({f[x] : x \in DOMAIN f})
           /\ Cardinality({f[x] : x \in DOMAIN f}) <= Cardinality(DOMAIN f)
<1>. DEFINE S == DOMAIN f
            T == {f[x] : x \in S}
            g == [x \in S |-> f[x]]
<1>1. g \in Surjection(S, T)
  BY DEF Surjection
<1>2. QED
  BY <1>1, FS_Surjection

\* Where one of two sets can be put into the other, the other has no fewer elements.
LEMMA NoFewer ==
    ASSUME NEW S, NEW T, IsFiniteSet(T), NEW f \in [S -> T],
           \A x, y \in S : f[x] = f[y] => x = y
    PROVE  IsFiniteSet(S) /\ Cardinality(S) <= Cardinality(T)
<1>1. f \in Injection(S, T)
  BY DEF Injection, IsInjective
<1>2. QED
  BY <1>1, FS_Injection

LEMMA ParentsFinite ==
    ASSUME NEW p \in Path
    PROVE  IsFiniteSet(Parents(p))
<1>. DEFINE f == [k \in 1 .. Len(p) - 1 |-> SubSeq(p, 1, k)]
<1>1. Len(p) - 1 \in Int /\ 1 \in Int
  BY AboveReflexive
<1>2. IsFiniteSet(DOMAIN f)
  BY <1>1, FS_Interval
<1>3. Parents(p) = {f[k] : k \in DOMAIN f}
  BY DEF Parents
<1>. HIDE DEF f
<1>4. QED
  BY <1>2, <1>3, ImageFinite

LEMMA WithoutFinite ==
    ASSUME NEW t, IsFiniteSet(DOMAIN t), NEW p
    PROVE  IsFiniteSet(DOMAIN Without(t, p))
<1>1. DOMAIN Without(t, p) \in SUBSET DOMAIN t
  BY DEF Without
<1>2. QED
  BY <1>1, FS_Subset

LEMMA NodeAtFinite ==
    ASSUME NEW t, IsFiniteSet(DOMAIN t), NEW p
    PROVE  IsFiniteSet(DOMAIN NodeAt(t, p))
<1>. DEFINE f == [x \in Below(t, p) |-> Tail2(p, x)]
<1>1. Below(t, p) \in SUBSET DOMAIN t
  BY DEF Below
<1>2. IsFiniteSet(DOMAIN f)
  BY <1>1, FS_Subset
<1>3. DOMAIN NodeAt(t, p) = {f[x] : x \in DOMAIN f}
  BY DEF NodeAt
<1>. HIDE DEF f
<1>4. QED
  BY <1>2, <1>3, ImageFinite

LEMMA WithFinite ==
    ASSUME NEW t, IsFiniteSet(DOMAIN t), NEW p \in Path, NEW n, IsFiniteSet(DOMAIN n)
    PROVE  IsFiniteSet(DOMAIN With(t, p, n))
<1>. DEFINE f == [x \in DOMAIN n |-> p \o x]
            A == DOMAIN Without(t, p)
            B == {f[x] : x \in DOMAIN f}
<1>1. IsFiniteSet(B)
  <2>1. IsFiniteSet(DOMAIN f)
    OBVIOUS
  <2>. HIDE DEF f
  <2>2. QED
    BY <2>1, ImageFinite
<1>2. DOMAIN With(t, p, n) = (A \cup Parents(p)) \cup B
  BY DEF With
<1>3. IsFiniteSet(A) /\ IsFiniteSet(Parents(p))
  BY WithoutFinite, ParentsFinite
<1>. HIDE DEF A, B
<1>4. IsFiniteSet(A \cup Parents(p))
  BY <1>3, FS_Union
<1>5. QED
  BY <1>1, <1>2, <1>4, FS_Union

-----------------------------------------------------------------------------
(***************************************************************************)
(* The sync of a tree.                                                     *)
(***************************************************************************)
\* The files of users up to their s'th change.
FileUpTo(s) == [by : {"here", "there"}, mtime : 1 .. s]

TreeAt(t, s) ==
    /\ IsTree(t) /\ DOMAIN t \subseteq TreePath
    /\ Nodes(t) \subseteq FileUpTo(s)

\* The two trees have the same at a path.
SameAt(t, u, q) == (Has(t, q) <=> Has(u, q)) /\ (Has(t, q) => t[q] = u[q])

-----------------------------------------------------------------------------
(***************************************************************************)
(* Paths and trees.                                                        *)
(***************************************************************************)
LEMMA TreePaths ==
    /\ TreePath \subseteq Path /\ <<>> \notin TreePath
    /\ \A p \in TreePath : Parents(p) \subseteq TreePath
  BY TreeSyncAssumption DEF Path

\* What is above a path is the path or one of its parents.
LEMMA UpFrom ==
    ASSUME NEW q \in TreePath
    PROVE  /\ \A a \in TreePath : a \in Parents(q) \cup {q} <=> Above(a, q)
           /\ \A a \in TreePath : a \in Parents(q) <=> Above(a, q) /\ a # q
           /\ Parents(q) \cup {q} \subseteq TreePath
<1>1. /\ q \in Path /\ TreePath \subseteq Path /\ <<>> \notin TreePath /\ Parents(q) \subseteq TreePath
      /\ Above(q, q)
  BY TreePaths, AboveReflexive
<1>2. \A a \in Path : a \in Parents(q) <=> Above(a, q) /\ a # q /\ a # <<>>
  BY <1>1, ParentsAre
<1>3. QED
  BY <1>1, <1>2

\* Trees that have the same everywhere are one.
LEMMA SameTree ==
    ASSUME NEW t, IsTree(t), DOMAIN t \subseteq TreePath,
           NEW u, IsTree(u), DOMAIN u \subseteq TreePath,
           \A q \in TreePath : SameAt(t, u, q)
    PROVE  t = u
<1>1. DOMAIN t = DOMAIN u /\ \A q \in DOMAIN t : t[q] = u[q]
  BY DEF SameAt, Has
<1>2. t = [q \in DOMAIN t |-> t[q]] /\ u = [q \in DOMAIN u |-> u[q]]
  BY DEF IsTree
<1>3. QED
  BY <1>1, <1>2

LEMMA EmptyTreeAt == \A s : TreeAt(EmptyTree, s)
  BY EmptyTreeIs DEF TreeAt, Nodes, Files

LEMMA TreeLater ==
    ASSUME NEW t, NEW s \in Nat, TreeAt(t, s)
    PROVE  TreeAt(t, s + 1)
<1>1. FileUpTo(s) \subseteq FileUpTo(s + 1)
  BY DEF FileUpTo
<1>2. QED
  BY <1>1 DEF TreeAt

LEMMA TreeWithout ==
    ASSUME NEW t, NEW s, TreeAt(t, s), NEW p \in TreePath
    PROVE  /\ TreeAt(Without(t, p), s)
           /\ Nodes(Without(t, p)) \subseteq Nodes(t)
           /\ \A q \in TreePath : IF Above(p, q) THEN ~Has(Without(t, p), q) ELSE SameAt(Without(t, p), t, q)
<1>. DEFINE u == Without(t, p)
<1>1. IsTree(t) /\ DOMAIN t \subseteq TreePath /\ p \in Path /\ TreePath \subseteq Path
  BY TreePaths DEF TreeAt
<1>2. /\ IsTree(u)
      /\ \A q \in Path : q \in DOMAIN u <=> q \in DOMAIN t /\ ~Above(p, q)
      /\ \A q \in DOMAIN u : q \in DOMAIN t /\ u[q] = t[q]
  BY <1>1, WithoutIs
<1>. HIDE DEF u
<1>3. Nodes(u) \subseteq Nodes(t) /\ DOMAIN u \subseteq TreePath
  BY <1>1, <1>2 DEF Nodes, Files
<1>4. \A q \in TreePath : IF Above(p, q) THEN ~Has(u, q) ELSE SameAt(u, t, q)
  BY <1>1, <1>2 DEF SameAt, Has
<1>5. QED
  BY <1>2, <1>3, <1>4 DEF TreeAt, u

\* A file or an empty directory put at a path.
LEMMA TreeWith ==
    ASSUME NEW t, NEW s, TreeAt(t, s), NEW p \in TreePath, MayHold(t, p), NEW c
    PROVE  LET u == With(t, p, FileNode(c)) IN
           /\ IsTree(u) /\ DOMAIN u \subseteq TreePath
           /\ Nodes(u) \subseteq Nodes(t) \cup ({c} \ {DirNode})
           /\ Has(u, p) /\ u[p] = c
           /\ \A q \in TreePath : q # p =>
                IF Above(p, q) THEN ~Has(u, q)
                ELSE (q \in Parents(p) => Has(t, q)) => SameAt(u, t, q)
<1>. DEFINE u == With(t, p, FileNode(c))
<1>1. IsTree(t) /\ DOMAIN t \subseteq TreePath /\ p \in Path /\ TreePath \subseteq Path
  BY TreePaths DEF TreeAt
<1>2. IsNode(FileNode(c)) /\ DOMAIN FileNode(c) = {<<>>} /\ FileNode(c)[<<>>] = c
  BY FileNodeIs
<1>3. /\ IsTree(u)
      /\ \A q \in Path : Above(p, q) =>
            /\ Has(u, q) <=> Tail2(p, q) \in {<<>>}
            /\ Has(u, q) => u[q] = FileNode(c)[Tail2(p, q)]
      /\ \A q \in Path : ~Above(p, q) =>
            /\ Has(u, q) <=> Has(t, q) \/ q \in Parents(p)
            /\ Has(t, q) => u[q] = t[q]
            /\ q \in Parents(p) => u[q] = DirNode
  BY <1>1, <1>2, WithIs
<1>. HIDE DEF u
<1>4. Has(u, p) /\ u[p] = c
  BY <1>1, <1>2, <1>3, TailOfSelf, AboveReflexive
<1>5. ASSUME NEW q \in Path, Above(p, q), Tail2(p, q) = <<>> PROVE q = p
    <2>1. p \o Tail2(p, q) = q
      BY <1>1, <1>5, TailFacts
    <2>2. p \o <<>> = p
      BY <1>1, TailOfSelf
    <2>3. QED
      BY <1>5, <2>1, <2>2
<1>6. \A q \in Path : q # p =>
        IF Above(p, q) THEN ~Has(u, q)
        ELSE (q \in Parents(p) => Has(t, q)) => SameAt(u, t, q)
  BY <1>3, <1>5 DEF SameAt
<1>7. \A q \in DOMAIN u : q \in TreePath
    <2>1. DOMAIN u \subseteq Path
      BY <1>3 DEF IsTree
    <2>2. Parents(p) \subseteq TreePath
      BY TreePaths
    <2>3. QED
      BY <1>1, <1>3, <1>5, <2>1, <2>2 DEF Has
<1>8. \A q \in Files(u) : u[q] \in Nodes(t) \cup ({c} \ {DirNode})
    <2>1. SUFFICES ASSUME NEW q \in Files(u) PROVE u[q] \in Nodes(t) \cup ({c} \ {DirNode})
      OBVIOUS
    <2>2. q \in DOMAIN u /\ u[q] # DirNode /\ Has(u, q) /\ q \in Path
      BY <1>1, <1>7 DEF Files, Has
    <2>3. CASE q = p
      BY <1>4, <2>2, <2>3
    <2>4. CASE q # p
      <3>1. ~Above(p, q)
        BY <1>6, <2>2, <2>4
      <3>2. Has(t, q) /\ u[q] = t[q]
        BY <1>3, <2>2, <3>1
      <3>3. QED
        BY <2>2, <3>2 DEF Nodes, Files, Has
    <2>5. QED
      BY <2>3, <2>4
<1>9. QED
  BY <1>1, <1>3, <1>4, <1>6, <1>7, <1>8 DEF Nodes, u

\* A user's change makes a tree, and at most one file that was not there.
LEMMA ChangedIs ==
    ASSUME NEW u, stamp \in Nat, TreeAt(u, stamp), NEW by \in {"here", "there"}, NEW t \in Changed(u, by)
    PROVE  /\ TreeAt(t, stamp + 1)
           /\ Nodes(t) \subseteq Nodes(u) \cup {[by |-> by, mtime |-> stamp + 1]}
<1>. DEFINE new == [by |-> by, mtime |-> stamp + 1]
<1>1. Nodes(u) \subseteq FileUpTo(stamp + 1) /\ new \in FileUpTo(stamp + 1)
    <2>1. new \in FileUpTo(stamp + 1)
      BY DEF FileUpTo
    <2>2. QED
      BY <2>1, TreeLater DEF TreeAt
<1>2. \/ \E p \in TreePath : MayHold(u, p) /\ t = With(u, p, FileNode(new))
      \/ \E p \in TreePath : MayHold(u, p) /\ t = With(u, p, FileNode(DirNode))
      \/ \E p \in DOMAIN u : t = Without(u, p)
  BY Zenon DEF Changed, EmptyDir
<1>. HIDE DEF new
<1>3. ASSUME NEW p \in TreePath, NEW c, MayHold(u, p), t = With(u, p, FileNode(c)), c \in {new, DirNode}
      PROVE  IsTree(t) /\ DOMAIN t \subseteq TreePath /\ Nodes(t) \subseteq Nodes(u) \cup {new}
    <2>1. /\ IsTree(t) /\ DOMAIN t \subseteq TreePath
          /\ Nodes(t) \subseteq Nodes(u) \cup ({c} \ {DirNode})
      BY <1>3, TreeWith
    <2>2. QED
      BY <1>3, <2>1
<1>4. ASSUME NEW p \in DOMAIN u, t = Without(u, p)
      PROVE  IsTree(t) /\ DOMAIN t \subseteq TreePath /\ Nodes(t) \subseteq Nodes(u) \cup {new}
    <2>1. p \in TreePath
      BY DEF TreeAt
    <2>2. TreeAt(t, stamp) /\ Nodes(t) \subseteq Nodes(u)
      BY <1>4, <2>1, TreeWithout
    <2>3. QED
      BY <2>2 DEF TreeAt
<1>5. IsTree(t) /\ DOMAIN t \subseteq TreePath /\ Nodes(t) \subseteq Nodes(u) \cup {new}
  BY <1>2, <1>3, <1>4
<1>6. QED
  BY <1>1, <1>5 DEF TreeAt, new

-----------------------------------------------------------------------------
(***************************************************************************)
(* What merge_dir decides, from the base, the scan and the head it read.   *)
(***************************************************************************)
\* The three trees of an attempt, and the stamp.
MergeTrees ==
    /\ stamp \in 0 .. MaxStamp
    /\ \A t \in {dbase, scanned, seen} : TreeAt(t, stamp)

LEMMA SameMerge ==
    ASSUME UNCHANGED <<dbase, scanned, seen>>
    PROVE  /\ Merged' = Merged /\ Conflicts' = Conflicts /\ OutOfLine' = OutOfLine
           /\ \A p : Saved(p)' = Saved(p) /\ Loser(p)' = Loser(p) /\ Decision(p)' = Decision(p)
<1>1. \A p : Decision(p)' = Decision(p)
  BY DEF Decision
<1>2. \A p : Descends(p)' = Descends(p)
  BY <1>1 DEF Descends
<1>3. \A p : Settles(p)' = Settles(p)
  BY <1>2 DEF Settles
<1>4. \A p : FromRemote(p)' = FromRemote(p)
  BY <1>1, <1>3 DEF FromRemote
<1>5. \A p : Loser(p)' = Loser(p)
  BY <1>1 DEF Loser
<1>6. \A p : Saved(p)' = Saved(p)
  BY <1>5 DEF Saved
<1>7. Conflicts' = Conflicts
  BY <1>1, <1>3 DEF Conflicts
<1>8. OutOfLine' = OutOfLine
  BY <1>4 DEF OutOfLine
<1>9. Merged' = Merged
  BY <1>4 DEF Merged
<1>10. QED
  BY <1>1, <1>5, <1>6, <1>7, <1>8, <1>9

\* What Version makes of a path that is there is no NoNode.
LEMMA VersionIs ==
    ASSUME NEW t, NEW s \in 0 .. MaxStamp, TreeAt(t, s), NEW p \in TreePath
    PROVE  Version(t, p) = NoNode <=> ~Has(t, p)
<1>1. CASE ~Has(t, p)
  BY <1>1 DEF Version
<1>2. CASE Has(t, p)
    <2>1. MaxStamp \in Nat /\ DOMAIN t \subseteq TreePath
      BY TreeSyncAssumption DEF TreeAt
    <2>2. \A q \in DOMAIN t : t[q] = DirNode \/ t[q] \in TreeFile
      BY <2>1 DEF TreeAt, Nodes, Files, FileUpTo, TreeFile
    <2>3. Mtime(t[p]) \in 0 .. MaxStamp
      BY <1>2, <2>1, <2>2 DEF Mtime, TreeFile, Has
    <2>. DEFINE S == {Tail2(p, x) : x \in Below(t, p)}
                All == {Tail2(x, y) : x \in TreePath, y \in TreePath}
    <2>4. S \in SUBSET All
      BY <2>1 DEF Below
    <2>5. \A x \in S : t[p \o x] \in TreeFile \cup {DirNode}
      <3>1. TreePath \subseteq Path /\ p \in Path
        BY TreePaths
      <3>2. \A x \in Below(t, p) : p \o Tail2(p, x) = x /\ x \in DOMAIN t
        BY <2>1, <3>1, TailFacts DEF Below
      <3>3. QED
        BY <2>2, <3>2
    <2>6. NodeAt(t, p) \in [S -> TreeFile \cup {DirNode}]
      BY <2>5 DEF NodeAt
    <2>7. NodeAt(t, p) \in UNION {[U -> TreeFile \cup {DirNode}] : U \in SUBSET All}
      <3>. HIDE DEF S, All
      <3>1. QED
        BY <2>4, <2>6
    <2>8. [id |-> NodeAt(t, p), mtime |-> Mtime(t[p])] \in TreeVersion
      BY <2>3, <2>7 DEF TreeVersion
    <2>9. QED
      BY <1>2, <2>8, TreeSyncAssumption DEF Version
<1>3. QED
  BY <1>1, <1>2

\* A version that is also another tree's stands for the same there and below.
LEMMA SameVersion ==
    ASSUME NEW s \in 0 .. MaxStamp, NEW t, TreeAt(t, s), NEW u, TreeAt(u, s),
           NEW p \in TreePath, Version(t, p) = Version(u, p), Has(t, p),
           NEW q \in TreePath, Above(p, q)
    PROVE  Has(u, p) /\ SameAt(t, u, q)
<1>1. Has(u, p)
  BY VersionIs
<1>2. [id |-> NodeAt(t, p), mtime |-> Mtime(t[p])] = [id |-> NodeAt(u, p), mtime |-> Mtime(u[p])]
  BY <1>1 DEF Version
<1>3. NodeAt(t, p) = NodeAt(u, p)
  BY <1>2
<1>4. IsTree(t) /\ IsTree(u) /\ p \in Path /\ q \in Path
  BY TreePaths DEF TreeAt
<1>5. SameAt(t, u, q)
  BY <1>3, <1>4, SameNodeSameBelow DEF SameAt
<1>6. QED
  BY <1>1, <1>5

\* When each decision is taken.
LEMMA MergeEntryIs ==
    ASSUME NEW b, NEW l, NEW r
    PROVE  /\ MergeEntry(b, l, r) \in Decisions
           /\ MergeEntry(b, l, r) = Take => l # r /\ (b = l \/ l = NoNode)
           /\ MergeEntry(b, l, r) \in {TakeBoth, KeepBoth} => l # NoNode /\ r # NoNode
           /\ MergeEntry(b, l, r) = Keep => l = r \/ b = r \/ r = NoNode
<1>1. CASE l = r
  BY <1>1 DEF MergeEntry, Decisions, Keep, Take, KeepBoth, TakeBoth
<1>2. CASE l # r /\ b = l
  BY <1>2 DEF MergeEntry, Decisions, Keep, Take, KeepBoth, TakeBoth
<1>3. CASE l # r /\ b # l /\ b = r
  BY <1>3 DEF MergeEntry, Decisions, Keep, Take, KeepBoth, TakeBoth
<1>4. CASE l # r /\ b # l /\ b # r
  BY <1>4 DEF MergeEntry, Decisions, Keep, Take, KeepBoth, TakeBoth
<1>5. QED
  BY <1>1, <1>2, <1>3, <1>4

LEMMA DescendsIntoDirectories ==
    ASSUME NEW p, Descends(p)
    PROVE  p \in TreePath /\ p \in DOMAIN scanned /\ scanned[p] = DirNode
           /\ p \in DOMAIN seen /\ seen[p] = DirNode
  BY TreePaths DEF Descends, IsDir, Has

\* Two paths that settle, one above the other, are one.
LEMMA OneSettles ==
    ASSUME NEW p \in TreePath, NEW q \in TreePath, Settles(p), Settles(q), Above(p, q)
    PROVE  p = q
<1>1. p # q => p \in Parents(q)
  BY UpFrom
<1>2. QED
  BY <1>1 DEF Settles

\* What is below what comes from the server comes from there.
LEMMA FromRemoteBelow ==
    ASSUME NEW p \in TreePath, NEW q \in TreePath, Above(p, q), FromRemote(p)
    PROVE  FromRemote(q)
<1>1. PICK a \in Parents(p) \cup {p} : Settles(a) /\ Decision(a) \in {Take, TakeBoth}
  BY DEF FromRemote
<1>2. a \in TreePath /\ Above(a, p)
  BY UpFrom
<1>3. Above(a, q)
  BY <1>2, TreePaths, AboveTransitive
<1>4. a \in Parents(q) \cup {q}
  BY <1>2, <1>3, UpFrom
<1>5. QED
  BY <1>1, <1>4 DEF FromRemote

\* The merge descends into what is above it and does not.
LEMMA FromRemoteAbove ==
    ASSUME NEW q \in TreePath, FromRemote(q), NEW a \in Parents(q), ~FromRemote(a)
    PROVE  Descends(a)
<1>1. PICK c \in Parents(q) \cup {q} : Settles(c) /\ Decision(c) \in {Take, TakeBoth}
  BY DEF FromRemote
<1>2. /\ a \in TreePath /\ Above(a, q) /\ c \in TreePath /\ Above(c, q)
      /\ a \in Path /\ c \in Path /\ q \in Path
  BY UpFrom, TreePaths
<1>3. ~Above(c, a)
  BY <1>1, <1>2, UpFrom DEF FromRemote
<1>4. Above(a, c)
  BY <1>2, <1>3, AboveChain
<1>5. a \in Parents(c)
  BY <1>2, <1>3, <1>4, UpFrom
<1>6. QED
  BY <1>1, <1>5 DEF Settles

LEMMA MergedAt ==
    ASSUME NEW q
    PROVE  /\ FromRemote(q) => SameAt(Merged, seen, q)
           /\ ~FromRemote(q) => SameAt(Merged, scanned, q)
  BY DEF Merged, SameAt, Has

LEMMA MergedIsATree ==
    ASSUME MergeTrees
    PROVE  TreeAt(Merged, stamp) /\ Nodes(Merged) \subseteq Nodes(seen) \cup Nodes(scanned)
<1>. DEFINE m == Merged
<1>1. /\ IsTree(seen) /\ DOMAIN seen \subseteq TreePath /\ IsTree(scanned) /\ DOMAIN scanned \subseteq TreePath
      /\ Nodes(seen) \subseteq FileUpTo(stamp) /\ Nodes(scanned) \subseteq FileUpTo(stamp)
  BY DEF MergeTrees, TreeAt
<1>2. m = [q \in DOMAIN m |-> m[q]] /\ DOMAIN m \subseteq TreePath
  BY <1>1 DEF Merged
<1>3. \A q : /\ FromRemote(q) => SameAt(m, seen, q)
             /\ ~FromRemote(q) => SameAt(m, scanned, q)
  BY MergedAt
<1>. HIDE DEF m
<1>4. ASSUME NEW q \in DOMAIN m, NEW a \in Parents(q)
      PROVE  Has(m, a) /\ m[a] = DirNode
    <2>1. q \in TreePath /\ a \in TreePath /\ Above(a, q)
      BY <1>2, UpFrom
    <2>2. CASE FromRemote(q)
      <3>1. Has(seen, a) /\ seen[a] = DirNode
        BY <1>1, <1>3, <2>2 DEF SameAt, Has, IsTree, WellFormed
      <3>2. CASE FromRemote(a)
        BY <1>3, <3>1, <3>2 DEF SameAt
      <3>3. CASE ~FromRemote(a)
        <4>1. Has(scanned, a) /\ scanned[a] = DirNode
          BY <2>1, <2>2, <3>3, FromRemoteAbove, DescendsIntoDirectories DEF Has
        <4>2. QED
          BY <1>3, <3>3, <4>1 DEF SameAt
      <3>4. QED
        BY <3>2, <3>3
    <2>3. CASE ~FromRemote(q)
      <3>1. ~FromRemote(a)
        BY <2>1, <2>3, FromRemoteBelow
      <3>2. Has(scanned, a) /\ scanned[a] = DirNode
        BY <1>1, <1>3, <2>3 DEF SameAt, Has, IsTree, WellFormed
      <3>3. QED
        BY <1>3, <3>1, <3>2 DEF SameAt
    <2>4. QED
      BY <2>2, <2>3
<1>5. IsTree(m)
    <2>1. \A q \in DOMAIN m : q # <<>>
      BY <1>2, TreePaths
    <2>2. QED
      BY <1>2, <1>4, <2>1, TreePaths DEF IsTree, WellFormed
<1>6. \A q \in Files(m) : m[q] \in Nodes(seen) \cup Nodes(scanned)
  BY <1>3 DEF SameAt, Has, Nodes, Files
<1>7. Nodes(m) \subseteq Nodes(seen) \cup Nodes(scanned)
  BY <1>6 DEF Nodes
<1>8. QED
  BY <1>1, <1>2, <1>5, <1>7 DEF TreeAt, m

-----------------------------------------------------------------------------
(***************************************************************************)
(* The disk follows the merge.                                             *)
(***************************************************************************)
\* What Place leaves on the disk.
Placed(p) == IF ~Has(seen, p) THEN RemoveLocal(p)
             ELSE IF IsFile(seen, p) THEN MaterializeFile(p) ELSE MaterializeDir(p)

TypeInv ==
    /\ stamp \in 0 .. MaxStamp /\ tkills \in 0 .. MaxTreeKills
    /\ tpc \in {"idle", "fetch", "merge", "commit"}
    /\ \A t \in {dbase, disk, head, scanned, seen} : TreeAt(t, stamp)
    /\ stack \subseteq TreePath \cup {<<>>}
    /\ mine \cup kept \subseteq TreeFile
    /\ {torn, mixed} \subseteq BOOLEAN

\* While the merge writes, the disk is as the merge wants it but at the paths still
\* to be placed, and there nothing is on it but what was scanned.
PhaseInv ==
    /\ copying \subseteq Conflicts /\ placing \subseteq OutOfLine
    /\ tpc # "merge" => copying = {} /\ placing = {}
    /\ tpc = "fetch" => disk = scanned
    /\ tpc = "merge" => \A q \in TreePath :
            IF q \in placing THEN Has(disk, q) => Has(scanned, q) /\ disk[q] = scanned[q]
            ELSE SameAt(disk, Merged, q)
    /\ tpc = "commit" => disk = Merged

DiskInv == TypeInv /\ PhaseInv

LEMMA FilesOfTrees ==
    ASSUME TypeInv
    PROVE  MergeTrees /\ FileUpTo(stamp) \subseteq TreeFile
           /\ stamp \in Nat /\ MaxStamp \in Nat /\ stamp <= MaxStamp
<1>1. MaxStamp \in Nat /\ stamp \in 0 .. MaxStamp
  BY TreeSyncAssumption DEF TypeInv
<1>2. stamp \in Nat /\ stamp <= MaxStamp
  BY <1>1
<1>3. FileUpTo(stamp) \subseteq TreeFile
  BY <1>1, <1>2 DEF FileUpTo, TreeFile
<1>4. QED
  BY <1>1, <1>2, <1>3 DEF TypeInv, MergeTrees

LEMMA InPlace ==
    ASSUME TypeInv, PhaseInv
    PROVE  /\ placing \subseteq TreePath /\ copying \subseteq TreePath
           /\ \A p \in placing : FromRemote(p)
           /\ \A p \in copying : p \in DOMAIN scanned /\ p \in DOMAIN seen
<1>1. DOMAIN scanned \subseteq TreePath /\ DOMAIN seen \subseteq TreePath
  BY DEF TypeInv, TreeAt
<1>2. QED
  BY <1>1 DEF PhaseInv, OutOfLine, Conflicts

\* A path is brought into line once what is above it is, and nothing of the merged
\* tree is lost that was on the disk already.
LEMMA PlaceIs ==
    ASSUME TypeInv, PhaseInv, tpc = "merge", NEW p \in placing,
           \A q \in placing : Above(q, p) => q = p
    PROVE  LET d == Placed(p) IN
           /\ TreeAt(d, stamp)
           /\ SameAt(d, Merged, p)
           /\ \A q \in TreePath : q # p =>
                \/ SameAt(d, disk, q)
                \/ Above(p, q) /\ ~Has(d, q) /\ (q \in placing \/ ~Has(Merged, q))
<1>. DEFINE d == Placed(p)
<1>1. /\ p \in TreePath /\ FromRemote(p) /\ SameAt(Merged, seen, p)
      /\ TreeAt(disk, stamp) /\ TreeAt(seen, stamp) /\ TreeAt(Merged, stamp)
    <2>1. p \in TreePath /\ FromRemote(p)
      BY InPlace
    <2>2. QED
      BY <2>1, MergedAt, MergedIsATree, FilesOfTrees DEF TypeInv
<1>2. /\ IsTree(disk) /\ DOMAIN disk \subseteq TreePath /\ IsTree(seen) /\ IsTree(Merged)
      /\ DOMAIN seen \subseteq TreePath
      /\ TreePath \subseteq Path /\ <<>> \notin TreePath /\ Parents(p) \subseteq TreePath
  BY <1>1, TreePaths DEF TreeAt
<1>3. \A q \in TreePath : Above(p, q) => SameAt(Merged, seen, q)
  BY <1>1, FromRemoteBelow, MergedAt
<1>4. \A q \in TreePath \ placing : SameAt(disk, Merged, q)
  BY DEF PhaseInv
<1>5. ASSUME NEW t, IsTree(t), NEW q \in TreePath, Above(p, q), q # p, Has(t, q)
      PROVE  Has(t, p) /\ t[p] = DirNode
  BY <1>1, <1>2, <1>5, AboveIsADirectory DEF Has
<1>6. CASE ~Has(seen, p)
    <2>1. d = Without(disk, p)
      BY <1>6 DEF Placed, RemoveLocal
    <2>2. /\ TreeAt(d, stamp)
          /\ \A q \in TreePath : IF Above(p, q) THEN ~Has(d, q) ELSE SameAt(d, disk, q)
      BY <1>1, <2>1, TreeWithout
    <2>3. \A q \in TreePath : Above(p, q) => ~Has(Merged, q)
      BY <1>1, <1>2, <1>3, <1>5, <1>6 DEF SameAt
    <2>4. SameAt(d, Merged, p)
      BY <1>1, <1>2, <2>2, <2>3, AboveReflexive DEF SameAt
    <2>5. QED
      BY <2>2, <2>3, <2>4
<1>7. CASE Has(seen, p)
    <2>1. Has(Merged, p) /\ Merged[p] = seen[p] /\ p \in DOMAIN Merged
      BY <1>1, <1>7 DEF SameAt, Has
    <2>2. ASSUME NEW a \in Parents(p) PROVE Has(disk, a) /\ disk[a] = DirNode
      <3>1. a \in TreePath /\ Above(a, p) /\ a # p
        BY <1>1, UpFrom
      <3>2. SameAt(disk, Merged, a)
        BY <1>4, <3>1
      <3>3. Has(Merged, a) /\ Merged[a] = DirNode
        BY <1>2, <2>1 DEF IsTree, WellFormed
      <3>4. QED
        BY <3>2, <3>3 DEF SameAt
    <2>3. MayHold(disk, p)
      BY <1>1, <1>2, <2>2 DEF MayHold
    <2>4. ASSUME NEW c, c = seen[p], d = With(disk, p, FileNode(c)),
                 \A q \in TreePath \ placing : Above(p, q) /\ q # p => ~Has(Merged, q)
          PROVE  /\ TreeAt(d, stamp)
                 /\ SameAt(d, Merged, p)
                 /\ \A q \in TreePath : q # p =>
                       \/ SameAt(d, disk, q)
                       \/ Above(p, q) /\ ~Has(d, q) /\ (q \in placing \/ ~Has(Merged, q))
      <3>1. /\ IsTree(d) /\ DOMAIN d \subseteq TreePath
            /\ Nodes(d) \subseteq Nodes(disk) \cup ({c} \ {DirNode})
            /\ Has(d, p) /\ d[p] = c
            /\ \A q \in TreePath : q # p =>
                 IF Above(p, q) THEN ~Has(d, q)
                 ELSE (q \in Parents(p) => Has(disk, q)) => SameAt(d, disk, q)
        BY <1>1, <2>3, <2>4, TreeWith
      <3>2. c # DirNode => c \in Nodes(seen)
        BY <1>7, <2>4 DEF Nodes, Files, Has
      <3>3. TreeAt(d, stamp)
        BY <1>1, <3>1, <3>2 DEF TreeAt
      <3>4. SameAt(d, Merged, p)
        BY <2>1, <2>4, <3>1 DEF SameAt
      <3>5. QED
        BY <2>2, <2>4, <3>1, <3>3, <3>4
    <2>5. CASE seen[p] # DirNode
      <3>1. d = With(disk, p, FileNode(seen[p]))
        BY <1>7, <2>5 DEF Placed, MaterializeFile, IsFile
      <3>2. \A q \in TreePath : Above(p, q) /\ q # p => ~Has(Merged, q)
        BY <1>2, <1>5, <2>1, <2>5
      <3>3. QED
        BY <2>4, <3>1, <3>2
    <2>6. CASE seen[p] = DirNode /\ ~IsDir(disk, p)
      <3>1. d = With(disk, p, FileNode(seen[p]))
        BY <1>7, <2>6 DEF Placed, MaterializeDir, IsFile, EmptyDir
      <3>2. \A q \in TreePath \ placing : Above(p, q) /\ q # p => ~Has(Merged, q)
        BY <1>2, <1>4, <1>5, <2>6 DEF SameAt, IsDir
      <3>3. QED
        BY <2>4, <3>1, <3>2
    <2>7. CASE seen[p] = DirNode /\ IsDir(disk, p)
      <3>1. d = disk
        BY <1>7, <2>7 DEF Placed, MaterializeDir, IsFile
      <3>2. Has(disk, p) /\ disk[p] = DirNode
        BY <1>1, <1>2, <2>7 DEF IsDir
      <3>3. SameAt(d, Merged, p)
        BY <2>1, <2>7, <3>1, <3>2 DEF SameAt
      <3>4. \A q \in TreePath : SameAt(d, disk, q)
        BY <3>1 DEF SameAt
      <3>5. QED
        BY <1>1, <3>1, <3>3, <3>4
    <2>8. QED
      BY <2>5, <2>6, <2>7
<1>8. QED
  BY <1>6, <1>7 DEF d

LEMMA DiskStarts == TreeInit => DiskInv
<1>1. SUFFICES ASSUME TreeInit PROVE DiskInv
  OBVIOUS
<1>2. TypeInv
    <2>1. 0 \in 0 .. MaxStamp /\ 0 \in 0 .. MaxTreeKills
      BY TreeSyncAssumption
    <2>2. \A t \in {dbase, disk, head, scanned, seen} : t = EmptyTree
      BY <1>1 DEF TreeInit
    <2>3. QED
      BY <1>1, <2>1, <2>2, EmptyTreeAt DEF TreeInit, TypeInv
<1>3. PhaseInv
  BY <1>1 DEF TreeInit, PhaseInv
<1>4. QED
  BY <1>2, <1>3 DEF DiskInv

LEMMA TypeKept == TypeInv /\ PhaseInv /\ [TreeNext]_treeVars => TypeInv'
<1>1. SUFFICES ASSUME TypeInv, PhaseInv, [TreeNext]_treeVars PROVE TypeInv'
  OBVIOUS
<1>2. /\ MaxStamp \in Nat /\ MaxTreeKills \in Nat /\ stamp \in Nat /\ stamp <= MaxStamp
      /\ FileUpTo(stamp) \subseteq TreeFile /\ MergeTrees
      /\ tkills \in Nat
  BY <1>1, FilesOfTrees, TreeSyncAssumption DEF TypeInv
<1>3. /\ TreeAt(dbase, stamp) /\ TreeAt(disk, stamp) /\ TreeAt(head, stamp)
      /\ TreeAt(scanned, stamp) /\ TreeAt(seen, stamp) /\ TreeAt(Merged, stamp)
      /\ \A t : TreeAt(t, stamp) => TreeAt(t, stamp + 1)
  BY <1>1, <1>2, MergedIsATree, TreeLater DEF TypeInv
<1>4. ASSUME NEW t, TreeAt(t, stamp) PROVE Nodes(t) \subseteq TreeFile
  BY <1>2, <1>4 DEF TreeAt
<1>5. CASE EditHere
    <2>1. PICK t \in Changed(disk, "here") :
            /\ stamp < MaxStamp /\ stamp' = stamp + 1 /\ disk' = t
            /\ mine' = (mine \cap Nodes(t)) \cup (Nodes(t) \ Nodes(disk))
            /\ UNCHANGED <<dbase, head, tpc, scanned, seen, stack, kept, tkills, torn, mixed>>
      BY <1>5 DEF EditHere
    <2>2. TreeAt(t, stamp + 1) /\ stamp + 1 \in 1 .. MaxStamp
      BY <1>2, <1>3, <2>1, ChangedIs
    <2>3. Nodes(t) \subseteq TreeFile
      BY <1>2, <2>2 DEF TreeAt, FileUpTo, TreeFile
    <2>4. QED
      BY <1>1, <1>2, <1>3, <2>1, <2>2, <2>3 DEF TypeInv
<1>6. CASE CommitThere
    <2>1. PICK t \in Changed(head, "there") :
            /\ stamp < MaxStamp /\ stamp' = stamp + 1 /\ head' = t
            /\ UNCHANGED <<dbase, disk, tpc, scanned, seen, stack, kept, tkills, mine, torn, mixed>>
      BY <1>6 DEF CommitThere
    <2>2. TreeAt(t, stamp + 1) /\ stamp + 1 \in 1 .. MaxStamp
      BY <1>2, <1>3, <2>1, ChangedIs
    <2>3. QED
      BY <1>1, <1>2, <1>3, <2>1, <2>2 DEF TypeInv
<1>7. CASE StartAttempt
  BY <1>1, <1>7 DEF StartAttempt, TypeInv
<1>8. CASE FetchNode
    <2>1. PICK p \in stack : stack' \subseteq stack \cup Children(seen, p)
      BY <1>8 DEF FetchNode, ToVisit
    <2>2. Children(seen, p) \subseteq TreePath
      BY <1>3 DEF Children, TreeAt
    <2>3. QED
      BY <1>1, <1>8, <2>1, <2>2 DEF FetchNode, TypeInv
<1>9. CASE StartMerge
  BY <1>1, <1>9 DEF StartMerge, TypeInv
<1>10. CASE SaveConflictCopy
    <2>1. PICK p \in copying : kept' = kept \cup Saved(p) /\ mixed' = (mixed \/ Loser(p) = DirNode)
      BY <1>10 DEF SaveConflictCopy
    <2>2. p \in DOMAIN scanned /\ p \in DOMAIN seen
      BY <1>1, InPlace
    <2>3. Nodes(seen) \subseteq TreeFile /\ Nodes(scanned) \subseteq TreeFile
      BY <1>3, <1>4
    <2>4. Saved(p) \subseteq TreeFile
      BY <2>2, <2>3 DEF Saved, Loser, Nodes, Files
    <2>5. mixed' \in BOOLEAN
      BY <1>1, <2>1 DEF TypeInv
    <2>6. QED
      BY <1>1, <1>10, <2>1, <2>4, <2>5 DEF SaveConflictCopy, TypeInv
<1>11. CASE Place
    <2>1. PICK p \in placing :
            /\ tpc = "merge" /\ \A q \in placing : Above(q, p) => q = p
            /\ tpc' \in {tpc, "idle"} /\ (disk' = disk \/ disk' = Placed(p))
            /\ UNCHANGED <<dbase, head, scanned, seen, stack, kept, stamp, tkills, mine, torn, mixed>>
      BY <1>11 DEF Place, Placed
    <2>2. TreeAt(Placed(p), stamp)
      BY <1>1, <2>1, PlaceIs
    <2>3. QED
      BY <1>1, <1>3, <2>1, <2>2 DEF TypeInv
<1>12. CASE FinishMerge
  BY <1>1, <1>12 DEF FinishMerge, TypeInv
<1>13. CASE EndAttempt
    <2>1. dbase' \in {dbase, Merged} /\ head' \in {head, Merged} /\ mine' \subseteq mine
      BY <1>13 DEF EndAttempt
    <2>2. QED
      BY <1>1, <1>3, <1>13, <2>1 DEF EndAttempt, TypeInv
<1>14. CASE KillClient
    <2>1. torn' \in BOOLEAN
      BY <1>1, <1>14 DEF KillClient, TypeInv
    <2>2. tkills' \in 0 .. MaxTreeKills
      BY <1>2, <1>14 DEF KillClient
    <2>3. QED
      BY <1>1, <1>14, <2>1, <2>2 DEF KillClient, TypeInv
<1>15. CASE UNCHANGED treeVars
  BY <1>1, <1>15 DEF treeVars, TypeInv
<1>16. QED
  BY <1>1, <1>5, <1>6, <1>7, <1>8, <1>9, <1>10, <1>11, <1>12, <1>13, <1>14, <1>15 DEF TreeNext, Attempt

LEMMA PhaseKept == TypeInv /\ PhaseInv /\ [TreeNext]_treeVars => PhaseInv'
<1>1. SUFFICES ASSUME TypeInv, PhaseInv, [TreeNext]_treeVars PROVE PhaseInv'
  OBVIOUS
<1>2. UNCHANGED <<dbase, scanned, seen>> =>
        Merged' = Merged /\ Conflicts' = Conflicts /\ OutOfLine' = OutOfLine
  BY SameMerge
<1>3. CASE EditHere
  BY <1>1, <1>2, <1>3 DEF EditHere, PhaseInv
<1>4. CASE CommitThere
  BY <1>1, <1>2, <1>4 DEF CommitThere, PhaseInv
<1>5. CASE StartAttempt
  BY <1>1, <1>5 DEF StartAttempt, PhaseInv
<1>6. CASE FetchNode
  BY <1>1, <1>2, <1>6 DEF FetchNode, PhaseInv
<1>7. CASE StartMerge
    <2>1. UNCHANGED <<dbase, scanned, seen>> /\ disk' = disk /\ disk = scanned
      BY <1>1, <1>7 DEF StartMerge, PhaseInv
    <2>2. CASE tpc' = "idle"
      BY <1>1, <1>2, <1>7, <2>1, <2>2 DEF StartMerge, PhaseInv
    <2>3. CASE tpc' = "merge" /\ copying' = Conflicts /\ placing' = OutOfLine
      <3>1. ASSUME NEW q \in TreePath, q \notin OutOfLine
            PROVE  SameAt(disk, Merged, q)
        <4>1. CASE ~FromRemote(q)
          BY <2>1, <4>1, MergedAt DEF SameAt
        <4>2. CASE FromRemote(q)
          <5>1. SameAt(scanned, seen, q)
            BY <3>1, <4>2 DEF OutOfLine, SameAt, Has
          <5>2. QED
            BY <2>1, <4>2, <5>1, MergedAt DEF SameAt
        <4>3. QED
          BY <4>1, <4>2
      <3>2. QED
        BY <1>2, <2>1, <2>3, <3>1 DEF PhaseInv
    <2>4. QED
      BY <1>7, <2>2, <2>3 DEF StartMerge
<1>8. CASE SaveConflictCopy
    <2>1. copying' \subseteq copying
      BY <1>8 DEF SaveConflictCopy
    <2>2. QED
      BY <1>1, <1>2, <1>8, <2>1 DEF SaveConflictCopy, PhaseInv
<1>9. CASE Place
    <2>1. UNCHANGED <<dbase, scanned, seen>> /\ tpc = "merge"
      BY <1>9 DEF Place
    <2>2. CASE tpc' = "idle" /\ copying' = {} /\ placing' = {}
      BY <1>2, <2>1, <2>2 DEF PhaseInv
    <2>3. CASE \E p \in placing :
                 /\ \A q \in placing : Above(q, p) => q = p
                 /\ tpc' = tpc /\ copying' = copying /\ placing' = placing \ {p} /\ disk' = Placed(p)
      <3>1. PICK p \in placing :
                 /\ \A q \in placing : Above(q, p) => q = p
                 /\ tpc' = tpc /\ copying' = copying /\ placing' = placing \ {p} /\ disk' = Placed(p)
        BY <2>3
      <3>2. /\ SameAt(disk', Merged, p)
            /\ \A q \in TreePath : q # p =>
                 \/ SameAt(disk', disk, q)
                 \/ Above(p, q) /\ ~Has(disk', q) /\ (q \in placing \/ ~Has(Merged, q))
        BY <1>1, <2>1, <3>1, PlaceIs
      <3>3. ASSUME NEW q \in TreePath
            PROVE  IF q \in placing' THEN Has(disk', q) => Has(scanned, q) /\ disk'[q] = scanned[q]
                   ELSE SameAt(disk', Merged, q)
        <4>1. IF q \in placing THEN Has(disk, q) => Has(scanned, q) /\ disk[q] = scanned[q]
              ELSE SameAt(disk, Merged, q)
          BY <1>1, <2>1 DEF PhaseInv
        <4>2. CASE q = p
          BY <3>1, <3>2, <4>2
        <4>3. CASE q # p
          BY <3>1, <3>2, <4>1, <4>3 DEF SameAt
        <4>4. QED
          BY <4>2, <4>3
      <3>4. copying \subseteq Conflicts' /\ placing' \subseteq OutOfLine' /\ tpc' = "merge"
        BY <1>1, <1>2, <2>1, <3>1 DEF PhaseInv
      <3>5. \A q \in TreePath :
              IF q \in placing' THEN Has(disk', q) => Has(scanned', q) /\ disk'[q] = scanned'[q]
              ELSE SameAt(disk', Merged', q)
        BY <1>2, <2>1, <3>3
      <3>6. QED
        BY <3>1, <3>4, <3>5 DEF PhaseInv, SameAt, Has
    <2>4. QED
      BY <1>9, <2>2, <2>3 DEF Place, Placed
<1>10. CASE FinishMerge
    <2>1. /\ UNCHANGED <<dbase, disk, scanned, seen, copying, placing>>
          /\ tpc = "merge" /\ tpc' = "commit" /\ placing = {} /\ copying = {}
      BY <1>10 DEF FinishMerge
    <2>2. TreeAt(disk, stamp) /\ TreeAt(Merged, stamp)
      BY <1>1, FilesOfTrees, MergedIsATree DEF TypeInv
    <2>3. \A q \in TreePath : SameAt(disk, Merged, q)
      BY <1>1, <2>1 DEF PhaseInv
    <2>4. disk = Merged
      BY <2>2, <2>3, SameTree DEF TreeAt
    <2>5. QED
      BY <1>2, <2>1, <2>4 DEF PhaseInv
<1>11. CASE EndAttempt
    <2>1. tpc' = "idle" /\ copying' = {} /\ placing' = {}
      BY <1>1, <1>11 DEF EndAttempt, PhaseInv
    <2>2. QED
      BY <2>1 DEF PhaseInv
<1>12. CASE KillClient
  BY <1>12 DEF KillClient, PhaseInv
<1>13. CASE UNCHANGED treeVars
    <2>1. UNCHANGED <<dbase, disk, tpc, scanned, seen, copying, placing>>
      BY <1>13 DEF treeVars
    <2>2. QED
      BY <1>1, <1>2, <2>1 DEF PhaseInv
<1>14. QED
  BY <1>1, <1>3, <1>4, <1>5, <1>6, <1>7, <1>8, <1>9, <1>10, <1>11, <1>12, <1>13 DEF TreeNext, Attempt

LEMMA DiskInvariant == TreeSpec => []DiskInv
<1>1. DiskInv /\ [TreeNext]_treeVars => DiskInv'
  BY TypeKept, PhaseKept DEF DiskInv
<1>2. QED
  BY <1>1, DiskStarts, PTL DEF TreeSpec

\* Every variable of a device's attempts over directories has its type, and every
\* tree, the merged one too, has a directory at each path above what it holds.
THEOREM TreeTyped == TreeSpec => []TreeTypeOK
<1>1. DiskInv => TreeTypeOK
    <2>1. SUFFICES ASSUME TypeInv, PhaseInv PROVE TreeTypeOK
      BY DEF DiskInv
    <2>2. \A t \in {dbase, disk, head, scanned, seen} : WellFormed(t) /\ DOMAIN t \subseteq TreePath
      BY <2>1 DEF TypeInv, TreeAt, IsTree
    <2>3. copying \cup placing \subseteq TreePath
      BY <2>1, InPlace
    <2>4. QED
      BY <2>1, <2>2, <2>3 DEF TypeInv, TreeTypeOK
<1>2. QED
  BY <1>1, DiskInvariant, PTL

\* When an attempt is about to commit, the disk holds exactly the tree that
\* merge_dir returned: what remove_local, materialize_file and materialize_dir did
\* path by path adds up to it, whatever kinds met and wherever the merge descended.
THEOREM DiskBecomesTheMerge == TreeSpec => []DiskIsWhatIsCommitted
<1>1. DiskInv => DiskIsWhatIsCommitted
  BY DEF DiskInv, PhaseInv, DiskIsWhatIsCommitted
<1>2. QED
  BY <1>1, DiskInvariant, PTL

-----------------------------------------------------------------------------
(***************************************************************************)
(* Nobody's file is destroyed.                                             *)
(***************************************************************************)
\* What this user made is not in the base, and stays; every conflict that is dealt
\* with left its loser beside the winner.
CareInv ==
    /\ mine \cap Nodes(dbase) = {}
    /\ ~mixed => mine \subseteq Nodes(disk) \cup kept
    /\ tpc \in {"merge", "commit"} => \A a \in Conflicts \ copying :
            Saved(a) \subseteq kept /\ (Loser(a) = DirNode => mixed)

\* A file that Place takes off the disk is one of the base, or has its copy.
LEMMA PlaceTakesNoWork ==
    ASSUME TypeInv, PhaseInv, CareInv, tpc = "merge", ~mixed, NEW p \in placing,
           \A a \in copying : ~Above(a, p),
           NEW q \in placing, Above(p, q), q \in Files(disk)
    PROVE  disk[q] \in Nodes(dbase) \cup kept
<1>1. /\ p \in TreePath /\ q \in TreePath /\ FromRemote(p) /\ FromRemote(q)
      /\ TreePath \subseteq Path /\ <<>> \notin TreePath
      /\ stamp \in 0 .. MaxStamp
      /\ TreeAt(dbase, stamp) /\ TreeAt(scanned, stamp) /\ TreeAt(seen, stamp)
  BY InPlace, TreePaths DEF TypeInv
<1>2. Has(scanned, q) /\ disk[q] = scanned[q] /\ scanned[q] # DirNode
  BY <1>1 DEF PhaseInv, Files, Has
<1>3. PICK b \in Parents(q) \cup {q} : Settles(b) /\ Decision(b) \in {Take, TakeBoth}
  BY <1>1 DEF FromRemote
<1>4. b \in TreePath /\ Above(b, q)
  BY <1>1, UpFrom
<1>5. Has(scanned, b)
  BY <1>1, <1>2, <1>3 DEF Has, TreeAt, IsTree, WellFormed
<1>6. CASE Decision(b) = Take
    <2>1. Version(scanned, b) # NoNode
      BY <1>1, <1>4, <1>5, VersionIs
    <2>2. Version(dbase, b) = Version(scanned, b)
      BY <1>6, <2>1, MergeEntryIs DEF Decision
    <2>3. SameAt(scanned, dbase, q)
      BY <1>1, <1>4, <1>5, <2>2, SameVersion
    <2>4. QED
      BY <1>2, <2>3 DEF SameAt, Nodes, Files, Has
<1>7. CASE Decision(b) = TakeBoth
    <2>1. Version(scanned, b) # NoNode /\ Version(seen, b) # NoNode
      BY <1>7, MergeEntryIs DEF Decision
    <2>2. Has(seen, b)
      BY <1>1, <1>4, <2>1, VersionIs
    <2>3. b \in Conflicts
      BY <1>3, <1>5, <1>7, <2>2 DEF Conflicts, Has
    <2>4. Above(b, p)
      <3>1. SUFFICES ASSUME ~Above(b, p) PROVE FALSE
        OBVIOUS
      <3>2. Above(p, b) /\ p # b
        BY <1>1, <1>4, <3>1, AboveChain, AboveReflexive
      <3>3. p \in Parents(b)
        BY <1>1, <1>4, <3>2, UpFrom
      <3>4. PICK c \in Parents(p) \cup {p} : Settles(c)
        BY <1>1 DEF FromRemote
      <3>5. c \in TreePath /\ Above(c, p)
        BY <1>1, UpFrom
      <3>6. Above(c, b)
        BY <1>1, <1>4, <3>2, <3>5, AboveTransitive
      <3>7. c = b
        BY <1>3, <1>4, <3>4, <3>5, <3>6, OneSettles
      <3>8. QED
        BY <3>1, <3>5, <3>7
    <2>5. Saved(b) \subseteq kept /\ Loser(b) # DirNode
      BY <2>3, <2>4 DEF CareInv
    <2>6. Loser(b) = scanned[b]
      BY <1>7 DEF Loser, KeepBoth, TakeBoth
    <2>7. q = b
      BY <1>1, <1>2, <1>3, <2>5, <2>6 DEF TreeAt, IsTree, WellFormed, Has
    <2>8. QED
      BY <1>2, <2>5, <2>6, <2>7 DEF Saved
<1>8. QED
  BY <1>3, <1>6, <1>7

LEMMA CareKept == TypeInv /\ PhaseInv /\ CareInv /\ [TreeNext]_treeVars => CareInv'
<1>1. SUFFICES ASSUME TypeInv, PhaseInv, CareInv, [TreeNext]_treeVars PROVE CareInv'
  OBVIOUS
<1>2. UNCHANGED <<dbase, scanned, seen>> =>
        Conflicts' = Conflicts /\ \A p : Saved(p)' = Saved(p) /\ Loser(p)' = Loser(p)
  BY SameMerge
<1>3. /\ MaxStamp \in Nat /\ stamp \in Nat /\ TreeAt(dbase, stamp) /\ TreeAt(disk, stamp)
  BY <1>1, FilesOfTrees DEF TypeInv
<1>4. CASE EditHere
    <2>1. PICK t \in Changed(disk, "here") :
            /\ disk' = t /\ tpc = "idle"
            /\ mine' = (mine \cap Nodes(t)) \cup (Nodes(t) \ Nodes(disk))
            /\ UNCHANGED <<dbase, tpc, kept, mixed>>
      BY <1>4 DEF EditHere
    <2>2. Nodes(t) \subseteq Nodes(disk) \cup {[by |-> "here", mtime |-> stamp + 1]}
      BY <1>3, <2>1, ChangedIs
    <2>3. Nodes(dbase) \subseteq FileUpTo(stamp)
      BY <1>3 DEF TreeAt
    <2>4. [by |-> "here", mtime |-> stamp + 1] \notin Nodes(dbase)
      BY <1>3, <2>3 DEF FileUpTo
    <2>5. mine' \cap Nodes(dbase) = {} /\ mine' \subseteq Nodes(t)
      BY <1>1, <2>1, <2>2, <2>4 DEF CareInv
    <2>6. Nodes(dbase)' = Nodes(dbase) /\ Nodes(disk)' = Nodes(t)
      BY <2>1 DEF Nodes, Files
    <2>7. QED
      BY <2>1, <2>5, <2>6 DEF CareInv
<1>5. CASE CommitThere
    <2>1. UNCHANGED <<dbase, disk, tpc, scanned, seen, copying, kept, mine, mixed>>
      BY <1>5 DEF CommitThere
    <2>2. QED
      BY <1>1, <1>2, <2>1 DEF CareInv, Nodes, Files
<1>6. CASE StartAttempt
  BY <1>1, <1>6 DEF StartAttempt, CareInv, Nodes, Files
<1>7. CASE FetchNode
  BY <1>1, <1>7 DEF FetchNode, CareInv, Nodes, Files
<1>8. CASE StartMerge
    <2>1. /\ UNCHANGED <<dbase, disk, scanned, seen, kept, mine, mixed>>
          /\ tpc' = "idle" \/ (tpc' = "merge" /\ copying' = Conflicts)
      BY <1>8 DEF StartMerge
    <2>2. QED
      BY <1>1, <1>2, <2>1 DEF CareInv, Nodes, Files
<1>9. CASE SaveConflictCopy
    <2>1. PICK p \in copying :
            /\ kept' = kept \cup Saved(p) /\ copying' = copying \ {p}
            /\ mixed' = (mixed \/ Loser(p) = DirNode) /\ tpc = "merge"
            /\ UNCHANGED <<dbase, disk, tpc, scanned, seen, mine>>
      BY <1>9 DEF SaveConflictCopy
    <2>2. \A a \in Conflicts \ copying' :
            Saved(a) \subseteq kept' /\ (Loser(a) = DirNode => mixed')
      BY <1>1, <2>1 DEF CareInv
    <2>3. \A a \in Conflicts' \ copying' :
            Saved(a)' \subseteq kept' /\ (Loser(a)' = DirNode => mixed')
      BY <1>2, <2>1, <2>2
    <2>4. (~mixed' => ~mixed) /\ kept \subseteq kept'
      BY <2>1
    <2>5. mine' \cap Nodes(dbase)' = {} /\ (~mixed' => mine' \subseteq Nodes(disk)' \cup kept')
      BY <1>1, <2>1, <2>4 DEF CareInv, Nodes, Files
    <2>6. QED
      BY <2>3, <2>5 DEF CareInv
<1>10. CASE Place
    <2>1. UNCHANGED <<dbase, scanned, seen, kept, mine, mixed>> /\ tpc = "merge"
      BY <1>10 DEF Place
    <2>2. CASE tpc' = "idle" /\ disk' = disk
      BY <1>1, <2>1, <2>2 DEF CareInv, Nodes, Files
    <2>3. CASE \E p \in placing :
                 /\ \A q \in copying : ~Above(q, p)
                 /\ \A q \in placing : Above(q, p) => q = p
                 /\ tpc' = tpc /\ copying' = copying /\ disk' = Placed(p)
      <3>1. PICK p \in placing :
                 /\ \A q \in copying : ~Above(q, p)
                 /\ \A q \in placing : Above(q, p) => q = p
                 /\ tpc' = tpc /\ copying' = copying /\ disk' = Placed(p)
        BY <2>3
      <3>2. \A q \in TreePath : q # p =>
                 \/ SameAt(disk', disk, q)
                 \/ Above(p, q) /\ ~Has(disk', q) /\ (q \in placing \/ ~Has(Merged, q))
        BY <1>1, <2>1, <3>1, PlaceIs
      <3>3. \A q \in TreePath : IF q \in placing THEN TRUE ELSE SameAt(disk, Merged, q)
        BY <1>1, <2>1 DEF PhaseInv
      <3>4. ASSUME ~mixed, NEW f \in mine PROVE f \in Nodes(disk') \cup kept
        <4>1. CASE f \in kept
          BY <4>1
        <4>2. CASE f \in Nodes(disk)
          <5>1. PICK q \in Files(disk) : f = disk[q]
            BY <4>2 DEF Nodes
          <5>2. q \in TreePath /\ Has(disk, q)
            BY <1>3, <5>1 DEF TreeAt, Files, Has
          <5>3. CASE SameAt(disk', disk, q)
            BY <5>1, <5>2, <5>3 DEF SameAt, Nodes, Files, Has
          <5>4. CASE ~SameAt(disk', disk, q)
            <6>1. q \in placing /\ Above(p, q)
              <7>1. CASE q = p
                <8>1. p \in Path
                  BY <5>2, <7>1, TreePaths
                <8>2. QED
                  BY <3>1, <7>1, <8>1, AboveReflexive
              <7>2. CASE q # p
                BY <3>2, <3>3, <5>2, <5>4, <7>2 DEF SameAt
              <7>3. QED
                BY <7>1, <7>2
            <6>2. disk[q] \in Nodes(dbase) \cup kept
              BY <1>1, <2>1, <3>1, <3>4, <5>1, <6>1, PlaceTakesNoWork
            <6>3. QED
              BY <1>1, <3>4, <5>1, <6>2 DEF CareInv
          <5>5. QED
            BY <5>3, <5>4
        <4>3. QED
          BY <1>1, <3>4, <4>1, <4>2 DEF CareInv
      <3>5. \A a \in Conflicts \ copying : Saved(a) \subseteq kept /\ (Loser(a) = DirNode => mixed)
        BY <1>1, <2>1 DEF CareInv
      <3>6. mine' \cap Nodes(dbase)' = {} /\ (~mixed' => mine' \subseteq Nodes(disk)' \cup kept')
        BY <1>1, <2>1, <3>4 DEF CareInv, Nodes, Files
      <3>7. QED
        BY <1>2, <2>1, <3>1, <3>5, <3>6 DEF CareInv
    <2>4. QED
      BY <1>10, <2>2, <2>3 DEF Place, Placed
<1>11. CASE FinishMerge
    <2>1. UNCHANGED <<dbase, disk, scanned, seen, copying, kept, mine, mixed>> /\ tpc = "merge"
      BY <1>11 DEF FinishMerge
    <2>2. QED
      BY <1>1, <1>2, <2>1 DEF CareInv, Nodes, Files
<1>12. CASE EndAttempt
    <2>1. /\ UNCHANGED <<disk, kept, mixed>> /\ tpc' = "idle"
          /\ mine' = {} \/ UNCHANGED <<dbase, mine>>
      BY <1>12 DEF EndAttempt
    <2>2. QED
      BY <1>1, <2>1 DEF CareInv, Nodes, Files
<1>13. CASE KillClient
  BY <1>1, <1>13 DEF KillClient, CareInv, Nodes, Files
<1>14. CASE UNCHANGED treeVars
    <2>1. UNCHANGED <<dbase, disk, tpc, scanned, seen, copying, kept, mine, mixed>>
      BY <1>14 DEF treeVars
    <2>2. QED
      BY <1>1, <1>2, <2>1 DEF CareInv, Nodes, Files
<1>15. QED
  BY <1>1, <1>4, <1>5, <1>6, <1>7, <1>8, <1>9, <1>10, <1>11, <1>12, <1>13, <1>14 DEF TreeNext, Attempt

\* The first path above one where the merge does not descend settles it.
LEMMA TopSettles ==
    ASSUME NEW p \in TreePath, ~Descends(p)
    PROVE  \E c \in Parents(p) \cup {p} : Settles(c)
<1>. DEFINE Stops == {c \in Parents(p) \cup {p} : ~Descends(c)}
            Lengths == {Len(c) : c \in Stops}
            R == OpToRel(<, Nat)
<1>1. Stops \subseteq TreePath /\ Stops \subseteq Path /\ \A c \in Stops : Len(c) \in Nat
  BY UpFrom, TreePaths, AboveReflexive
<1>2. Lengths \subseteq Nat /\ Lengths # {}
  BY <1>1
<1>3. IsWellFoundedOn(R, Nat)
  BY NatLessThanWellFounded
<1>4. \E k \in Lengths : \A j \in Lengths : ~ (<<j, k>> \in R)
    <2>. HIDE DEF R, Lengths
    <2>1. QED
      BY <1>2, <1>3, WFMin
<1>5. PICK c \in Stops : \A d \in Stops : ~ (Len(d) < Len(c))
    <2>1. \A j \in Nat, k \in Nat : j < k => <<j, k>> \in R
      BY DEF OpToRel
    <2>. HIDE DEF R
    <2>2. QED
      BY <1>1, <1>4, <2>1
<1>6. ASSUME NEW a \in Parents(c) PROVE Descends(a)
    <2>1. c \in TreePath /\ Above(c, p)
      BY <1>1, UpFrom
    <2>2. a \in TreePath /\ Above(a, c) /\ a # c
      BY <2>1, UpFrom
    <2>3. /\ a \in Path /\ c \in Path /\ p \in Path
      BY <2>1, <2>2, TreePaths
    <2>4. a \in Parents(p) \cup {p}
      BY <2>1, <2>2, <2>3, AboveTransitive, UpFrom
    <2>5. Len(a) < Len(c)
      <3>1. Len(a) \in Nat /\ Len(c) \in Nat /\ Len(a) <= Len(c)
        BY <2>2, <2>3, AboveReflexive, AboveFacts
      <3>2. Len(a) # Len(c)
        <4>1. SUFFICES ASSUME Len(a) = Len(c) PROVE FALSE
          OBVIOUS
        <4>2. SubSeq(c, 1, Len(c)) = c
          BY <2>3, SubSeqFull DEF Path
        <4>3. QED
          BY <2>2, <4>1, <4>2 DEF Above
      <3>3. QED
        BY <3>1, <3>2
    <2>6. QED
      BY <1>5, <2>4, <2>5
<1>7. QED
  BY <1>6 DEF Settles

\* A file of the head that is in neither the merged tree nor a copy is the base's.
LEMMA RemoteFileKept ==
    ASSUME TypeInv, ~mixed,
           \A a \in Conflicts : Saved(a) \subseteq kept /\ (Loser(a) = DirNode => mixed),
           NEW p \in Files(seen)
    PROVE  \/ Has(dbase, p) /\ dbase[p] = seen[p]
           \/ seen[p] \in Nodes(Merged) \cup kept
<1>1. /\ stamp \in 0 .. MaxStamp
      /\ TreeAt(dbase, stamp) /\ TreeAt(scanned, stamp) /\ TreeAt(seen, stamp)
      /\ IsTree(seen) /\ p \in TreePath /\ Has(seen, p) /\ seen[p] # DirNode
      /\ <<>> \notin TreePath
  BY TreePaths DEF TypeInv, TreeAt, Files, Has
<1>2. CASE SameAt(Merged, seen, p)
  BY <1>1, <1>2 DEF SameAt, Nodes, Files, Has
<1>3. CASE FromRemote(p)
  BY <1>2, <1>3, MergedAt
<1>4. CASE ~FromRemote(p)
    <2>1. ~Descends(p)
      BY <1>1, DescendsIntoDirectories
    <2>2. PICK c \in Parents(p) \cup {p} : Settles(c)
      BY <1>1, <2>1, TopSettles
    <2>3. c \in TreePath /\ Above(c, p)
      BY <1>1, UpFrom
    <2>4. Decision(c) \in {Keep, KeepBoth}
      BY <1>4, <2>2, MergeEntryIs DEF FromRemote, Decision, Decisions
    <2>5. Has(seen, c)
      BY <1>1, <2>2 DEF Has, IsTree, WellFormed
    <2>6. Version(seen, c) # NoNode
      BY <1>1, <2>3, <2>5, VersionIs
    <2>7. CASE Decision(c) = KeepBoth
      <3>1. Version(scanned, c) # NoNode
        BY <2>7, MergeEntryIs DEF Decision
      <3>2. Has(scanned, c)
        BY <1>1, <2>3, <3>1, VersionIs
      <3>3. c \in Conflicts /\ Loser(c) = seen[c]
        BY <2>2, <2>5, <2>7, <3>2 DEF Conflicts, Loser, Has
      <3>4. seen[c] # DirNode
        BY <3>3
      <3>5. c = p
        BY <1>1, <2>2, <3>4 DEF IsTree, WellFormed, Has
      <3>6. QED
        BY <3>3, <3>4, <3>5 DEF Saved
    <2>8. CASE Decision(c) = Keep
      <3>1. Version(scanned, c) = Version(seen, c) \/ Version(dbase, c) = Version(seen, c)
        BY <2>6, <2>8, MergeEntryIs DEF Decision
      <3>2. CASE Version(scanned, c) = Version(seen, c)
        <4>1. SameAt(seen, scanned, p)
          BY <1>1, <2>3, <2>5, <3>2, SameVersion
        <4>2. SameAt(Merged, seen, p)
          BY <1>4, <4>1, MergedAt DEF SameAt
        <4>3. QED
          BY <1>2, <4>2
      <3>3. CASE Version(dbase, c) = Version(seen, c)
        <4>1. SameAt(seen, dbase, p)
          BY <1>1, <2>3, <2>5, <3>3, SameVersion
        <4>2. QED
          BY <1>1, <4>1 DEF SameAt
      <3>4. QED
        BY <3>1, <3>2, <3>3
    <2>9. QED
      BY <2>4, <2>7, <2>8
<1>5. QED
  BY <1>3, <1>4

\* As long as no conflict is one of a file with a directory, a file the user made
\* stays on the disk or in a copy until it is committed, and a file that came from
\* the server since the base is in the committed tree or in a copy.
THEOREM NobodysFileIsDestroyed == TreeSpec => []NothingDestroyedOfAKind
<1>1. TreeInit => CareInv
  BY DEF TreeInit, CareInv
<1>2. TypeInv /\ PhaseInv /\ CareInv => NothingDestroyedOfAKind
    <2>1. SUFFICES ASSUME TypeInv, PhaseInv, CareInv, ~mixed PROVE NothingDestroyed
      BY DEF NothingDestroyedOfAKind
    <2>2. mine \subseteq Nodes(disk) \cup kept
      BY <2>1 DEF CareInv
    <2>3. tpc = "commit" =>
            \A a \in Conflicts : Saved(a) \subseteq kept /\ (Loser(a) = DirNode => mixed)
      BY <2>1 DEF PhaseInv, CareInv
    <2>4. QED
      BY <2>1, <2>2, <2>3, RemoteFileKept DEF NothingDestroyed
<1>3. DiskInv /\ CareInv /\ [TreeNext]_treeVars => CareInv'
  BY CareKept DEF DiskInv
<1>4. DiskInv /\ CareInv => NothingDestroyedOfAKind
  BY <1>2 DEF DiskInv
<1>5. QED
  BY <1>1, <1>3, <1>4, DiskInvariant, PTL DEF TreeSpec

-----------------------------------------------------------------------------
\* What qd status lists, with what is below it, is all that differs between the
\* base and the disk.
THEOREM StatusTellsAll == TreeSpec => []StatusReproduces
<1>1. DiskInv => StatusReproduces
    <2>1. SUFFICES ASSUME TypeInv PROVE StatusReproduces
      BY DEF DiskInv
    <2>. DEFINE changed == {p \in TreePath : \E a \in Parents(p) \cup {p} : a \in Modified(dbase, disk)}
    <2>2. /\ IsTree(dbase) /\ IsTree(disk) /\ DOMAIN dbase \subseteq TreePath /\ DOMAIN disk \subseteq TreePath
      BY <2>1 DEF TypeInv, TreeAt
    <2>3. ASSUME NEW p \in DOMAIN disk \ DOMAIN dbase, p \notin changed
          PROVE  p \in Added(dbase, disk)
      <3>1. \A a \in Parents(p) : Has(disk, a) /\ disk[a] = DirNode /\ a \notin Modified(dbase, disk)
        BY <2>2, <2>3 DEF IsTree, WellFormed
      <3>2. QED
        BY <2>3, <3>1 DEF Added, Modified, Has
    <2>4. ASSUME NEW p \in DOMAIN dbase \ DOMAIN disk, p \notin changed
          PROVE  p \in Removed(dbase, disk)
      <3>1. \A a \in Parents(p) : Has(dbase, a) /\ dbase[a] = DirNode /\ a \notin Modified(dbase, disk)
        BY <2>2, <2>4 DEF IsTree, WellFormed
      <3>2. QED
        BY <2>4, <3>1 DEF Removed, Added, Modified, Has
    <2>5. Added(dbase, disk) \subseteq DOMAIN disk /\ Removed(dbase, disk) \cap DOMAIN disk = {}
      BY DEF Added, Removed
    <2>6. DOMAIN disk = ((DOMAIN dbase \ Removed(dbase, disk)) \ changed)
                        \cup Added(dbase, disk) \cup (changed \cap DOMAIN disk)
      <3>. HIDE DEF changed
      <3>1. QED
        BY <2>3, <2>4, <2>5
    <2>7. ASSUME NEW p \in DOMAIN disk \ (changed \cup Added(dbase, disk))
          PROVE  disk[p] = dbase[p]
      BY <2>2, <2>3, <2>7 DEF Modified
    <2>8. QED
      BY <2>6, <2>7 DEF StatusReproduces
<1>2. QED
  BY <1>1, DiskInvariant, PTL

=============================================================================
