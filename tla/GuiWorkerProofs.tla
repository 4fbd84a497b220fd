--------------------------- MODULE GuiWorkerProofs ---------------------------
(***************************************************************************)
(* Proofs about the desktop client: its type invariant, the bound on the   *)
(* thumbnail workers, and that the screen shows what is open.              *)
(***************************************************************************)
EXTENDS GuiWorker, FiniteSetTheorems, TLAPS

Places == [search : BOOLEAN, dir : Folder \cup {Top}]

\* What a worker is asked, but for thumbnails.
OtherWork == {"status", "login", "vaults", "list", "search", "stats", "change", "delete", "get",
              "preview", "timeline"}

VaultJob == [what : OtherWork \ {"status", "login", "vaults"}, vault : GuiVault, at : Places]
ThumbJob == [what : {"thumb"}, vault : GuiVault, at : Cell]

GuiJob == VaultJob \cup ThumbJob \cup {StatusRequest, LoginRequest, VaultsRequest}

IsBag(b) == \A j \in DOMAIN b : b[j] \in Nat \ {0}

\* The jobs of a bag are accounted for: n is at least the number of workers of the
\* toolbar, m that of the workers that fetch a thumbnail.
Counted(b, n, m) ==
    /\ IsBag(b) /\ DOMAIN b \subseteq GuiJob
    /\ n \in Nat /\ IsFiniteSet(Workers(b, OtherWork)) /\ Cardinality(Workers(b, OtherWork)) <= n
    /\ m \in Nat /\ IsFiniteSet(Workers(b, {"thumb"})) /\ Cardinality(Workers(b, {"thumb"})) <= m

-----------------------------------------------------------------------------
(***************************************************************************)
(* Bags of jobs.                                                           *)
(***************************************************************************)
LEMMA WorkersAre ==
    ASSUME NEW b, NEW W, NEW x
    PROVE  x \in Workers(b, W) <=>
             \E j \in DOMAIN b : j.what \in W /\ \E k \in 1 .. b[j] : x = <<j, k>>
  BY DEF Workers

LEMMA OneMore ==
    ASSUME NEW b, IsBag(b), NEW j, NEW W, IsFiniteSet(Workers(b, W))
    PROVE  LET c == b (+) SetToBag({j}) IN
           /\ IsBag(c) /\ DOMAIN c = DOMAIN b \cup {j}
           /\ \A e \in DOMAIN b \ {j} : c[e] = b[e]
           /\ j \notin DOMAIN b => c[j] = 1
           /\ IsFiniteSet(Workers(c, W))
           /\ Cardinality(Workers(c, W)) = Cardinality(Workers(b, W)) + (IF j.what \in W THEN 1 ELSE 0)
<1>. DEFINE c == b (+) SetToBag({j})
            n == IF j \in DOMAIN b THEN b[j] ELSE 0
<1>1. /\ DOMAIN c = DOMAIN b \cup {j}
      /\ \A e \in DOMAIN b \ {j} : c[e] = b[e]
      /\ c[j] = n + 1 /\ n \in Nat
    <2>1. \A e \in DOMAIN b \ {j} : c[e] = b[e] + 0
      BY DEF (+), SetToBag
    <2>2. c[j] = n + 1
      BY DEF (+), SetToBag
    <2>3. DOMAIN c = DOMAIN b \cup {j}
      BY DEF (+), SetToBag
    <2>. HIDE DEF c
    <2>4. QED
      BY <2>1, <2>2, <2>3 DEF IsBag
<1>2. j \in DOMAIN b => n = b[j]
  OBVIOUS
<1>3. j \notin DOMAIN b => n = 0
  OBVIOUS
<1>. HIDE DEF c, n
<1>4. IsBag(c)
  BY <1>1 DEF IsBag
<1>5. CASE j.what \notin W
    <2>1. \A x : x \in Workers(c, W) <=> x \in Workers(b, W)
      BY <1>1, <1>5, WorkersAre
    <2>2. Workers(c, W) = Workers(b, W)
      BY <2>1
    <2>3. Cardinality(Workers(b, W)) \in Nat
      BY FS_CardinalityType
    <2>4. /\ IsFiniteSet(Workers(c, W))
          /\ Cardinality(Workers(c, W)) = Cardinality(Workers(b, W)) + (IF j.what \in W THEN 1 ELSE 0)
      BY <1>5, <2>2, <2>3
    <2>5. j \notin DOMAIN b => c[j] = 1
      BY <1>1, <1>3
    <2>6. QED
      BY <1>1, <1>4, <2>4, <2>5 DEF c
<1>6. CASE j.what \in W
    <2>1. 1 .. n + 1 = (1 .. n) \cup {n + 1} /\ n + 1 \notin 1 .. n
      BY <1>1
    <2>2. ASSUME NEW x PROVE x \in Workers(c, W) <=> x \in Workers(b, W) \cup {<<j, n + 1>>}
      <3>1. ASSUME NEW e, NEW k, x = <<e, k>>, e \in DOMAIN c, e.what \in W, k \in 1 .. c[e]
            PROVE  x \in Workers(b, W) \cup {<<j, n + 1>>}
        <4>1. CASE e = j
          <5>1. CASE k = n + 1
            BY <3>1, <4>1, <5>1
          <5>2. CASE k \in 1 .. n
            <6>1. j \in DOMAIN b
              BY <1>3, <5>2
            <6>2. QED
              BY <1>2, <3>1, <4>1, <5>2, <6>1, WorkersAre
          <5>3. QED
            BY <1>1, <2>1, <3>1, <4>1, <5>1, <5>2
        <4>2. CASE e # j
          BY <1>1, <3>1, <4>2, WorkersAre
        <4>3. QED
          BY <4>1, <4>2
      <3>2. ASSUME NEW e, NEW k, x = <<e, k>>, e \in DOMAIN b, e.what \in W, k \in 1 .. b[e]
            PROVE  x \in Workers(c, W)
        <4>1. CASE e = j
          <5>1. k \in 1 .. c[e] /\ e \in DOMAIN c
            BY <1>1, <1>2, <2>1, <3>2, <4>1
          <5>2. QED
            BY <3>2, <5>1, WorkersAre
        <4>2. CASE e # j
          BY <1>1, <3>2, <4>2, WorkersAre
        <4>3. QED
          BY <4>1, <4>2
      <3>3. <<j, n + 1>> \in Workers(c, W)
        <4>1. n + 1 \in 1 .. c[j] /\ j \in DOMAIN c
          BY <1>1
        <4>2. QED
          BY <1>6, <4>1, WorkersAre
      <3>4. QED
        BY <3>1, <3>2, <3>3, WorkersAre
    <2>3. Workers(c, W) = Workers(b, W) \cup {<<j, n + 1>>}
      BY <2>2
    <2>4. <<j, n + 1>> \notin Workers(b, W)
      <3>1. SUFFICES ASSUME <<j, n + 1>> \in Workers(b, W) PROVE FALSE
        OBVIOUS
      <3>2. j \in DOMAIN b /\ n + 1 \in 1 .. b[j]
        BY <3>1, WorkersAre
      <3>3. QED
        BY <1>2, <2>1, <3>2
    <2>5. /\ IsFiniteSet(Workers(c, W))
          /\ Cardinality(Workers(c, W)) = Cardinality(Workers(b, W)) + 1
      BY <2>3, <2>4, FS_AddElement
    <2>6. QED
      BY <1>1, <1>3, <1>4, <1>6, <2>5 DEF c
<1>7. QED
  BY <1>5, <1>6

LEMMA OneLess ==
    ASSUME NEW b, IsBag(b), NEW j \in DOMAIN b, NEW W, IsFiniteSet(Workers(b, W))
    PROVE  LET c == b (-) SetToBag({j}) IN
           /\ IsBag(c) /\ DOMAIN c \subseteq DOMAIN b /\ DOMAIN b \ {j} \subseteq DOMAIN c
           /\ j \in DOMAIN c <=> b[j] # 1
           /\ \A e \in DOMAIN c \ {j} : c[e] = b[e]
           /\ IsFiniteSet(Workers(c, W))
           /\ IF j.what \in W
              THEN Cardinality(Workers(b, W)) >= 1 /\ Cardinality(Workers(c, W)) = Cardinality(Workers(b, W)) - 1
              ELSE Cardinality(Workers(c, W)) = Cardinality(Workers(b, W))
<1>. DEFINE c == b (-) SetToBag({j})
            n == b[j]
<1>1. /\ \A e : e \in DOMAIN c <=> e \in DOMAIN b /\ (e = j => n - 1 > 0)
      /\ \A e \in DOMAIN c : c[e] = IF e = j THEN n - 1 ELSE b[e]
      /\ n \in Nat \ {0}
  BY DEF (-), SetToBag, IsBag
<1>. HIDE DEF c
<1>2. /\ DOMAIN c \subseteq DOMAIN b /\ DOMAIN b \ {j} \subseteq DOMAIN c
      /\ j \in DOMAIN c <=> n # 1
      /\ \A e \in DOMAIN c \ {j} : c[e] = b[e]
      /\ j \in DOMAIN c => c[j] = n - 1
      /\ IsBag(c)
  BY <1>1 DEF IsBag
<1>3. Cardinality(Workers(b, W)) \in Nat
  BY FS_CardinalityType
<1>4. CASE j.what \notin W
    <2>1. \A x : x \in Workers(c, W) <=> x \in Workers(b, W)
      BY <1>2, <1>4, WorkersAre
    <2>2. Workers(c, W) = Workers(b, W)
      BY <2>1
    <2>3. QED
      BY <1>2, <1>4, <2>2 DEF c
<1>5. CASE j.what \in W
    <2>1. 1 .. n = (1 .. n - 1) \cup {n} /\ n \notin 1 .. n - 1 /\ n \in 1 .. n
      BY <1>1
    <2>2. ASSUME NEW x PROVE x \in Workers(c, W) <=> x \in Workers(b, W) \ {<<j, n>>}
      <3>1. ASSUME NEW e, NEW k, x = <<e, k>>, e \in DOMAIN c, e.what \in W, k \in 1 .. c[e]
            PROVE  x \in Workers(b, W) \ {<<j, n>>}
        <4>1. CASE e = j
          <5>1. k \in 1 .. n /\ k # n
            BY <1>2, <2>1, <3>1, <4>1
          <5>2. QED
            BY <3>1, <4>1, <5>1, WorkersAre
        <4>2. CASE e # j
          <5>1. x \in Workers(b, W)
            BY <1>2, <3>1, <4>2, WorkersAre
          <5>2. QED
            BY <3>1, <4>2, <5>1
        <4>3. QED
          BY <4>1, <4>2
      <3>2. ASSUME NEW e, NEW k, x = <<e, k>>, x # <<j, n>>, e \in DOMAIN b, e.what \in W, k \in 1 .. b[e]
            PROVE  x \in Workers(c, W)
        <4>1. CASE e = j
          <5>1. k \in 1 .. n - 1
            BY <2>1, <3>2, <4>1
          <5>2. n # 1
            BY <5>1
          <5>3. QED
            BY <1>2, <3>2, <4>1, <5>1, <5>2, WorkersAre
        <4>2. CASE e # j
          BY <1>2, <3>2, <4>2, WorkersAre
        <4>3. QED
          BY <4>1, <4>2
      <3>3. QED
        BY <3>1, <3>2, WorkersAre
    <2>3. Workers(c, W) = Workers(b, W) \ {<<j, n>>}
      BY <2>2
    <2>4. <<j, n>> \in Workers(b, W)
      BY <1>5, <2>1, WorkersAre
    <2>5. /\ IsFiniteSet(Workers(c, W))
          /\ Cardinality(Workers(c, W)) = Cardinality(Workers(b, W)) - 1
      BY <2>3, <2>4, FS_RemoveElement
    <2>6. Cardinality(Workers(c, W)) \in Nat
      BY <2>5, FS_CardinalityType
    <2>7. Cardinality(Workers(b, W)) >= 1
      BY <1>3, <2>5, <2>6
    <2>8. QED
      BY <1>2, <1>5, <2>5, <2>7 DEF c, n
<1>6. QED
  BY <1>4, <1>5

LEMMA JobsAre ==
    /\ \A j \in VaultJob : j.what \in OtherWork /\ j.what \notin {"status", "login", "vaults", "thumb"}
    /\ \A j \in ThumbJob : j.what = "thumb" /\ j.at \in Cell
    /\ \A j \in VaultJob \cup ThumbJob : j.vault \in GuiVault /\ j \notin {StatusRequest, LoginRequest, VaultsRequest}
    /\ StatusRequest.what = "status" /\ LoginRequest.what = "login" /\ VaultsRequest.what = "vaults"
    /\ \A j \in GuiJob : j.what \in OtherWork \cup {"thumb"}
    /\ "thumb" \notin OtherWork
<1>1. /\ \A j \in VaultJob : j.what \in OtherWork /\ j.what \notin {"status", "login", "vaults", "thumb"}
      /\ "thumb" \notin OtherWork
  BY DEF VaultJob, OtherWork
<1>2. \A j \in ThumbJob : j.what = "thumb" /\ j.at \in Cell
  BY DEF ThumbJob
<1>3. StatusRequest.what = "status" /\ LoginRequest.what = "login" /\ VaultsRequest.what = "vaults"
  BY DEF StatusRequest, LoginRequest, VaultsRequest, Job
<1>4. \A j \in VaultJob \cup ThumbJob : j.vault \in GuiVault
  BY DEF VaultJob, ThumbJob
<1>5. \A j \in VaultJob \cup ThumbJob : j \notin {StatusRequest, LoginRequest, VaultsRequest}
  BY <1>1, <1>2, <1>3
<1>6. \A j \in GuiJob : j.what \in OtherWork \cup {"thumb"}
  BY <1>1, <1>2, <1>3 DEF GuiJob, OtherWork
<1>7. QED
  BY <1>1, <1>2, <1>3, <1>4, <1>5, <1>6

LEMMA CountMore ==
    ASSUME NEW b, NEW n, NEW m, Counted(b, n, m), NEW j \in GuiJob
    PROVE  LET c == b (+) SetToBag({j}) IN
           /\ IF j.what = "thumb" THEN Counted(c, n, m + 1) ELSE Counted(c, n + 1, m)
           /\ DOMAIN c = DOMAIN b \cup {j}
           /\ \A e \in DOMAIN b \ {j} : c[e] = b[e]
           /\ j \notin DOMAIN b => c[j] = 1
<1>. DEFINE c == b (+) SetToBag({j})
            one(W) == IF j.what \in W THEN 1 ELSE 0
<1>1. ASSUME NEW W, IsFiniteSet(Workers(b, W))
      PROVE  /\ IsBag(c) /\ DOMAIN c = DOMAIN b \cup {j}
             /\ \A e \in DOMAIN b \ {j} : c[e] = b[e]
             /\ j \notin DOMAIN b => c[j] = 1
             /\ IsFiniteSet(Workers(c, W)) /\ Cardinality(Workers(c, W)) = Cardinality(Workers(b, W)) + one(W)
             /\ Cardinality(Workers(b, W)) \in Nat
    <2>1. IsBag(b)
      BY DEF Counted
    <2>2. Cardinality(Workers(b, W)) \in Nat
      BY <1>1, FS_CardinalityType
    <2>3. IsBag(c) /\ DOMAIN c = DOMAIN b \cup {j}
      BY <1>1, <2>1, OneMore
    <2>4. (\A e \in DOMAIN b \ {j} : c[e] = b[e]) /\ (j \notin DOMAIN b => c[j] = 1)
      BY <1>1, <2>1, OneMore
    <2>5. IsFiniteSet(Workers(c, W))
      BY <1>1, <2>1, OneMore
    <2>6. Cardinality(Workers(c, W)) = Cardinality(Workers(b, W)) + one(W)
      BY <1>1, <2>1, OneMore
    <2>7. QED
      BY <2>2, <2>3, <2>4, <2>5, <2>6
<1>. HIDE DEF c
<1>2. IF j.what = "thumb" THEN one({"thumb"}) = 1 /\ one(OtherWork) = 0
      ELSE one({"thumb"}) = 0 /\ one(OtherWork) = 1
  BY JobsAre
<1>. HIDE DEF one
<1>3. IF j.what = "thumb" THEN Counted(c, n, m + 1) ELSE Counted(c, n + 1, m)
  BY <1>1, <1>2 DEF Counted
<1>4. QED
    <2>1. IsFiniteSet(Workers(b, OtherWork))
      BY DEF Counted
    <2>2. QED
      BY <1>1, <1>3, <2>1 DEF c

LEMMA CountLess ==
    ASSUME NEW b, NEW n, NEW m, Counted(b, n, m), NEW j \in DOMAIN b
    PROVE  LET c == b (-) SetToBag({j}) IN
           /\ Counted(c, n, m)
           /\ IF j.what = "thumb" THEN m >= 1 /\ Counted(c, n, m - 1) ELSE n >= 1 /\ Counted(c, n - 1, m)
           /\ DOMAIN c \subseteq DOMAIN b /\ DOMAIN b \ {j} \subseteq DOMAIN c
           /\ j \in DOMAIN c <=> b[j] # 1
           /\ \A e \in DOMAIN c \ {j} : c[e] = b[e]
<1>. DEFINE c == b (-) SetToBag({j})
<1>1. ASSUME NEW W, IsFiniteSet(Workers(b, W))
      PROVE  /\ IsBag(c) /\ DOMAIN c \subseteq DOMAIN b /\ DOMAIN b \ {j} \subseteq DOMAIN c
             /\ j \in DOMAIN c <=> b[j] # 1
             /\ \A e \in DOMAIN c \ {j} : c[e] = b[e]
             /\ IsFiniteSet(Workers(c, W))
             /\ IF j.what \in W
                THEN /\ Cardinality(Workers(b, W)) >= 1
                     /\ Cardinality(Workers(c, W)) = Cardinality(Workers(b, W)) - 1
                ELSE Cardinality(Workers(c, W)) = Cardinality(Workers(b, W))
             /\ Cardinality(Workers(b, W)) \in Nat
    <2>1. IsBag(b)
      BY DEF Counted
    <2>2. Cardinality(Workers(b, W)) \in Nat
      BY <1>1, FS_CardinalityType
    <2>3. /\ IsBag(c) /\ DOMAIN c \subseteq DOMAIN b /\ DOMAIN b \ {j} \subseteq DOMAIN c
          /\ j \in DOMAIN c <=> b[j] # 1
      BY <1>1, <2>1, OneLess
    <2>4. \A e \in DOMAIN c \ {j} : c[e] = b[e]
      BY <1>1, <2>1, OneLess
    <2>5. IsFiniteSet(Workers(c, W))
      BY <1>1, <2>1, OneLess
    <2>6. IF j.what \in W
          THEN /\ Cardinality(Workers(b, W)) >= 1
               /\ Cardinality(Workers(c, W)) = Cardinality(Workers(b, W)) - 1
          ELSE Cardinality(Workers(c, W)) = Cardinality(Workers(b, W))
      BY <1>1, <2>1, OneLess
    <2>7. QED
      BY <2>2, <2>3, <2>4, <2>5, <2>6
<1>. HIDE DEF c
<1>2. IF j.what = "thumb" THEN j.what \notin OtherWork ELSE j.what \in OtherWork
  BY JobsAre DEF Counted
<1>3. /\ Counted(c, n, m)
      /\ IF j.what = "thumb" THEN m >= 1 /\ Counted(c, n, m - 1) ELSE n >= 1 /\ Counted(c, n - 1, m)
    <2>1. CASE j.what = "thumb"
      BY <1>1, <1>2, <2>1 DEF Counted
    <2>2. CASE j.what # "thumb"
      BY <1>1, <1>2, <2>2 DEF Counted
    <2>3. QED
      BY <2>1, <2>2
<1>4. QED
    <2>1. IsFiniteSet(Workers(b, OtherWork))
      BY DEF Counted
    <2>2. QED
      BY <1>1, <1>3, <2>1 DEF c

\* The listing that is asked for, of any place, is of its directory.
LEMMA ListRequestIs ==
    ASSUME NEW v, NEW o \in Places
    PROVE  ListRequest(v, o) = Job("list", v, [search |-> FALSE, dir |-> o.dir])
<1>. DEFINE r == [o EXCEPT !.search = FALSE]
<1>1. r \in Places /\ r.search = FALSE /\ r.dir = o.dir
  BY DEF Places
<1>. HIDE DEF r
<1>2. r = [search |-> FALSE, dir |-> o.dir]
  BY <1>1 DEF Places
<1>3. [o EXCEPT !.search = FALSE] = r
  BY DEF r
<1>4. QED
  BY <1>2, <1>3 DEF ListRequest

\* A refresh starts two workers.
LEMMA CountRefresh ==
    ASSUME NEW b, NEW n, NEW m, Counted(b, n, m), NEW v \in GuiVault, NEW o \in Places
    PROVE  LET c == b (+) SetToBag(RefreshJobs(v, o)) IN
           /\ Counted(c, n + 2, m)
           /\ DOMAIN c = DOMAIN b \cup {ListRequest(v, o), StatsRequest(v)}
           /\ ListRequest(v, o) \in VaultJob /\ StatsRequest(v) \in VaultJob
           /\ ListRequest(v, o) = Job("list", v, [search |-> FALSE, dir |-> o.dir])
           /\ \A e \in DOMAIN b \ VaultJob : c[e] = b[e]
<1>. DEFINE one == ListRequest(v, o)
            two == StatsRequest(v)
            d == b (+) SetToBag({one})
            c == b (+) SetToBag(RefreshJobs(v, o))
<1>1. /\ one \in VaultJob /\ one.what = "list" /\ two \in VaultJob /\ two.what = "stats"
      /\ one = Job("list", v, [search |-> FALSE, dir |-> o.dir])
    <2>1. [search |-> FALSE, dir |-> o.dir] \in Places /\ AtTop \in Places
      BY DEF Places, AtTop
    <2>2. \A p \in Places : Job("list", v, p) \in VaultJob /\ Job("stats", v, p) \in VaultJob
      BY DEF Job, VaultJob, OtherWork
    <2>3. one = Job("list", v, [search |-> FALSE, dir |-> o.dir]) /\ two = Job("stats", v, AtTop)
      BY ListRequestIs DEF StatsRequest
    <2>. HIDE DEF one, two
    <2>4. one.what = "list" /\ two.what = "stats"
      BY <2>3 DEF Job
    <2>5. QED
      BY <2>1, <2>2, <2>3, <2>4
<1>2. RefreshJobs(v, o) = {one, two} /\ one # two
  BY <1>1 DEF RefreshJobs
<1>. HIDE DEF one, two
<1>3. c = d (+) SetToBag({two})
    <2>1. /\ c = [e \in DOMAIN c |-> c[e]]
          /\ DOMAIN c = DOMAIN b \cup {one, two}
          /\ \A e \in DOMAIN b \cup {one, two} :
                c[e] = (IF e \in DOMAIN b THEN b[e] ELSE 0) + (IF e \in {one, two} THEN 1 ELSE 0)
      BY <1>2 DEF (+), SetToBag
    <2>2. /\ DOMAIN d = DOMAIN b \cup {one}
          /\ \A e \in DOMAIN b \cup {one} :
                d[e] = (IF e \in DOMAIN b THEN b[e] ELSE 0) + (IF e = one THEN 1 ELSE 0)
      BY DEF (+), SetToBag
    <2>. DEFINE f == d (+) SetToBag({two})
    <2>. HIDE DEF c, d
    <2>3. /\ f = [e \in DOMAIN f |-> f[e]]
          /\ DOMAIN f = DOMAIN d \cup {two}
          /\ \A e \in DOMAIN d \cup {two} :
                f[e] = (IF e \in DOMAIN d THEN d[e] ELSE 0) + (IF e = two THEN 1 ELSE 0)
      BY DEF (+), SetToBag
    <2>. HIDE DEF f
    <2>4. \A e \in DOMAIN b : b[e] \in Nat
      BY DEF Counted, IsBag
    <2>5. ASSUME NEW e \in DOMAIN b \cup {one, two} PROVE c[e] = f[e]
      <3>1. CASE e = one
        BY <1>2, <2>1, <2>2, <2>3, <2>4, <3>1
      <3>2. CASE e = two
        BY <1>2, <2>1, <2>2, <2>3, <2>4, <3>2
      <3>3. CASE e \in DOMAIN b \ {one, two}
        BY <2>1, <2>2, <2>3, <2>4, <3>3
      <3>4. QED
        BY <3>1, <3>2, <3>3
    <2>6. DOMAIN c = DOMAIN f
      BY <2>1, <2>2, <2>3
    <2>7. QED
      BY <2>1, <2>3, <2>5, <2>6 DEF f
<1>4. /\ Counted(d, n + 1, m) /\ DOMAIN d = DOMAIN b \cup {one}
      /\ \A e \in DOMAIN b \ {one} : d[e] = b[e]
    <2>1. one \in GuiJob /\ one.what # "thumb"
      BY <1>1 DEF GuiJob
    <2>2. QED
      BY <2>1, CountMore
<1>. HIDE DEF d
<1>5. /\ Counted(d (+) SetToBag({two}), n + 1 + 1, m)
      /\ DOMAIN (d (+) SetToBag({two})) = DOMAIN d \cup {two}
      /\ \A e \in DOMAIN d \ {two} : (d (+) SetToBag({two}))[e] = d[e]
  BY <1>1, <1>4, CountMore DEF GuiJob
<1>. HIDE DEF c
<1>6. n + 1 + 1 = n + 2
  BY DEF Counted
<1>7. /\ Counted(c, n + 2, m) /\ DOMAIN c = DOMAIN b \cup {one, two}
      /\ \A e \in DOMAIN b \ VaultJob : c[e] = b[e]
  BY <1>1, <1>3, <1>4, <1>5, <1>6
<1>8. QED
  BY <1>1, <1>7 DEF c, one, two

\* No worker of the toolbar is at work when busy is zero.
LEMMA IdleToolbar ==
    ASSUME NEW b, NEW m, Counted(b, 0, m), NEW j \in DOMAIN b
    PROVE  j.what = "thumb"
<1>1. SUFFICES ASSUME j.what \in OtherWork PROVE FALSE
  BY JobsAre DEF Counted
<1>2. IsFiniteSet(Workers(b, OtherWork)) /\ Cardinality(Workers(b, OtherWork)) <= 0
  BY DEF Counted
<1>3. Workers(b, OtherWork) = {}
  BY <1>2, FS_CardinalityType, FS_EmptySet
<1>4. 1 \in 1 .. b[j]
  BY DEF Counted, IsBag
<1>5. <<j, 1>> \in Workers(b, OtherWork)
  BY <1>1, <1>4, WorkersAre
<1>6. QED
  BY <1>3, <1>5

-----------------------------------------------------------------------------
(***************************************************************************)
(* Types, and the workers that are counted.                                *)
(***************************************************************************)
ScreenTypes ==
    /\ {signedIn, totpAsked, overtaken, died} \subseteq BOOLEAN
    /\ {gvault, photos, preview, armed} \subseteq Picked
    /\ open \in Places
    /\ shown \subseteq [vault : GuiVault, search : BOOLEAN, dir : Folder \cup {Top}]
    /\ thumbs \subseteq [vault : GuiVault, cell : Cell] /\ thumbPending \cup thumbFailed \subseteq Cell
    /\ clicks \in 0 .. MaxClicks

\* At most one sign-in is at work, and none once signed in.
SignInOnce(b) == LoginRequest \in DOMAIN b => ~signedIn /\ b[LoginRequest] = 1

JobsInv ==
    /\ Counted(jobs, busy, thumbJobs) /\ thumbJobs <= MAX_THUMB_JOBS
    /\ SignInOnce(jobs)

LEMMA JobKind ==
    ASSUME NEW j \in GuiJob
    PROVE  /\ j.what = "thumb" => j.vault \in GuiVault /\ j.at \in Cell
           /\ j.what \in OtherWork \ {"status", "login", "vaults"} => j.vault \in GuiVault /\ j.at \in Places
           /\ j.what = "login" => j = LoginRequest
<1>1. j.what = "thumb" => j \in ThumbJob
  BY JobsAre DEF GuiJob
<1>2. j.what \in OtherWork \ {"status", "login", "vaults"} => j \in VaultJob
  BY JobsAre DEF GuiJob
<1>3. j.what = "login" => j = LoginRequest
  BY JobsAre DEF GuiJob
<1>4. QED
  BY <1>1, <1>2, <1>3 DEF ThumbJob, VaultJob

\* What clicks ask for is a job.
LEMMA RequestsAre ==
    ASSUME ScreenTypes, NEW v \in GuiVault
    PROVE  /\ {SearchRequest(v), StatsRequest(v), ChangeRequest(v), DeleteRequest(v), DownloadRequest(v),
               PreviewRequest(v), TimelineRequest(v)} \subseteq VaultJob
           /\ \A o \in Places : ListRequest(v, o) \in VaultJob
           /\ \A c \in Cell : ThumbRequest(v, c) \in ThumbJob
           /\ AtTop \in Places
<1>1. AtTop \in Places
  BY DEF AtTop, Places
<1>2. \A o \in Places : [o EXCEPT !.search = FALSE] \in Places /\ [o EXCEPT !.search = TRUE] \in Places
  BY DEF Places
<1>3. \A w \in OtherWork \ {"status", "login", "vaults"}, p \in Places : Job(w, v, p) \in VaultJob
  BY DEF Job, VaultJob
<1>4. \A c \in Cell : ThumbRequest(v, c) \in ThumbJob
  BY DEF ThumbRequest, Job, ThumbJob
<1>5. [open EXCEPT !.search = TRUE] \in Places
  BY <1>2 DEF ScreenTypes
<1>6. {"list", "search", "stats", "change", "delete", "get", "preview", "timeline"}
            \subseteq OtherWork \ {"status", "login", "vaults"}
  BY DEF OtherWork
<1>7. SearchRequest(v) \in VaultJob
  BY <1>3, <1>5, <1>6 DEF SearchRequest
<1>8. /\ StatsRequest(v) \in VaultJob /\ ChangeRequest(v) \in VaultJob /\ DeleteRequest(v) \in VaultJob
      /\ DownloadRequest(v) \in VaultJob /\ PreviewRequest(v) \in VaultJob /\ TimelineRequest(v) \in VaultJob
  BY <1>1, <1>3, <1>6 DEF StatsRequest, ChangeRequest, DeleteRequest, DownloadRequest, PreviewRequest, TimelineRequest
<1>9. \A o \in Places : ListRequest(v, o) \in VaultJob
  BY <1>2, <1>3, <1>6 DEF ListRequest
<1>10. QED
  BY <1>1, <1>4, <1>7, <1>8, <1>9

LEMMA SpawnsOne ==
    ASSUME JobsInv, UNCHANGED signedIn, NEW j \in VaultJob \cup {StatusRequest, VaultsRequest}, SpawnOne(j)
    PROVE  JobsInv' /\ DOMAIN jobs' = DOMAIN jobs \cup {j}
<1>1. j \in GuiJob /\ j.what # "thumb" /\ j # LoginRequest
  BY JobsAre DEF GuiJob
<1>2. jobs' = jobs (+) SetToBag({j}) /\ busy' = busy + 1 /\ thumbJobs' = thumbJobs
  BY FS_Singleton DEF SpawnOne, Spawn
<1>3. /\ Counted(jobs (+) SetToBag({j}), busy + 1, thumbJobs)
      /\ DOMAIN (jobs (+) SetToBag({j})) = DOMAIN jobs \cup {j}
      /\ \A e \in DOMAIN jobs \ {j} : (jobs (+) SetToBag({j}))[e] = jobs[e]
  BY <1>1, CountMore DEF JobsInv
<1>4. Counted(jobs, busy, thumbJobs)' /\ (thumbJobs <= MAX_THUMB_JOBS)'
  BY <1>2, <1>3 DEF JobsInv
<1>5. SignInOnce(jobs)'
  BY <1>1, <1>2, <1>3 DEF JobsInv, SignInOnce
<1>6. QED
  BY <1>2, <1>3, <1>4, <1>5 DEF JobsInv

LEMMA TakesOne ==
    ASSUME JobsInv, NEW j \in DOMAIN jobs
    PROVE  /\ j \in GuiJob
           /\ Counted(Left(j), busy, thumbJobs)
           /\ IF j.what = "thumb" THEN thumbJobs >= 1 /\ Counted(Left(j), busy - TakenOff(j), thumbJobs - 1)
              ELSE Counted(Left(j), busy - TakenOff(j), thumbJobs)
           /\ DOMAIN Left(j) \subseteq DOMAIN jobs /\ DOMAIN jobs \ {j} \subseteq DOMAIN Left(j)
           /\ LoginRequest \in DOMAIN Left(j) =>
                j # LoginRequest /\ LoginRequest \in DOMAIN jobs /\ Left(j)[LoginRequest] = 1
<1>1. Counted(jobs, busy, thumbJobs)
  BY DEF JobsInv
<1>2. /\ Counted(Left(j), busy, thumbJobs)
      /\ IF j.what = "thumb" THEN thumbJobs >= 1 /\ Counted(Left(j), busy, thumbJobs - 1)
         ELSE busy >= 1 /\ Counted(Left(j), busy - 1, thumbJobs)
      /\ DOMAIN Left(j) \subseteq DOMAIN jobs /\ DOMAIN jobs \ {j} \subseteq DOMAIN Left(j)
      /\ j \in DOMAIN Left(j) <=> jobs[j] # 1
      /\ \A e \in DOMAIN Left(j) \ {j} : Left(j)[e] = jobs[e]
    <2>. DEFINE c == jobs (-) SetToBag({j})
    <2>1. /\ Counted(c, busy, thumbJobs)
          /\ IF j.what = "thumb" THEN thumbJobs >= 1 /\ Counted(c, busy, thumbJobs - 1)
             ELSE busy >= 1 /\ Counted(c, busy - 1, thumbJobs)
      BY <1>1, CountLess
    <2>2. /\ DOMAIN c \subseteq DOMAIN jobs /\ DOMAIN jobs \ {j} \subseteq DOMAIN c
          /\ j \in DOMAIN c <=> jobs[j] # 1
          /\ \A e \in DOMAIN c \ {j} : c[e] = jobs[e]
      BY <1>1, CountLess
    <2>3. Left(j) = c
      BY DEF Left
    <2>. HIDE DEF c
    <2>4. QED
      BY <2>1, <2>2, <2>3
<1>3. busy \in Nat /\ j \in GuiJob
  BY <1>1 DEF Counted
<1>4. IF j.what = "thumb" THEN busy - TakenOff(j) = busy ELSE busy - TakenOff(j) = busy - 1
  BY <1>3 DEF TakenOff
<1>5. LoginRequest \in DOMAIN jobs => jobs[LoginRequest] = 1
  BY DEF JobsInv, SignInOnce
<1>6. QED
  BY <1>2, <1>3, <1>4, <1>5

\* An event that starts nothing.
LEMMA AppliesOne ==
    ASSUME JobsInv, NEW j \in DOMAIN jobs, Applied(j),
           thumbJobs' = IF j.what = "thumb" THEN thumbJobs - 1 ELSE thumbJobs,
           j.what = "login" \/ UNCHANGED signedIn
    PROVE  JobsInv'
<1>1. jobs' = Left(j) /\ busy' = busy - TakenOff(j)
  BY DEF Applied
<1>2. /\ Counted(jobs', busy', thumbJobs')
      /\ DOMAIN jobs' \subseteq DOMAIN jobs
      /\ LoginRequest \in DOMAIN jobs' => j # LoginRequest /\ LoginRequest \in DOMAIN jobs /\ jobs'[LoginRequest] = 1
  BY <1>1, TakesOne
<1>3. thumbJobs' <= MAX_THUMB_JOBS
  BY GuiAssumption DEF JobsInv, Counted
<1>4. j.what = "login" => j = LoginRequest
  BY TakesOne, JobKind
<1>5. SignInOnce(jobs)'
  BY <1>2, <1>4 DEF JobsInv, SignInOnce
<1>6. QED
  BY <1>2, <1>3, <1>5 DEF JobsInv

\* An event after which the directory is listed anew.
LEMMA RefreshesAfter ==
    ASSUME JobsInv, NEW j \in DOMAIN jobs, j.what # "thumb", NEW v \in GuiVault, NEW o \in Places,
           jobs' = Left(j) (+) SetToBag(RefreshJobs(v, o)), busy' = busy - TakenOff(j) + 2,
           UNCHANGED thumbJobs, j.what = "login" \/ UNCHANGED signedIn
    PROVE  /\ JobsInv'
           /\ DOMAIN jobs' = DOMAIN Left(j) \cup {ListRequest(v, o), StatsRequest(v)}
<1>1. /\ Counted(Left(j), busy - TakenOff(j), thumbJobs)
      /\ LoginRequest \in DOMAIN Left(j) =>
                j # LoginRequest /\ LoginRequest \in DOMAIN jobs /\ Left(j)[LoginRequest] = 1
      /\ j.what = "login" => j = LoginRequest
  BY TakesOne, JobKind
<1>2. /\ Counted(jobs', busy', thumbJobs)
      /\ DOMAIN jobs' = DOMAIN Left(j) \cup {ListRequest(v, o), StatsRequest(v)}
      /\ ListRequest(v, o) \in VaultJob /\ StatsRequest(v) \in VaultJob
      /\ \A e \in DOMAIN Left(j) \ VaultJob : jobs'[e] = Left(j)[e]
    <2>. DEFINE b == Left(j)
                c == b (+) SetToBag(RefreshJobs(v, o))
    <2>1. Counted(b, busy - TakenOff(j), thumbJobs)
      BY <1>1
    <2>. HIDE DEF b
    <2>2. /\ Counted(c, busy - TakenOff(j) + 2, thumbJobs)
          /\ DOMAIN c = DOMAIN b \cup {ListRequest(v, o), StatsRequest(v)}
          /\ ListRequest(v, o) \in VaultJob /\ StatsRequest(v) \in VaultJob
          /\ \A e \in DOMAIN b \ VaultJob : c[e] = b[e]
      BY <2>1, CountRefresh
    <2>3. jobs' = c
      BY DEF b
    <2>. HIDE DEF c
    <2>4. QED
      BY <2>2, <2>3 DEF b
<1>3. LoginRequest \notin VaultJob
  BY JobsAre
<1>4. LoginRequest \in DOMAIN jobs' => LoginRequest \in DOMAIN Left(j) /\ jobs'[LoginRequest] = Left(j)[LoginRequest]
  BY <1>2, <1>3
<1>5. SignInOnce(jobs)'
  BY <1>1, <1>4 DEF JobsInv, SignInOnce
<1>6. QED
  BY <1>2, <1>5 DEF JobsInv

LEMMA GuiStarts == GuiInit => ScreenTypes /\ JobsInv
<1>1. SUFFICES ASSUME GuiInit PROVE ScreenTypes /\ JobsInv
  OBVIOUS
<1>2. ScreenTypes
    <2>1. AtTop \in Places /\ 0 \in 0 .. MaxClicks /\ NoPick \in Picked
      BY GuiAssumption DEF AtTop, Places, Picked
    <2>2. {signedIn, totpAsked, overtaken, died} \subseteq BOOLEAN
      BY <1>1 DEF GuiInit
    <2>3. QED
      BY <1>1, <2>1, <2>2 DEF GuiInit, ScreenTypes
<1>3. DOMAIN jobs = {}
  BY <1>1 DEF GuiInit, EmptyBag, SetToBag
<1>4. \A W : Workers(jobs, W) = {}
  BY <1>3 DEF Workers
<1>5. Counted(jobs, 0, 0)
  BY <1>3, <1>4, FS_EmptySet DEF Counted, IsBag
<1>6. JobsInv
  BY <1>1, <1>3, <1>5, GuiAssumption DEF GuiInit, JobsInv, SignInOnce
<1>7. QED
  BY <1>2, <1>6

LEMMA ScreenKept == ScreenTypes /\ JobsInv /\ [GuiNext]_guiVars => ScreenTypes'
<1>1. SUFFICES ASSUME ScreenTypes, JobsInv, [GuiNext]_guiVars PROVE ScreenTypes'
  OBVIOUS
<1>2. /\ MaxClicks \in Nat /\ NoPick \in Picked /\ AtTop \in Places
      /\ GuiVault \subseteq Picked
  BY GuiAssumption DEF Picked, AtTop, Places
<1>3. Click => clicks' \in 0 .. MaxClicks
  BY <1>1, <1>2 DEF Click, ScreenTypes
<1>4. InVault => gvault \in GuiVault
  BY <1>1 DEF InVault, ScreenTypes, Picked
<1>5. \A a, b : (a \/ b) \in BOOLEAN
  OBVIOUS
<1>6. CASE CheckStatus
  BY <1>1, <1>3, <1>6 DEF CheckStatus, SpawnOne, Spawn, sessionVars, screenVars, ScreenTypes
<1>7. CASE SignIn
  BY <1>1, <1>3, <1>7 DEF SignIn, SpawnOne, Spawn, sessionVars, screenVars, ScreenTypes
<1>8. CASE CreateVault
  BY <1>1, <1>3, <1>8 DEF CreateVault, SpawnOne, Spawn, sessionVars, screenVars, ScreenTypes
<1>9. CASE Change
  BY <1>1, <1>3, <1>9 DEF Change, SpawnOne, Spawn, sessionVars, screenVars, ScreenTypes
<1>10. CASE Download
  BY <1>1, <1>3, <1>10 DEF Download, SpawnOne, Spawn, sessionVars, screenVars, ScreenTypes
<1>11. CASE ConfirmDelete
  BY <1>1, <1>3, <1>11 DEF ConfirmDelete, SpawnOne, Spawn, sessionVars, screenVars, ScreenTypes
<1>12. CASE OpenPhotos
  BY <1>1, <1>3, <1>12 DEF OpenPhotos, SpawnOne, Spawn, sessionVars, screenVars, ScreenTypes
<1>13. CASE OpenPreview
  BY <1>1, <1>3, <1>13 DEF OpenPreview, SpawnOne, Spawn, sessionVars, screenVars, ScreenTypes
<1>14. CASE Refresh
  BY <1>1, <1>3, <1>14 DEF Refresh, Spawn, sessionVars, screenVars, ScreenTypes
<1>15. CASE Logout
  BY <1>1, <1>2, <1>3, <1>5, <1>15 DEF Logout, Wiped, ScreenTypes
<1>16. CASE PickVault
  BY <1>1, <1>2, <1>3, <1>5, <1>16 DEF PickVault, Pick, Wiped, ScreenTypes
<1>17. CASE OpenDir
    <2>1. open' \in Places /\ armed' \in Picked /\ overtaken' \in BOOLEAN
      BY <1>2, <1>17 DEF OpenDir, Openable, Places
    <2>2. QED
      BY <1>1, <1>3, <2>1, <1>17 DEF OpenDir, SpawnOne, Spawn, screenVars, ScreenTypes
<1>18. CASE DoSearch
    <2>1. open' \in Places
      BY <1>1, <1>18 DEF DoSearch, ScreenTypes, Places
    <2>2. overtaken' \in BOOLEAN
      BY <1>18 DEF DoSearch
    <2>3. QED
      BY <1>1, <1>3, <2>1, <2>2, <1>18 DEF DoSearch, SpawnOne, Spawn, screenVars, ScreenTypes
<1>19. CASE ArmDelete
  BY <1>1, <1>3, <1>19 DEF ArmDelete, screenVars, ScreenTypes
<1>20. CASE Disarm
  BY <1>1, <1>2, <1>20 DEF Disarm, screenVars, ScreenTypes
<1>21. CASE RequestThumb
  BY <1>1, <1>21 DEF RequestThumb, sessionVars, ScreenTypes
<1>22. CASE ClosePreview
  BY <1>1, <1>2, <1>22 DEF ClosePreview, sessionVars, ScreenTypes
<1>23. ASSUME NEW j \in DOMAIN jobs
      PROVE  /\ j.what = "thumb" => j.vault \in GuiVault /\ j.at \in Cell
             /\ j.what \in {"list", "search", "timeline", "preview"} => j.vault \in GuiVault /\ j.at \in Places
  BY <1>1, TakesOne, JobKind DEF OtherWork
<1>24. CASE Poll
    <2>1. PICK j \in DOMAIN jobs :
            \/ LoggedIn(j) \/ TotpRequired(j) \/ VaultsListed(j) \/ Listed(j) \/ ChangeDone(j)
            \/ TimelineCame(j) \/ ThumbCame(j) \/ PreviewCame(j) \/ Noted(j)
      BY <1>24 DEF Poll
    <2>2. CASE LoggedIn(j)
      <3>1. signedIn' \in BOOLEAN /\ totpAsked' = totpAsked
        BY <2>2 DEF LoggedIn
      <3>2. PICK v \in GuiVault \cup {NoPick} :
              IF v = NoPick
              THEN gvault' = NoPick /\ Applied(j) /\ UNCHANGED <<open, armed, screenVars, thumbJobs, overtaken>>
              ELSE Pick(v, Left(j)) /\ UNCHANGED clicks
        BY <2>2 DEF LoggedIn
      <3>3. QED
        BY <1>1, <1>2, <1>5, <3>1, <3>2 DEF Applied, Pick, Wiped, screenVars, ScreenTypes
    <2>3. CASE TotpRequired(j)
      BY <1>1, <2>3 DEF TotpRequired, Applied, screenVars, ScreenTypes
    <2>4. CASE VaultsListed(j)
      <3>1. PICK v \in GuiVault :
              \/ Applied(j) /\ UNCHANGED <<gvault, open, armed, screenVars, thumbJobs, overtaken>>
              \/ Pick(v, Left(j)) /\ UNCHANGED clicks
              \/ gvault' = v /\ open' = AtTop /\ Wiped /\ Applied(j) /\ UNCHANGED <<shown, armed, thumbJobs, overtaken>>
        BY <2>4 DEF VaultsListed
      <3>2. UNCHANGED <<signedIn, totpAsked>>
        BY <2>4 DEF VaultsListed
      <3>3. QED
        BY <1>1, <1>2, <1>5, <3>1, <3>2 DEF Applied, Pick, Wiped, screenVars, ScreenTypes
    <2>5. CASE Listed(j)
      <3>1. shown' \subseteq [vault : GuiVault, search : BOOLEAN, dir : Folder \cup {Top}]
        BY <2>5, <1>23 DEF Listed, Places
      <3>2. QED
        BY <1>1, <2>5, <3>1 DEF Listed, Applied, sessionVars, ScreenTypes
    <2>6. CASE ChangeDone(j)
      <3>1. armed' \in Picked
        BY <1>1, <1>2, <2>6 DEF ChangeDone, ScreenTypes
      <3>2. overtaken' \in BOOLEAN /\ UNCHANGED <<clicks, died>>
        BY <1>1, <2>6 DEF ChangeDone, Applied, ScreenTypes
      <3>3. QED
        BY <1>1, <2>6, <3>1, <3>2 DEF ChangeDone, screenVars, ScreenTypes
    <2>7. CASE TimelineCame(j)
      BY <1>1, <1>2, <2>7, <1>23 DEF TimelineCame, Applied, sessionVars, ScreenTypes
    <2>8. CASE ThumbCame(j)
      <3>1. /\ thumbs' \subseteq thumbs \cup {[vault |-> j.vault, cell |-> j.at]}
            /\ thumbPending' \subseteq thumbPending /\ thumbFailed' \subseteq thumbFailed \cup {j.at}
            /\ j.vault \in GuiVault /\ j.at \in Cell
        BY <2>8, <1>23 DEF ThumbCame
      <3>2. QED
        BY <1>1, <2>8, <3>1 DEF ThumbCame, Applied, sessionVars, ScreenTypes
    <2>9. CASE PreviewCame(j)
      BY <1>1, <1>2, <2>9, <1>23 DEF PreviewCame, Applied, sessionVars, ScreenTypes
    <2>10. CASE Noted(j)
      <3>1. armed' \in Picked
        BY <1>1, <1>2, <2>10 DEF Noted, ScreenTypes
      <3>2. overtaken' \in BOOLEAN
        BY <2>10 DEF Noted
      <3>3. QED
        BY <1>1, <2>10, <3>1, <3>2 DEF Noted, Applied, screenVars, ScreenTypes
    <2>11. QED
      BY <2>1, <2>2, <2>3, <2>4, <2>5, <2>6, <2>7, <2>8, <2>9, <2>10
<1>25. CASE WorkerDies
  BY <1>1, <1>25 DEF WorkerDies, sessionVars, screenVars, ScreenTypes
<1>26. CASE UNCHANGED guiVars
  BY <1>1, <1>26 DEF guiVars, sessionVars, screenVars, ScreenTypes
<1>27. QED
  BY <1>1, <1>6, <1>7, <1>8, <1>9, <1>10, <1>11, <1>12, <1>13, <1>14, <1>15, <1>16, <1>17, <1>18, <1>19, <1>20, <1>21, <1>22, <1>24, <1>25, <1>26 DEF GuiNext

LEMMA JobsKept == ScreenTypes /\ JobsInv /\ [GuiNext]_guiVars => JobsInv'
<1>1. SUFFICES ASSUME ScreenTypes, JobsInv, [GuiNext]_guiVars PROVE JobsInv'
  OBVIOUS
<1>2. /\ Counted(jobs, busy, thumbJobs) /\ thumbJobs <= MAX_THUMB_JOBS /\ thumbJobs \in Nat
      /\ MAX_THUMB_JOBS \in Nat
  BY <1>1, GuiAssumption DEF JobsInv, Counted
<1>3. InVault => gvault \in GuiVault
  BY <1>1 DEF InVault, ScreenTypes, Picked
<1>4. AtTop \in Places /\ open \in Places
  BY <1>1 DEF AtTop, Places, ScreenTypes
<1>5. UNCHANGED <<jobs, busy, thumbJobs, signedIn>> => JobsInv'
  BY <1>1 DEF JobsInv, SignInOnce
<1>6. CASE CheckStatus
  BY <1>1, <1>6, SpawnsOne DEF CheckStatus, sessionVars
<1>7. CASE CreateVault
  BY <1>1, <1>7, SpawnsOne DEF CreateVault, sessionVars
<1>8. CASE Change
  BY <1>1, <1>3, <1>8, RequestsAre, SpawnsOne DEF Change, sessionVars
<1>9. CASE Download
  BY <1>1, <1>3, <1>9, RequestsAre, SpawnsOne DEF Download, sessionVars
<1>10. CASE ConfirmDelete
  BY <1>1, <1>3, <1>10, RequestsAre, SpawnsOne DEF ConfirmDelete, sessionVars
<1>11. CASE OpenPhotos
  BY <1>1, <1>3, <1>11, RequestsAre, SpawnsOne DEF OpenPhotos, sessionVars
<1>12. CASE OpenPreview
  BY <1>1, <1>3, <1>12, RequestsAre, SpawnsOne DEF OpenPreview, GridShown, sessionVars
<1>13. CASE DoSearch
  BY <1>1, <1>3, <1>13, RequestsAre, SpawnsOne DEF DoSearch, sessionVars
<1>14. CASE OpenDir
    <2>1. PICK d \in Openable : SpawnOne(ListRequest(gvault, AskedFor(d)))
      BY <1>14 DEF OpenDir
    <2>2. AskedFor(d) \in Places
      BY DEF AskedFor, Openable, Places
    <2>3. ListRequest(gvault, AskedFor(d)) \in VaultJob
      BY <1>1, <1>3, <2>2, <1>14, RequestsAre DEF OpenDir
    <2>4. QED
      BY <1>1, <2>1, <2>3, <1>14, SpawnsOne DEF OpenDir
<1>15. CASE SignIn
    <2>1. ~signedIn /\ busy = 0 /\ signedIn' = signedIn
      BY <1>15 DEF SignIn, SignInShown, Enabled, sessionVars
    <2>2. jobs' = jobs (+) SetToBag({LoginRequest}) /\ busy' = busy + 1 /\ thumbJobs' = thumbJobs
      BY <1>15, FS_Singleton DEF SignIn, SpawnOne, Spawn
    <2>3. LoginRequest \in GuiJob /\ LoginRequest.what = "login"
      BY JobsAre DEF GuiJob
    <2>4. LoginRequest \notin DOMAIN jobs
      BY <1>2, <2>1, <2>3, IdleToolbar
    <2>5. /\ Counted(jobs (+) SetToBag({LoginRequest}), busy + 1, thumbJobs)
          /\ (jobs (+) SetToBag({LoginRequest}))[LoginRequest] = 1
      BY <1>2, <2>3, <2>4, CountMore
    <2>6. Counted(jobs, busy, thumbJobs)' /\ (thumbJobs <= MAX_THUMB_JOBS)'
      BY <1>2, <2>2, <2>5
    <2>7. SignInOnce(jobs)'
      BY <2>1, <2>2, <2>5 DEF SignInOnce
    <2>8. QED
      BY <2>6, <2>7 DEF JobsInv
<1>16. CASE Refresh \/ PickVault
    <2>1. PICK v \in GuiVault, o \in Places :
            /\ jobs' = jobs (+) SetToBag(RefreshJobs(v, o)) /\ busy' = busy + 2
            /\ thumbJobs' = thumbJobs /\ signedIn' = signedIn
      <3>1. CASE PickVault
        BY <1>4, <3>1 DEF PickVault, Pick
      <3>2. CASE Refresh
        <4>1. Cardinality(RefreshJobs(gvault, open)) = 2
          <5>1. ListRequest(gvault, open) # StatsRequest(gvault)
            BY DEF ListRequest, StatsRequest, Job
          <5>2. IsFiniteSet({ListRequest(gvault, open)}) /\ Cardinality({ListRequest(gvault, open)}) = 1
            BY FS_Singleton
          <5>3. RefreshJobs(gvault, open) = {ListRequest(gvault, open)} \cup {StatsRequest(gvault)}
            BY DEF RefreshJobs
          <5>4. QED
            BY <5>1, <5>2, <5>3, FS_AddElement
        <4>2. QED
          BY <1>3, <1>4, <3>2, <4>1 DEF Refresh, Spawn, sessionVars
      <3>3. QED
        BY <3>1, <3>2, <1>16
    <2>2. /\ Counted(jobs', busy', thumbJobs')
          /\ DOMAIN jobs' = DOMAIN jobs \cup {ListRequest(v, o), StatsRequest(v)}
          /\ ListRequest(v, o) \in VaultJob /\ StatsRequest(v) \in VaultJob
          /\ \A e \in DOMAIN jobs \ VaultJob : jobs'[e] = jobs[e]
      <3>. DEFINE c == jobs (+) SetToBag(RefreshJobs(v, o))
      <3>1. /\ Counted(c, busy + 2, thumbJobs)
            /\ DOMAIN c = DOMAIN jobs \cup {ListRequest(v, o), StatsRequest(v)}
            /\ ListRequest(v, o) \in VaultJob /\ StatsRequest(v) \in VaultJob
            /\ \A e \in DOMAIN jobs \ VaultJob : c[e] = jobs[e]
        BY <1>2, CountRefresh
      <3>2. jobs' = c
        BY <2>1
      <3>. HIDE DEF c
      <3>3. QED
        BY <2>1, <3>1, <3>2
    <2>3. SignInOnce(jobs)'
      BY <1>1, <2>1, <2>2, JobsAre DEF JobsInv, SignInOnce
    <2>4. QED
      BY <1>2, <2>1, <2>2, <2>3 DEF JobsInv
<1>17. CASE Logout
    <2>1. UNCHANGED <<jobs, busy, thumbJobs>> /\ signedIn' = FALSE
      BY <1>17 DEF Logout
    <2>2. SignInOnce(jobs)'
      BY <1>1, <2>1 DEF JobsInv, SignInOnce
    <2>3. QED
      BY <1>1, <2>1, <2>2 DEF JobsInv
<1>18. CASE ArmDelete
  BY <1>5, <1>18 DEF ArmDelete
<1>19. CASE Disarm
  BY <1>5, <1>19 DEF Disarm
<1>20. CASE ClosePreview
  BY <1>5, <1>20 DEF ClosePreview, sessionVars
<1>21. CASE RequestThumb
    <2>1. PICK c \in Cell : jobs' = jobs (+) SetToBag({ThumbRequest(gvault, c)})
      BY <1>21 DEF RequestThumb
    <2>2. thumbJobs < MAX_THUMB_JOBS /\ thumbJobs' = thumbJobs + 1 /\ busy' = busy /\ signedIn' = signedIn /\ InVault
      BY <1>21 DEF RequestThumb, RoomForThumb, GridShown, sessionVars
    <2>. DEFINE j == ThumbRequest(gvault, c)
    <2>3. j \in ThumbJob
      BY <1>1, <1>3, <2>2, RequestsAre
    <2>4. j \in GuiJob /\ j.what = "thumb" /\ j # LoginRequest
      BY <2>3, JobsAre DEF GuiJob
    <2>. HIDE DEF j
    <2>5. /\ Counted(jobs (+) SetToBag({j}), busy, thumbJobs + 1)
          /\ DOMAIN (jobs (+) SetToBag({j})) = DOMAIN jobs \cup {j}
          /\ \A e \in DOMAIN jobs \ {j} : (jobs (+) SetToBag({j}))[e] = jobs[e]
      <3>1. Counted(jobs, busy, thumbJobs) /\ j \in GuiJob
        BY <1>2, <2>4
      <3>2. IF j.what = "thumb" THEN Counted(jobs (+) SetToBag({j}), busy, thumbJobs + 1)
            ELSE Counted(jobs (+) SetToBag({j}), busy + 1, thumbJobs)
        BY <3>1, CountMore
      <3>3. /\ DOMAIN (jobs (+) SetToBag({j})) = DOMAIN jobs \cup {j}
            /\ \A e \in DOMAIN jobs \ {j} : (jobs (+) SetToBag({j}))[e] = jobs[e]
        BY <3>1, CountMore
      <3>4. QED
        BY <2>4, <3>2, <3>3
    <2>6. jobs' = jobs (+) SetToBag({j})
      BY <2>1 DEF j
    <2>7. Counted(jobs, busy, thumbJobs)' /\ (thumbJobs <= MAX_THUMB_JOBS)'
      BY <1>2, <2>2, <2>5, <2>6
    <2>8. SignInOnce(jobs)'
      BY <1>1, <2>2, <2>4, <2>5, <2>6 DEF JobsInv, SignInOnce
    <2>9. QED
      BY <2>7, <2>8 DEF JobsInv
<1>22. CASE Poll
    <2>1. PICK j \in DOMAIN jobs :
            \/ LoggedIn(j) \/ TotpRequired(j) \/ VaultsListed(j) \/ Listed(j) \/ ChangeDone(j)
            \/ TimelineCame(j) \/ ThumbCame(j) \/ PreviewCame(j) \/ Noted(j)
      BY <1>22 DEF Poll
    <2>2. CASE LoggedIn(j)
      <3>1. j.what = "login"
        BY <2>2 DEF LoggedIn
      <3>2. PICK v \in GuiVault \cup {NoPick} :
              IF v = NoPick
              THEN Applied(j) /\ UNCHANGED thumbJobs
              ELSE Pick(v, Left(j)) /\ busy' = busy - TakenOff(j) + 2
        BY <2>2 DEF LoggedIn
      <3>3. CASE v = NoPick
        BY <1>1, <3>1, <3>2, <3>3, AppliesOne
      <3>4. CASE v # NoPick
        BY <1>1, <1>4, <3>1, <3>2, <3>4, RefreshesAfter DEF Pick
      <3>5. QED
        BY <3>3, <3>4
    <2>3. CASE TotpRequired(j)
      BY <1>1, <2>3, AppliesOne DEF TotpRequired
    <2>4. CASE VaultsListed(j)
      <3>1. j.what = "vaults" /\ UNCHANGED signedIn
        BY <2>4 DEF VaultsListed
      <3>2. PICK v \in GuiVault :
              \/ Applied(j) /\ UNCHANGED thumbJobs
              \/ Pick(v, Left(j)) /\ busy' = busy - TakenOff(j) + 2
        BY <2>4 DEF VaultsListed
      <3>3. CASE Applied(j) /\ UNCHANGED thumbJobs
        BY <1>1, <3>1, <3>3, AppliesOne
      <3>4. CASE Pick(v, Left(j)) /\ busy' = busy - TakenOff(j) + 2
        BY <1>1, <1>4, <3>1, <3>4, RefreshesAfter DEF Pick
      <3>5. QED
        BY <3>2, <3>3, <3>4
    <2>5. CASE Listed(j)
      BY <1>1, <2>5, AppliesOne DEF Listed, sessionVars
    <2>6. CASE ChangeDone(j)
      <3>1. j.what # "thumb" /\ UNCHANGED <<signedIn, thumbJobs>>
        BY <2>6 DEF ChangeDone
      <3>2. CASE InVault
        BY <1>1, <1>3, <1>4, <2>6, <3>1, <3>2, RefreshesAfter DEF ChangeDone
      <3>3. CASE ~InVault
        BY <1>1, <2>6, <3>1, <3>3, AppliesOne DEF ChangeDone
      <3>4. QED
        BY <3>2, <3>3
    <2>7. CASE TimelineCame(j)
      BY <1>1, <2>7, AppliesOne DEF TimelineCame, sessionVars
    <2>8. CASE ThumbCame(j)
      BY <1>1, <2>8, AppliesOne DEF ThumbCame, sessionVars
    <2>9. CASE PreviewCame(j)
      BY <1>1, <2>9, AppliesOne DEF PreviewCame, sessionVars
    <2>10. CASE Noted(j)
      BY <1>1, <2>10, AppliesOne DEF Noted
    <2>11. QED
      BY <2>1, <2>2, <2>3, <2>4, <2>5, <2>6, <2>7, <2>8, <2>9, <2>10
<1>23. CASE WorkerDies
    <2>1. PICK j \in DOMAIN jobs : jobs' = Left(j)
      BY <1>23 DEF WorkerDies
    <2>2. UNCHANGED <<busy, thumbJobs, signedIn>>
      BY <1>23 DEF WorkerDies, sessionVars
    <2>3. /\ Counted(jobs', busy, thumbJobs)
          /\ LoginRequest \in DOMAIN jobs' => LoginRequest \in DOMAIN jobs /\ jobs'[LoginRequest] = 1
      BY <1>1, <2>1, TakesOne
    <2>4. SignInOnce(jobs)'
      BY <1>1, <2>2, <2>3 DEF JobsInv, SignInOnce
    <2>5. QED
      BY <1>2, <2>2, <2>3, <2>4 DEF JobsInv
<1>24. CASE UNCHANGED guiVars
  BY <1>5, <1>24 DEF guiVars, sessionVars
<1>25. QED
  BY <1>1, <1>6, <1>7, <1>8, <1>9, <1>10, <1>11, <1>12, <1>13, <1>14, <1>15, <1>16, <1>17, <1>18, <1>19, <1>20, <1>21, <1>22, <1>23, <1>24 DEF GuiNext

LEMMA GuiInvariant == GuiSpec => [](ScreenTypes /\ JobsInv)
<1>1. (ScreenTypes /\ JobsInv) /\ [GuiNext]_guiVars => (ScreenTypes /\ JobsInv)'
  BY ScreenKept, JobsKept
<1>2. QED
  BY <1>1, GuiStarts, PTL DEF GuiSpec

\* Every variable of the desktop client has its type; busy in particular never
\* falls below zero, whatever is answered after a sign-out.
THEOREM GuiTyped == GuiSpec => []GuiTypeOK
<1>1. ScreenTypes /\ JobsInv => GuiTypeOK
  BY DEF ScreenTypes, JobsInv, Counted, GuiTypeOK, Places
<1>2. QED
  BY <1>1, GuiInvariant, PTL

\* However often the vault is changed or the user signs out with fetches at work,
\* no more than MAX_THUMB_JOBS workers fetch thumbnails: thumb_jobs counts each of
\* them until its event is applied.
THEOREM ThumbnailsAreBounded == GuiSpec => []ThumbsBounded
<1>1. JobsInv => ThumbsBounded
    <2>1. SUFFICES ASSUME JobsInv PROVE ThumbsBounded
      OBVIOUS
    <2>2. /\ Cardinality(Workers(jobs, {"thumb"})) <= thumbJobs /\ thumbJobs <= MAX_THUMB_JOBS
          /\ thumbJobs \in Nat /\ Cardinality(Workers(jobs, {"thumb"})) \in Nat /\ MAX_THUMB_JOBS \in Nat
      BY <2>1, GuiAssumption, FS_CardinalityType DEF JobsInv, Counted
    <2>3. QED
      BY <2>2 DEF ThumbsBounded, InFlight
<1>2. QED
  BY <1>1, GuiInvariant, PTL

-----------------------------------------------------------------------------
(***************************************************************************)
(* The screen shows what is open.                                          *)
(***************************************************************************)
ShowKinds == {"list", "search", "timeline", "thumb", "preview"}
ListKinds == {"list", "search"}

\* The directory that is open, as its listing is asked for.
Here == [search |-> FALSE, dir |-> open.dir]

\* Signed out, nothing of a vault is on the screen or on its way to it.
AwayInv ==
    ~signedIn => /\ \A j \in DOMAIN jobs : j.what \notin ShowKinds
                 /\ photos = NoPick /\ preview = NoPick /\ thumbs = {}

\* What is on the screen, and on its way to it, is of the vault that is picked.
OursInv ==
    /\ photos \in {NoPick, gvault} /\ preview \in {NoPick, gvault}
    /\ \A t \in thumbs : t.vault = gvault
    /\ \A j \in DOMAIN jobs : j.what \in ShowKinds => j.vault = gvault

\* The directory that is open is listed, or its listing is on its way and no other.
HereInv ==
    ~open.search =>
        /\ \A j \in DOMAIN jobs : j.what \in ListKinds => j.at = Here
        /\ InVault => \/ shown = {[vault |-> gvault, search |-> FALSE, dir |-> open.dir]}
                      \/ \E j \in DOMAIN jobs : j.what \in ListKinds

BelongInv == ~overtaken => AwayInv /\ OursInv /\ HereInv

\* A step that opens nothing else: new work is for what is open, a listing is not
\* applied, and what comes to the screen was asked for.
Calm ==
    /\ UNCHANGED <<signedIn, gvault, open, shown>> /\ (overtaken => overtaken')
    /\ photos' = photos \/ \E j \in DOMAIN jobs : j.what \in ShowKinds /\ photos' = j.vault
    /\ preview' \in {preview, NoPick} \/ \E j \in DOMAIN jobs : j.what \in ShowKinds /\ preview' = j.vault
    /\ \A t \in thumbs' : t \in thumbs \/ \E j \in DOMAIN jobs : j.what \in ShowKinds /\ t.vault = j.vault
    /\ \A j \in DOMAIN jobs' :
            \/ j \in DOMAIN jobs \/ j.what \notin ShowKinds
            \/ InVault /\ j.vault = gvault /\ (j.what \in ListKinds => j.at = Here)
    /\ \A j \in DOMAIN jobs : j.what \in ListKinds => j \in DOMAIN jobs'

LEMMA KindsAre == ListKinds \subseteq ShowKinds /\ \A j : j.what \in ListKinds <=> j.what \in {"list", "search"}
  BY DEF ListKinds, ShowKinds

LEMMA CalmBelongs ==
    ASSUME BelongInv, Calm
    PROVE  BelongInv'
<1>1. SUFFICES ASSUME ~overtaken' PROVE (AwayInv /\ OursInv /\ HereInv)'
  BY DEF BelongInv
<1>2. ~overtaken /\ AwayInv /\ OursInv /\ HereInv
  BY <1>1 DEF Calm, BelongInv
<1>3. signedIn' = signedIn /\ gvault' = gvault /\ open' = open /\ shown' = shown
  BY DEF Calm
<1>4. AwayInv'
    <2>1. SUFFICES ASSUME ~signedIn
                   PROVE  /\ \A j \in DOMAIN jobs' : j.what \notin ShowKinds
                          /\ photos' = NoPick /\ preview' = NoPick /\ thumbs' = {}
      BY <1>3 DEF AwayInv
    <2>2. /\ \A j \in DOMAIN jobs : j.what \notin ShowKinds
          /\ photos = NoPick /\ preview = NoPick /\ thumbs = {}
      BY <1>2, <2>1 DEF AwayInv
    <2>3. ~InVault
      BY <2>1 DEF InVault
    <2>4. QED
      BY <2>2, <2>3 DEF Calm
<1>5. OursInv'
    <2>1. \A j \in DOMAIN jobs : j.what \in ShowKinds => j.vault = gvault
      BY <1>2 DEF OursInv
    <2>2. \A j \in DOMAIN jobs' : j.what \in ShowKinds => j.vault = gvault
      BY <2>1 DEF Calm
    <2>3. \A t \in thumbs' : t.vault = gvault
      BY <1>2, <2>1 DEF Calm, OursInv
    <2>4. /\ photos' \in {NoPick, gvault} /\ preview' \in {NoPick, gvault}
      BY <1>2, <2>1 DEF Calm, OursInv
    <2>5. QED
      BY <1>3, <2>2, <2>3, <2>4 DEF OursInv
<1>6. HereInv'
    <2>1. SUFFICES ASSUME ~open.search
                   PROVE  /\ \A j \in DOMAIN jobs' : j.what \in ListKinds => j.at = Here
                          /\ InVault => \/ shown = {[vault |-> gvault, search |-> FALSE, dir |-> open.dir]}
                                        \/ \E j \in DOMAIN jobs' : j.what \in ListKinds
      BY <1>3 DEF HereInv, Here, InVault
    <2>2. /\ \A j \in DOMAIN jobs : j.what \in ListKinds => j.at = Here
          /\ InVault => \/ shown = {[vault |-> gvault, search |-> FALSE, dir |-> open.dir]}
                        \/ \E j \in DOMAIN jobs : j.what \in ListKinds
      BY <1>2, <2>1 DEF HereInv
    <2>3. \A j \in DOMAIN jobs' : j.what \in ListKinds => j.at = Here
      BY <2>2, KindsAre DEF Calm
    <2>4. QED
      BY <2>2, <2>3 DEF Calm
<1>7. QED
  BY <1>4, <1>5, <1>6

\* After pick_vault, unless it overtook something.
LEMMA PickBelongs ==
    ASSUME ScreenTypes, BelongInv, NEW v \in GuiVault, NEW left, Pick(v, left),
           DOMAIN jobs' = DOMAIN left \cup {ListRequest(v, AtTop), StatsRequest(v)},
           signedIn' = TRUE
    PROVE  BelongInv'
<1>1. SUFFICES ASSUME ~overtaken' PROVE (AwayInv /\ OursInv /\ HereInv)'
  BY DEF BelongInv
<1>2. Showing(left) = {}
  BY <1>1 DEF Pick
<1>3. \A j \in DOMAIN left : j.what \notin ShowKinds
  BY <1>2 DEF Showing, ShowKinds
<1>4. /\ gvault' = v /\ open' = AtTop /\ photos' = NoPick /\ preview' = NoPick /\ thumbs' = {}
  BY DEF Pick, Wiped
<1>5. ListRequest(v, AtTop) = Job("list", v, AtTop) /\ StatsRequest(v).what = "stats"
    <2>1. AtTop \in Places /\ AtTop = [search |-> FALSE, dir |-> AtTop.dir]
      BY DEF AtTop, Places
    <2>2. StatsRequest(v).what = "stats"
      BY DEF StatsRequest, Job
    <2>3. QED
      BY <2>1, <2>2, ListRequestIs
<1>6. ListRequest(v, AtTop).what = "list" /\ ListRequest(v, AtTop).vault = v /\ ListRequest(v, AtTop).at = AtTop
  BY <1>5 DEF Job
<1>7. Here' = AtTop
  BY <1>4 DEF Here, AtTop
<1>8. AwayInv'
  BY DEF AwayInv
<1>9. OursInv'
  BY <1>2, <1>3, <1>4, <1>5, <1>6 DEF OursInv, ShowKinds
<1>10. HereInv'
  BY <1>3, <1>5, <1>6, <1>7, KindsAre DEF HereInv, ListKinds
<1>11. QED
  BY <1>8, <1>9, <1>10

LEMMA BelongKept == ScreenTypes /\ JobsInv /\ JobsInv' /\ BelongInv /\ [GuiNext]_guiVars => BelongInv'
<1>1. SUFFICES ASSUME ScreenTypes, JobsInv, BelongInv, [GuiNext]_guiVars PROVE BelongInv'
  OBVIOUS
<1>2. /\ Counted(jobs, busy, thumbJobs) /\ DOMAIN jobs \subseteq GuiJob
      /\ AtTop \in Places /\ open \in Places
  BY <1>1 DEF JobsInv, Counted, AtTop, Places, ScreenTypes
<1>3. InVault => gvault \in GuiVault
  BY <1>1 DEF InVault, ScreenTypes, Picked
<1>4. UNCHANGED <<sessionVars, screenVars, jobs, overtaken>> => BelongInv'
    <2>1. SUFFICES ASSUME UNCHANGED <<sessionVars, screenVars, jobs, overtaken>> PROVE BelongInv'
      OBVIOUS
    <2>2. UNCHANGED <<signedIn, gvault, open, armed, shown, photos, preview, thumbs, jobs, overtaken>>
      BY <2>1 DEF sessionVars, screenVars
    <2>3. (AwayInv => AwayInv') /\ (OursInv => OursInv')
      BY <2>2 DEF AwayInv, OursInv
    <2>4. HereInv => HereInv'
      BY <2>2 DEF HereInv, Here, InVault
    <2>5. QED
      BY <1>1, <2>2, <2>3, <2>4 DEF BelongInv
<1>5. ASSUME NEW j, SpawnOne(j), UNCHANGED <<sessionVars, screenVars, overtaken>>, j \in GuiJob \ ThumbJob,
             j.what \in ShowKinds => InVault /\ j.vault = gvault /\ j.what \notin ListKinds
      PROVE  BelongInv'
    <2>1. DOMAIN jobs' = DOMAIN jobs \cup {j}
      <3>1. jobs' = jobs (+) SetToBag({j})
        BY <1>5 DEF SpawnOne, Spawn
      <3>2. QED
        BY <1>2, <1>5, <3>1, CountMore
    <2>2. Calm
      BY <1>5, <2>1 DEF Calm, sessionVars, screenVars
    <2>3. QED
      BY <1>1, <2>2, CalmBelongs
<1>6. CASE CheckStatus
    <2>1. StatusRequest \in GuiJob \ ThumbJob /\ StatusRequest.what = "status"
      BY JobsAre DEF GuiJob
    <2>2. QED
      BY <1>5, <2>1, <1>6 DEF CheckStatus, ShowKinds
<1>7. CASE SignIn
    <2>1. LoginRequest \in GuiJob \ ThumbJob /\ LoginRequest.what = "login"
      BY JobsAre DEF GuiJob
    <2>2. QED
      BY <1>5, <2>1, <1>7 DEF SignIn, ShowKinds
<1>8. CASE CreateVault
    <2>1. VaultsRequest \in GuiJob \ ThumbJob /\ VaultsRequest.what = "vaults"
      BY JobsAre DEF GuiJob
    <2>2. QED
      BY <1>5, <2>1, <1>8 DEF CreateVault, ShowKinds
<1>9. CASE Change
    <2>1. InVault /\ ChangeRequest(gvault) \in GuiJob \ ThumbJob
      BY <1>1, <1>3, RequestsAre, JobsAre, <1>9 DEF Change, GuiJob
    <2>2. ChangeRequest(gvault).what = "change" /\ ChangeRequest(gvault).vault = gvault
      BY DEF ChangeRequest, Job
    <2>3. QED
      BY <1>5, <2>1, <2>2, <1>9 DEF Change, ShowKinds, ListKinds
<1>10. CASE Download
    <2>1. InVault /\ DownloadRequest(gvault) \in GuiJob \ ThumbJob
      BY <1>1, <1>3, RequestsAre, JobsAre, <1>10 DEF Download, GuiJob
    <2>2. DownloadRequest(gvault).what = "get" /\ DownloadRequest(gvault).vault = gvault
      BY DEF DownloadRequest, Job
    <2>3. QED
      BY <1>5, <2>1, <2>2, <1>10 DEF Download, ShowKinds, ListKinds
<1>11. CASE ConfirmDelete
    <2>1. InVault /\ DeleteRequest(gvault) \in GuiJob \ ThumbJob
      BY <1>1, <1>3, RequestsAre, JobsAre, <1>11 DEF ConfirmDelete, GuiJob
    <2>2. DeleteRequest(gvault).what = "delete" /\ DeleteRequest(gvault).vault = gvault
      BY DEF DeleteRequest, Job
    <2>3. QED
      BY <1>5, <2>1, <2>2, <1>11 DEF ConfirmDelete, ShowKinds, ListKinds
<1>12. CASE OpenPhotos
    <2>1. InVault /\ TimelineRequest(gvault) \in GuiJob \ ThumbJob
      BY <1>1, <1>3, RequestsAre, JobsAre, <1>12 DEF OpenPhotos, GuiJob
    <2>2. TimelineRequest(gvault).what = "timeline" /\ TimelineRequest(gvault).vault = gvault
      BY DEF TimelineRequest, Job
    <2>3. QED
      BY <1>5, <2>1, <2>2, <1>12 DEF OpenPhotos, ShowKinds, ListKinds
<1>13. CASE OpenPreview
    <2>1. InVault /\ PreviewRequest(gvault) \in GuiJob \ ThumbJob
      BY <1>1, <1>3, RequestsAre, JobsAre, <1>13 DEF OpenPreview, GridShown, GuiJob
    <2>2. PreviewRequest(gvault).what = "preview" /\ PreviewRequest(gvault).vault = gvault
      BY DEF PreviewRequest, Job
    <2>3. QED
      BY <1>5, <2>1, <2>2, <1>13 DEF OpenPreview, ShowKinds, ListKinds
<1>14. CASE Refresh
    <2>1. /\ InVault /\ gvault \in GuiVault /\ jobs' = jobs (+) SetToBag(RefreshJobs(gvault, open))
          /\ UNCHANGED <<sessionVars, screenVars, overtaken>>
      BY <1>3, <1>14 DEF Refresh, Spawn
    <2>2. /\ DOMAIN (jobs (+) SetToBag(RefreshJobs(gvault, open)))
                = DOMAIN jobs \cup {ListRequest(gvault, open), StatsRequest(gvault)}
          /\ ListRequest(gvault, open) = Job("list", gvault, Here)
      BY <1>2, <2>1, CountRefresh DEF Here
    <2>3. StatsRequest(gvault).what = "stats"
      BY DEF StatsRequest, Job
    <2>4. \A j \in DOMAIN jobs' :
            \/ j \in DOMAIN jobs \/ j.what \notin ShowKinds
            \/ InVault /\ j.vault = gvault /\ (j.what \in ListKinds => j.at = Here)
      BY <2>1, <2>2, <2>3 DEF ShowKinds, Job
    <2>5. DOMAIN jobs \subseteq DOMAIN jobs'
      BY <2>1, <2>2
    <2>6. Calm
      BY <2>1, <2>4, <2>5 DEF Calm, sessionVars, screenVars
    <2>7. QED
      BY <1>1, <2>6, CalmBelongs
<1>15. CASE Logout
    <2>1. SUFFICES ASSUME ~overtaken' PROVE (AwayInv /\ OursInv /\ HereInv)'
      BY DEF BelongInv
    <2>2. Showing(jobs) = {} /\ jobs' = jobs
      BY <2>1, <1>15 DEF Logout
    <2>3. \A j \in DOMAIN jobs' : j.what \notin ShowKinds
      BY <2>2 DEF Showing, ShowKinds
    <2>4. photos' = NoPick /\ preview' = NoPick /\ thumbs' = {} /\ signedIn' = FALSE
      BY <1>15 DEF Logout, Wiped
    <2>5. AwayInv' /\ OursInv'
      BY <2>2, <2>3, <2>4 DEF AwayInv, OursInv
    <2>6. HereInv'
      BY <2>3, <2>4, KindsAre DEF HereInv, InVault
    <2>7. QED
      BY <2>5, <2>6
<1>16. CASE PickVault
    <2>1. PICK v \in GuiVault : Pick(v, jobs)
      BY <1>16 DEF PickVault
    <2>2. jobs' = jobs (+) SetToBag(RefreshJobs(v, AtTop)) /\ signedIn = TRUE /\ signedIn' = signedIn
      BY <1>1, <2>1, <1>16 DEF PickVault, Pick, TopBarShown, ScreenTypes
    <2>3. DOMAIN (jobs (+) SetToBag(RefreshJobs(v, AtTop))) = DOMAIN jobs \cup {ListRequest(v, AtTop), StatsRequest(v)}
      BY <1>2, CountRefresh
    <2>4. DOMAIN jobs' = DOMAIN jobs \cup {ListRequest(v, AtTop), StatsRequest(v)}
      BY <2>2, <2>3
    <2>5. QED
      BY <1>1, <2>1, <2>2, <2>4, PickBelongs
<1>17. CASE OpenDir
    <2>1. SUFFICES ASSUME ~overtaken' PROVE (AwayInv /\ OursInv /\ HereInv)'
      BY DEF BelongInv
    <2>2. AwayInv /\ OursInv /\ signedIn /\ gvault \in GuiVault
      BY <1>1, <1>3, <2>1, <1>17 DEF OpenDir, BelongInv, InVault
    <2>3. Listings(jobs) = {} /\ \A j \in DOMAIN jobs : j.what \notin ListKinds
      BY <2>1, <1>17 DEF OpenDir, Listings, ListKinds
    <2>4. PICK d \in Openable :
            /\ open' = [search |-> FALSE, dir |-> d] /\ armed' = NoPick
            /\ SpawnOne(ListRequest(gvault, AskedFor(d)))
      BY <1>17 DEF OpenDir
    <2>. DEFINE new == ListRequest(gvault, AskedFor(d))
    <2>5. new = Job("list", gvault, [search |-> FALSE, dir |-> d]) /\ AskedFor(d) \in Places
      <3>1. AskedFor(d) \in Places /\ AskedFor(d).dir = d
        BY DEF AskedFor, Places, Openable
      <3>2. QED
        BY <3>1, ListRequestIs
    <2>6. new \in VaultJob
      BY <1>1, <2>2, <2>5, RequestsAre
    <2>. HIDE DEF new
    <2>7. SpawnOne(new)
      BY <2>4 DEF new
    <2>8. UNCHANGED <<signedIn, gvault, screenVars>>
      BY <1>17 DEF OpenDir
    <2>9. DOMAIN jobs' = DOMAIN jobs \cup {new}
      BY <1>1, <2>6, <2>7, <2>8, SpawnsOne
    <2>10. new.what = "list" /\ new.vault = gvault /\ new.at = Here'
      BY <2>4, <2>5 DEF Job, Here
    <2>11. AwayInv'
      BY <2>2, <2>8 DEF AwayInv
    <2>12. OursInv'
      BY <2>2, <2>4, <2>8, <2>9, <2>10 DEF OursInv, screenVars
    <2>13. HereInv'
      BY <2>3, <2>9, <2>10 DEF HereInv, ListKinds
    <2>14. QED
      BY <2>11, <2>12, <2>13
<1>18. CASE DoSearch
    <2>1. SUFFICES ASSUME ~overtaken' PROVE (AwayInv /\ OursInv /\ HereInv)'
      BY DEF BelongInv
    <2>2. AwayInv /\ OursInv /\ signedIn /\ gvault \in GuiVault
      BY <1>1, <1>3, <2>1, <1>18 DEF DoSearch, BelongInv, InVault
    <2>3. Listings(jobs) = {} /\ \A j \in DOMAIN jobs : j.what \notin ListKinds
      BY <2>1, <1>18 DEF DoSearch, Listings, ListKinds
    <2>4. SpawnOne(SearchRequest(gvault)) /\ UNCHANGED <<signedIn, gvault, armed, screenVars>>
      BY <1>18 DEF DoSearch
    <2>5. SearchRequest(gvault) \in VaultJob
      BY <1>1, <2>2, RequestsAre
    <2>6. DOMAIN jobs' = DOMAIN jobs \cup {SearchRequest(gvault)}
      BY <1>1, <2>4, <2>5, SpawnsOne
    <2>7. SearchRequest(gvault).vault = gvault
      BY DEF SearchRequest, Job
    <2>8. open'.search = TRUE
      BY <1>2, <1>18 DEF DoSearch, Places
    <2>9. AwayInv'
      BY <2>2, <2>4 DEF AwayInv
    <2>10. OursInv'
      BY <2>2, <2>4, <2>6, <2>7 DEF OursInv, screenVars
    <2>11. HereInv'
      BY <2>8 DEF HereInv
    <2>12. QED
      BY <2>9, <2>10, <2>11
<1>19. CASE ArmDelete
    <2>1. Calm
      BY <1>19 DEF ArmDelete, RowsShown, Calm, screenVars
    <2>2. QED
      BY <1>1, <2>1, CalmBelongs
<1>20. CASE Disarm
    <2>1. Calm
      BY <1>20 DEF Disarm, Calm, screenVars
    <2>2. QED
      BY <1>1, <2>1, CalmBelongs
<1>21. CASE ClosePreview
    <2>1. Calm
      BY <1>21 DEF ClosePreview, Calm, sessionVars
    <2>2. QED
      BY <1>1, <2>1, CalmBelongs
<1>22. CASE RequestThumb
    <2>1. PICK c \in Cell : jobs' = jobs (+) SetToBag({ThumbRequest(gvault, c)})
      BY <1>22 DEF RequestThumb
    <2>2. InVault /\ UNCHANGED <<sessionVars, shown, photos, preview, thumbs, overtaken>>
      BY <1>22 DEF RequestThumb, GridShown
    <2>3. ThumbRequest(gvault, c) \in GuiJob
      BY <1>1, <1>3, <2>2, RequestsAre DEF GuiJob
    <2>4. DOMAIN (jobs (+) SetToBag({ThumbRequest(gvault, c)})) = DOMAIN jobs \cup {ThumbRequest(gvault, c)}
      BY <1>2, <2>3, CountMore
    <2>5. ThumbRequest(gvault, c).what = "thumb" /\ ThumbRequest(gvault, c).vault = gvault
      BY DEF ThumbRequest, Job
    <2>6. /\ \A j \in DOMAIN jobs' :
                j \in DOMAIN jobs \/ (InVault /\ j.vault = gvault /\ j.what \notin ListKinds)
          /\ DOMAIN jobs \subseteq DOMAIN jobs'
      BY <2>1, <2>2, <2>4, <2>5 DEF ListKinds
    <2>7. Calm
      BY <2>2, <2>6 DEF Calm, sessionVars
    <2>8. QED
      BY <1>1, <2>7, CalmBelongs
<1>23. ASSUME NEW j \in DOMAIN jobs, j.what \notin ListKinds, DOMAIN jobs' = DOMAIN Left(j),
             UNCHANGED <<signedIn, gvault, open, shown>>, overtaken => overtaken',
             photos' = photos \/ (j.what \in ShowKinds /\ photos' = j.vault),
             preview' = preview \/ (j.what \in ShowKinds /\ preview' = j.vault),
             \A t \in thumbs' : t \in thumbs \/ (j.what \in ShowKinds /\ t.vault = j.vault)
      PROVE  BelongInv'
    <2>1. DOMAIN jobs' \subseteq DOMAIN jobs /\ DOMAIN jobs \ {j} \subseteq DOMAIN jobs'
      BY <1>1, <1>23, TakesOne
    <2>2. Calm
      BY <1>23, <2>1 DEF Calm
    <2>3. QED
      BY <1>1, <2>2, CalmBelongs
<1>24. CASE Poll
    <2>1. PICK j \in DOMAIN jobs :
            \/ LoggedIn(j) \/ TotpRequired(j) \/ VaultsListed(j) \/ Listed(j) \/ ChangeDone(j)
            \/ TimelineCame(j) \/ ThumbCame(j) \/ PreviewCame(j) \/ Noted(j)
      BY <1>24 DEF Poll
    <2>2. DOMAIN Left(j) \subseteq DOMAIN jobs /\ DOMAIN jobs \ {j} \subseteq DOMAIN Left(j) /\ j \in GuiJob
      BY <1>1, TakesOne
    <2>3. CASE LoggedIn(j)
      <3>1. j.what = "login" /\ signedIn' = TRUE /\ ~signedIn
        <4>1. j.what = "login" /\ signedIn' = TRUE
          BY <2>3 DEF LoggedIn
        <4>2. j = LoginRequest
          BY <2>2, <4>1, JobKind
        <4>3. QED
          BY <1>1, <4>1, <4>2 DEF JobsInv, SignInOnce
      <3>2. PICK v \in GuiVault \cup {NoPick} :
              IF v = NoPick
              THEN gvault' = NoPick /\ Applied(j) /\ UNCHANGED <<open, armed, screenVars, thumbJobs, overtaken>>
              ELSE Pick(v, Left(j)) /\ busy' = busy - TakenOff(j) + 2
        BY <2>3 DEF LoggedIn
      <3>3. CASE v = NoPick
        <4>1. SUFFICES ASSUME ~overtaken' PROVE (AwayInv /\ OursInv /\ HereInv)'
          BY DEF BelongInv
        <4>2. AwayInv /\ jobs' = Left(j) /\ gvault' = NoPick /\ UNCHANGED <<open, armed, screenVars>>
          BY <1>1, <3>2, <3>3, <4>1 DEF BelongInv, Applied
        <4>3. /\ \A i \in DOMAIN jobs' : i.what \notin ShowKinds
              /\ photos' = NoPick /\ preview' = NoPick /\ thumbs' = {}
          BY <2>2, <3>1, <4>2 DEF AwayInv, screenVars
        <4>4. AwayInv' /\ OursInv'
          BY <3>1, <4>3 DEF AwayInv, OursInv
        <4>5. HereInv'
          BY <4>2, <4>3, KindsAre DEF HereInv, InVault
        <4>6. QED
          BY <4>4, <4>5
      <3>4. CASE v # NoPick
        <4>1. Pick(v, Left(j)) /\ v \in GuiVault
          BY <3>2, <3>4
        <4>2. DOMAIN jobs' = DOMAIN Left(j) \cup {ListRequest(v, AtTop), StatsRequest(v)}
          BY <1>1, <1>2, <3>1, <3>2, <3>4, <4>1, RefreshesAfter DEF Pick
        <4>3. QED
          BY <1>1, <3>1, <4>1, <4>2, PickBelongs
      <3>5. QED
        BY <3>3, <3>4
    <2>4. CASE TotpRequired(j)
      BY <1>23, <2>4 DEF TotpRequired, Applied, screenVars, ListKinds
    <2>5. CASE VaultsListed(j)
      <3>1. j.what = "vaults" /\ UNCHANGED signedIn
        BY <2>5 DEF VaultsListed
      <3>2. PICK v \in GuiVault :
              \/ Applied(j) /\ UNCHANGED <<gvault, open, armed, screenVars, thumbJobs, overtaken>>
              \/ gvault = NoPick /\ signedIn /\ Pick(v, Left(j)) /\ busy' = busy - TakenOff(j) + 2
              \/ /\ gvault = NoPick /\ ~signedIn /\ gvault' = v /\ open' = AtTop /\ Wiped
                 /\ Applied(j) /\ UNCHANGED <<shown, armed, thumbJobs, overtaken>>
        BY <2>5 DEF VaultsListed
      <3>3. CASE Applied(j) /\ UNCHANGED <<gvault, open, armed, screenVars, thumbJobs, overtaken>>
        BY <1>23, <3>1, <3>3 DEF Applied, screenVars, ListKinds
      <3>4. CASE signedIn /\ Pick(v, Left(j)) /\ busy' = busy - TakenOff(j) + 2
        <4>1. DOMAIN jobs' = DOMAIN Left(j) \cup {ListRequest(v, AtTop), StatsRequest(v)}
          BY <1>1, <1>2, <3>1, <3>4, RefreshesAfter DEF Pick
        <4>2. signedIn' = TRUE
          BY <1>1, <3>1, <3>4 DEF ScreenTypes
        <4>3. QED
          BY <1>1, <3>4, <4>1, <4>2, PickBelongs
      <3>5. CASE /\ ~signedIn /\ Wiped /\ Applied(j) /\ UNCHANGED overtaken
        <4>1. SUFFICES ASSUME ~overtaken' PROVE (AwayInv /\ OursInv /\ HereInv)'
          BY DEF BelongInv
        <4>2. AwayInv /\ jobs' = Left(j)
          BY <1>1, <3>5, <4>1 DEF BelongInv, Applied
        <4>3. /\ \A i \in DOMAIN jobs' : i.what \notin ShowKinds
              /\ photos' = NoPick /\ preview' = NoPick /\ thumbs' = {}
          BY <2>2, <3>5, <4>2 DEF AwayInv, Wiped
        <4>4. AwayInv' /\ OursInv'
          BY <4>3 DEF AwayInv, OursInv
        <4>5. HereInv'
          BY <3>1, <3>5, <4>3, KindsAre DEF HereInv, InVault
        <4>6. QED
          BY <4>4, <4>5
      <3>6. QED
        BY <3>2, <3>3, <3>4, <3>5
    <2>6. CASE Listed(j)
      <3>1. SUFFICES ASSUME ~overtaken' PROVE (AwayInv /\ OursInv /\ HereInv)'
        BY DEF BelongInv
      <3>2. /\ jobs' = Left(j) /\ UNCHANGED <<signedIn, gvault, open, armed, photos, preview, thumbs, overtaken>>
            /\ shown' = {[vault |-> j.vault, search |-> j.at.search, dir |-> j.at.dir]}
            /\ j.what \in ListKinds /\ j.what \in ShowKinds
        BY <2>6, KindsAre DEF Listed, Applied, sessionVars
      <3>3. AwayInv /\ OursInv /\ HereInv
        BY <1>1, <3>1, <3>2 DEF BelongInv
      <3>4. AwayInv' /\ OursInv'
        BY <2>2, <3>2, <3>3 DEF AwayInv, OursInv
      <3>5. ~open.search => j.vault = gvault /\ j.at = Here
        BY <3>2, <3>3 DEF OursInv, HereInv
      <3>6. ~open.search => shown' = {[vault |-> gvault, search |-> FALSE, dir |-> open.dir]}
        <4>1. ASSUME ~open.search PROVE shown' = {[vault |-> gvault, search |-> FALSE, dir |-> open.dir]}
          <5>1. j.vault = gvault /\ j.at = Here
            BY <3>5, <4>1
          <5>2. j.at.search = FALSE /\ j.at.dir = open.dir
            BY <5>1 DEF Here
          <5>3. QED
            BY <3>2, <5>1, <5>2
        <4>2. QED
          BY <4>1
      <3>7. HereInv'
        BY <2>2, <3>2, <3>3, <3>6 DEF HereInv, Here
      <3>8. QED
        BY <3>4, <3>7
    <2>7. CASE ChangeDone(j)
      <3>1. /\ j.what \in {"change", "delete"}
            /\ UNCHANGED <<signedIn, gvault, open, screenVars, thumbJobs>>
        BY <2>7 DEF ChangeDone
      <3>2. CASE InVault
        <4>1. /\ jobs' = Left(j) (+) SetToBag(RefreshJobs(gvault, open))
              /\ busy' = busy - TakenOff(j) + 2 /\ (overtaken => overtaken')
          BY <2>7, <3>2 DEF ChangeDone
        <4>2. DOMAIN jobs' = DOMAIN Left(j) \cup {ListRequest(gvault, open), StatsRequest(gvault)}
          BY <1>1, <1>2, <1>3, <3>1, <3>2, <4>1, RefreshesAfter
        <4>3. ListRequest(gvault, open) = Job("list", gvault, Here) /\ StatsRequest(gvault).what = "stats"
          <5>1. ListRequest(gvault, open) = Job("list", gvault, [search |-> FALSE, dir |-> open.dir])
            BY <1>2, <1>3, <3>2, CountRefresh
          <5>2. QED
            BY <5>1 DEF StatsRequest, Job, Here
        <4>4. \A i \in DOMAIN jobs' :
                \/ i \in DOMAIN jobs \/ i.what \notin ShowKinds
                \/ InVault /\ i.vault = gvault /\ (i.what \in ListKinds => i.at = Here)
          BY <2>2, <3>2, <4>2, <4>3 DEF ShowKinds, Job
        <4>5. \A i \in DOMAIN jobs : i.what \in ListKinds => i \in DOMAIN jobs'
          BY <2>2, <3>1, <4>2 DEF ListKinds
        <4>6. Calm
          BY <3>1, <4>1, <4>4, <4>5 DEF Calm, screenVars
        <4>7. QED
          BY <1>1, <4>6, CalmBelongs
      <3>3. CASE ~InVault
        BY <1>23, <2>7, <3>1, <3>3 DEF ChangeDone, Applied, screenVars, ListKinds
      <3>4. QED
        BY <3>2, <3>3
    <2>8. CASE TimelineCame(j)
      BY <1>23, <2>8 DEF TimelineCame, Applied, sessionVars, ListKinds, ShowKinds
    <2>9. CASE ThumbCame(j)
      <3>1. \A t \in thumbs' : t \in thumbs \/ t.vault = j.vault
        BY <2>9 DEF ThumbCame
      <3>2. QED
        BY <1>23, <2>9, <3>1 DEF ThumbCame, Applied, sessionVars, ListKinds, ShowKinds
    <2>10. CASE PreviewCame(j)
      BY <1>23, <2>10 DEF PreviewCame, Applied, sessionVars, ListKinds, ShowKinds
    <2>11. CASE Noted(j)
      <3>1. CASE j.what \in ListKinds
        BY <2>11, <3>1 DEF Noted, ListKinds, BelongInv
      <3>2. CASE j.what \notin ListKinds
        <4>1. overtaken => overtaken'
          BY <2>11 DEF Noted
        <4>2. QED
          BY <1>23, <2>11, <3>2, <4>1 DEF Noted, Applied, screenVars
      <3>3. QED
        BY <3>1, <3>2
    <2>12. QED
      BY <2>1, <2>3, <2>4, <2>5, <2>6, <2>7, <2>8, <2>9, <2>10, <2>11
<1>25. CASE WorkerDies
  BY <1>25 DEF WorkerDies, BelongInv
<1>26. CASE UNCHANGED guiVars
  BY <1>4, <1>26 DEF guiVars
<1>27. QED
  BY <1>1, <1>6, <1>7, <1>8, <1>9, <1>10, <1>11, <1>12, <1>13, <1>14, <1>15, <1>16, <1>17, <1>18, <1>19, <1>20, <1>21, <1>22, <1>24, <1>25, <1>26 DEF GuiNext

LEMMA BelongInvariant == GuiSpec => []BelongInv
<1>1. GuiInit => BelongInv
    <2>1. SUFFICES ASSUME GuiInit PROVE AwayInv /\ OursInv /\ HereInv
      BY DEF BelongInv
    <2>2. DOMAIN jobs = {} /\ ~InVault
      BY <2>1 DEF GuiInit, EmptyBag, SetToBag, InVault
    <2>3. QED
      BY <2>1, <2>2 DEF GuiInit, AwayInv, OursInv, HereInv
<1>2. (ScreenTypes /\ JobsInv) /\ (ScreenTypes /\ JobsInv)' /\ BelongInv /\ [GuiNext]_guiVars => BelongInv'
  BY BelongKept
<1>3. QED
  BY <1>1, <1>2, GuiInvariant, PTL DEF GuiSpec

\* Unless a slow answer was overtaken or one was an error, what is listed once the
\* answers are in is the directory that is open: every listing at work asks for it.
THEOREM TheListingIsOfWhatIsOpen == GuiSpec => []ListingBelongs
<1>1. BelongInv => ListingBelongs
    <2>1. SUFFICES ASSUME BelongInv, ~overtaken, InVault, Listings(jobs) = {}, ~open.search
                   PROVE  shown = {[vault |-> gvault, search |-> FALSE, dir |-> open.dir]}
      BY DEF ListingBelongs
    <2>2. \A j \in DOMAIN jobs : j.what \notin ListKinds
      BY <2>1 DEF Listings, ListKinds
    <2>3. QED
      BY <2>1, <2>2 DEF BelongInv, HereInv
<1>2. QED
  BY <1>1, BelongInvariant, PTL

\* Photos, thumbnails and the preview on the screen are those of the vault that is
\* picked, unless an answer was overtaken or the one to a listing was an error.
THEOREM ThePhotosAreOfTheVault == GuiSpec => []PhotosBelong
<1>1. BelongInv => PhotosBelong
  BY DEF BelongInv, OursInv, PhotosBelong
<1>2. QED
  BY <1>1, BelongInvariant, PTL

=============================================================================
