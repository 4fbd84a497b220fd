------------------------- MODULE StreamChunksProofs -------------------------
(***************************************************************************)
(* Theorems about the cutting of a stream into chunks, for files, reads    *)
(* and chunks of any size: the functions of the chunker unfolded, and the  *)
(* inductive invariant of chunk_reader.                                    *)
(***************************************************************************)
EXTENDS StreamChunks, SequenceTheorems, WellFoundedInduction, TLAPS

-----------------------------------------------------------------------------
(***************************************************************************)
(* Induction.                                                              *)
(***************************************************************************)
\* A set of naturals has a least member.
LEMMA LeastOf ==
    ASSUME NEW T, T \subseteq Nat, T # {}
    PROVE  \E k \in T : \A j \in T : k =< j
<1>. DEFINE R == OpToRel(<, Nat)
<1>1. IsWellFoundedOn(R, Nat)
  BY NatLessThanWellFounded
<1>2. \E k \in T : \A j \in T : ~ (<<j, k>> \in R)
    <2>. HIDE DEF R
    <2>1. QED
      BY <1>1, WFMin
<1>3. \A j \in Nat, i \in Nat : j < i => <<j, i>> \in R
  BY DEF OpToRel
<1>. HIDE DEF R
<1>4. PICK k \in T : \A j \in T : ~ (<<j, k>> \in R)
  BY <1>2
<1>5. ASSUME NEW j \in T PROVE k =< j
    <2>1. j \in Nat /\ k \in Nat /\ ~ (j < k)
      BY <1>3, <1>4
    <2>2. QED
      BY <2>1
<1>6. QED
  BY <1>5

\* Induction: a set of naturals that has zero and the successor of each of its
\* members has every one, for what is left out would have a least member.
LEMMA FromZero ==
    ASSUME NEW S, 0 \in S, \A n \in Nat : n \in S => n + 1 \in S
    PROVE  Nat \subseteq S
<1>. DEFINE Rest == Nat \ S
<1>1. ASSUME Rest # {} PROVE FALSE
    <2>1. PICK k \in Rest : \A j \in Rest : k =< j
      BY <1>1, LeastOf
    <2>2. k \in Nat /\ k # 0 /\ k - 1 \in Nat /\ ~ (k =< k - 1) /\ (k - 1) + 1 = k
      OBVIOUS
    <2>3. k - 1 \in S
      BY <2>1, <2>2
    <2>4. QED
      BY <2>1, <2>2, <2>3
<1>2. QED
  BY <1>1

-----------------------------------------------------------------------------
(***************************************************************************)
(* The chunker over a slice.                                               *)
(***************************************************************************)
\* Walk is the function its definition chooses: there is one up to each place.
LEMMA WalkIs ==
    ASSUME NEW ch, NEW data \in Seq(Byte)
    PROVE  /\ Walk(ch, data)[0] = ch
           /\ \A i \in 1 .. Len(data) : Walk(ch, data)[i] = Feed(Walk(ch, data)[i - 1], data[i])
<1>. DEFINE Is(f, n) == f = [i \in 0 .. n |-> IF i = 0 THEN ch ELSE Feed(f[i - 1], data[i])]
            Reached == {n \in Nat : \E f : Is(f, n)}
<1>1. 0 \in Reached
    <2>. DEFINE f == [i \in 0 .. 0 |-> ch]
    <2>1. f = [i \in 0 .. 0 |-> IF i = 0 THEN ch ELSE Feed(f[i - 1], data[i])]
      OBVIOUS
    <2>. HIDE DEF f
    <2>2. QED
      BY <2>1
<1>2. ASSUME NEW n \in Nat, n \in Reached
      PROVE  n + 1 \in Reached
    <2>1. PICK f : Is(f, n)
      BY <1>2
    <2>. DEFINE g == [i \in 0 .. n + 1 |-> IF i = n + 1 THEN Feed(f[n], data[n + 1]) ELSE f[i]]
    <2>2. \A i \in 0 .. n : f[i] = IF i = 0 THEN ch ELSE Feed(f[i - 1], data[i])
      BY <2>1
    <2>3. \A i \in 0 .. n + 1 : g[i] = IF i = 0 THEN ch ELSE Feed(g[i - 1], data[i])
        <3>1. ASSUME NEW i \in 0 .. n + 1
              PROVE  g[i] = IF i = 0 THEN ch ELSE Feed(g[i - 1], data[i])
            <4>1. CASE i = n + 1
                <5>1. g[i] = Feed(f[n], data[n + 1]) /\ i - 1 = n /\ g[n] = f[n] /\ i # 0
                  BY <4>1
                <5>2. QED
                  BY <4>1, <5>1
            <4>2. CASE i # n + 1
                <5>1. i \in 0 .. n /\ g[i] = f[i] /\ (i # 0 => i - 1 \in 0 .. n)
                  BY <4>2
                <5>2. i # 0 => g[i - 1] = f[i - 1]
                  BY <5>1
                <5>. HIDE DEF g
                <5>3. QED
                  BY <2>2, <5>1, <5>2
            <4>3. QED
              BY <4>1, <4>2
        <3>2. QED
          BY <3>1
    <2>4. Is(g, n + 1)
        <3>1. g = [i \in 0 .. n + 1 |-> g[i]]
          OBVIOUS
        <3>. HIDE DEF g
        <3>2. QED
          BY <2>3, <3>1
    <2>5. QED
        <3>1. \E h : Is(h, n + 1)
            <4>. HIDE DEF Is, g
            <4>1. QED
              BY <2>4
        <3>2. n + 1 \in Nat
          OBVIOUS
        <3>. HIDE DEF Is
        <3>3. QED
          BY <3>1, <3>2
<1>3. Len(data) \in Reached
    <2>. HIDE DEF Reached
    <2>1. QED
      BY <1>1, <1>2, FromZero
<1>4. Is(Walk(ch, data), Len(data))
    <2>1. \E f : Is(f, Len(data))
        <3>. HIDE DEF Is
        <3>1. QED
          BY <1>3
    <2>2. Walk(ch, data) = CHOOSE f : Is(f, Len(data))
      BY DEF Walk
    <2>. HIDE DEF Is
    <2>3. QED
      BY <2>1, <2>2
<1>5. Len(data) \in Nat
  OBVIOUS
<1>. DEFINE w == Walk(ch, data)
<1>6. \A i \in 0 .. Len(data) : w[i] = IF i = 0 THEN ch ELSE Feed(w[i - 1], data[i])
    <2>1. w = [i \in 0 .. Len(data) |-> IF i = 0 THEN ch ELSE Feed(w[i - 1], data[i])]
      BY <1>4
    <2>. HIDE DEF w
    <2>2. QED
      BY <2>1
<1>7. QED
    <2>. HIDE DEF w
    <2>1. w[0] = ch /\ \A i \in 1 .. Len(data) : w[i] = Feed(w[i - 1], data[i])
      BY <1>5, <1>6
    <2>2. QED
      BY <2>1 DEF w

\* A slice of data walked from where the data were walked to goes on as they do.
LEMMA WalkOn ==
    ASSUME NEW ch, NEW data \in Seq(Byte), NEW k \in 0 .. Len(data), NEW sub \in Seq(Byte),
           k + Len(sub) =< Len(data),
           \A i \in 1 .. Len(sub) : sub[i] = data[k + i]
    PROVE  \A i \in 0 .. Len(sub) : Walk(Walk(ch, data)[k], sub)[i] = Walk(ch, data)[k + i]
<1>. DEFINE w == Walk(ch, data)
            v == Walk(Walk(ch, data)[k], sub)
            Alike == {i \in Nat : i =< Len(sub) => v[i] = w[k + i]}
<1>1. Len(sub) \in Nat /\ Len(data) \in Nat /\ k \in Nat
  OBVIOUS
<1>2. v[0] = w[k] /\ \A i \in 1 .. Len(sub) : v[i] = Feed(v[i - 1], sub[i])
  BY WalkIs
<1>3. \A i \in 1 .. Len(data) : w[i] = Feed(w[i - 1], data[i])
  BY WalkIs
<1>. HIDE DEF v, w
<1>4. 0 \in Alike
  BY <1>1, <1>2
<1>5. ASSUME NEW n \in Nat, n \in Alike
      PROVE  n + 1 \in Alike
    <2>1. SUFFICES ASSUME n + 1 =< Len(sub) PROVE v[n + 1] = w[k + (n + 1)]
      OBVIOUS
    <2>2. v[n] = w[k + n]
      BY <1>1, <1>5, <2>1
    <2>3. v[n + 1] = Feed(v[n], sub[n + 1])
        <3>1. n + 1 \in 1 .. Len(sub) /\ (n + 1) - 1 = n
          BY <1>1, <2>1
        <3>2. QED
          BY <1>2, <3>1
    <2>4. w[k + (n + 1)] = Feed(w[k + n], data[k + (n + 1)])
        <3>1. k + (n + 1) \in 1 .. Len(data) /\ (k + (n + 1)) - 1 = k + n
          BY <1>1, <2>1
        <3>2. QED
          BY <1>3, <3>1
    <2>5. sub[n + 1] = data[k + (n + 1)]
      BY <1>1, <2>1
    <2>6. QED
      BY <2>2, <2>3, <2>4, <2>5
<1>6. Nat \subseteq Alike
    <2>. HIDE DEF Alike
    <2>1. QED
      BY <1>4, <1>5, FromZero
<1>7. \A i \in 0 .. Len(sub) : v[i] = w[k + i]
  BY <1>1, <1>6
<1>8. QED
  BY <1>7 DEF v, w

\* What a fresh chunker has counted is how far it is.
LEMMA WalkCounts ==
    ASSUME NEW data \in Seq(Byte)
    PROVE  \A i \in 0 .. Len(data) :
               Walk(NewChunker, data)[i] \in [hash : 0 .. 2 ^ HASH_BITS - 1, count : {i}]
<1>. DEFINE w == Walk(NewChunker, data)
            Typed == {i \in Nat : i =< Len(data) =>
                         w[i] \in [hash : 0 .. 2 ^ HASH_BITS - 1, count : {i}]}
            M == 2 ^ HASH_BITS
<1>1. M \in Nat \ {0} /\ \A b \in Byte : GEAR(b) \in 0 .. M - 1
  BY StreamAssumption
<1>2. w[0] = NewChunker /\ \A i \in 1 .. Len(data) : w[i] = Feed(w[i - 1], data[i])
  BY WalkIs
<1>3. \A h \in Nat, g \in Nat : (2 * h + g) % M \in 0 .. M - 1
    <2>. HIDE DEF M
    <2>1. QED
      BY <1>1
<1>. HIDE DEF w
<1>4. 0 \in Typed
    <2>1. 0 \in 0 .. M - 1
      <3>. HIDE DEF M
      <3>1. QED
        BY <1>1
    <2>2. QED
      BY <1>2, <2>1 DEF NewChunker
<1>5. ASSUME NEW n \in Nat, n \in Typed
      PROVE  n + 1 \in Typed
    <2>1. SUFFICES ASSUME n + 1 =< Len(data)
                   PROVE  w[n + 1] \in [hash : 0 .. M - 1, count : {n + 1}]
      OBVIOUS
    <2>2. w[n] \in [hash : 0 .. M - 1, count : {n}]
      BY <1>5, <2>1
    <2>3. n + 1 \in 1 .. Len(data) /\ (n + 1) - 1 = n /\ data[n + 1] \in Byte
      BY <2>1
    <2>4. w[n + 1] = [hash |-> (2 * w[n].hash + GEAR(data[n + 1])) % M, count |-> n + 1]
      BY <1>2, <2>2, <2>3 DEF Feed
    <2>5. w[n].hash \in Nat /\ GEAR(data[n + 1]) \in Nat
      <3>. HIDE DEF M
      <3>1. QED
        BY <1>1, <2>2, <2>3
    <2>6. (2 * w[n].hash + GEAR(data[n + 1])) % M \in 0 .. M - 1
      BY <1>3, <2>5
    <2>. HIDE DEF M
    <2>7. QED
      BY <2>4, <2>6
<1>6. Nat \subseteq Typed
    <2>. HIDE DEF Typed
    <2>1. QED
      BY <1>4, <1>5, FromZero
<1>7. QED
    <2>1. \A i \in 0 .. Len(data) : i \in Typed
      BY <1>6
    <2>2. QED
      BY <2>1 DEF w

LEMMA CutFacts ==
    ASSUME NEW ch, ch.count \in Nat
    PROVE  /\ IsCut(ch) => ch.count >= MIN_CHUNK
           /\ ~ IsCut(ch) => ch.count < MAX_CHUNK
  BY StreamAssumption DEF IsCut

\* find_boundary answers the first cut.
LEMMA BoundaryIs ==
    ASSUME NEW ch, NEW data \in Seq(Byte)
    PROVE  LET c == FindBoundary(ch, data) IN
           /\ c \in 0 .. Len(data)
           /\ c = 0 <=> \A i \in 1 .. Len(data) : ~ IsCut(Walk(ch, data)[i])
           /\ c # 0 => /\ IsCut(Walk(ch, data)[c])
                       /\ \A i \in 1 .. c - 1 : ~ IsCut(Walk(ch, data)[i])
<1>. DEFINE C == Cuts(ch, data)
<1>1. C \subseteq 1 .. Len(data) /\ \A i \in 1 .. Len(data) : i \in C <=> IsCut(Walk(ch, data)[i])
  BY DEF Cuts
<1>2. CASE C = {}
  BY <1>1, <1>2 DEF FindBoundary
<1>3. CASE C # {}
    <2>1. C \subseteq Nat
      BY <1>1
    <2>2. \E k \in C : \A j \in C : k =< j
      <3>. HIDE DEF C
      <3>1. QED
        BY <1>3, <2>1, LeastOf
    <2>. DEFINE c == FindBoundary(ch, data)
    <2>3. c \in C /\ \A j \in C : c =< j
      BY <1>3, <2>2 DEF FindBoundary
    <2>. HIDE DEF C, c
    <2>4. c \in 0 .. Len(data) /\ c # 0 /\ IsCut(Walk(ch, data)[c])
      BY <1>1, <2>3
    <2>5. \A i \in 1 .. c - 1 : ~ IsCut(Walk(ch, data)[i])
      BY <1>1, <2>3, <2>4
    <2>6. QED
      BY <2>4, <2>5 DEF c
<1>4. QED
  BY <1>2, <1>3

-----------------------------------------------------------------------------
(***************************************************************************)
(* chunk_slices.                                                           *)
(***************************************************************************)
\* What is behind a place of the data, and its chunks from those further on.
Behind(data, at) == SubSeq(data, at + 1, Len(data))

SliceFrom(data, at, f) ==
    LET cut == FindBoundary(NewChunker, Behind(data, at))
    IN  IF Behind(data, at) = <<>> THEN <<>>
        ELSE IF cut = 0 THEN <<Behind(data, at)>>
        ELSE <<SubSeq(Behind(data, at), 1, cut)>> \o f[at + cut]

LEMMA BehindIs ==
    ASSUME NEW data \in Seq(Byte), NEW at \in 0 .. Len(data)
    PROVE  /\ Behind(data, at) \in Seq(Byte) /\ Len(Behind(data, at)) = Len(data) - at
           /\ \A i \in 1 .. Len(data) - at : Behind(data, at)[i] = data[at + i]
           /\ FindBoundary(NewChunker, Behind(data, at)) \in 0 .. Len(data) - at
           /\ Behind(data, at) = <<>> <=> at = Len(data)
<1>1. /\ Behind(data, at) \in Seq(Byte) /\ Len(Behind(data, at)) = Len(data) - at
      /\ \A i \in 1 .. Len(data) - at : Behind(data, at)[i] = data[at + i]
  BY SubSeqProperties DEF Behind
<1>2. FindBoundary(NewChunker, Behind(data, at)) \in 0 .. Len(data) - at
  BY <1>1, BoundaryIs
<1>3. Behind(data, at) = <<>> <=> at = Len(data)
  BY <1>1, EmptySeq
<1>4. QED
  BY <1>1, <1>2, <1>3

LEMMA SliceFromLater ==
    ASSUME NEW data \in Seq(Byte), NEW at \in 0 .. Len(data), NEW f, NEW g,
           \A k \in at + 1 .. Len(data) : f[k] = g[k]
    PROVE  SliceFrom(data, at, f) = SliceFrom(data, at, g)
<1>. DEFINE cut == FindBoundary(NewChunker, Behind(data, at))
<1>1. cut \in 0 .. Len(data) - at
  BY BehindIs
<1>2. cut # 0 => f[at + cut] = g[at + cut]
  <2>. HIDE DEF cut
  <2>1. QED
    BY <1>1
<1>3. QED
  BY <1>2 DEF SliceFrom

\* Slices is the function its definition chooses: there is one from each place on,
\* counted from the end.
LEMMA SlicesAre ==
    ASSUME NEW data \in Seq(Byte)
    PROVE  \A at \in 0 .. Len(data) : Slices(data)[at] = SliceFrom(data, at, Slices(data))
<1>. DEFINE L == Len(data)
            Is(f, n) == f = [at \in L - n .. L |-> SliceFrom(data, at, f)]
            Reached == {n \in Nat : n =< L => \E f : Is(f, n)}
<1>1. L \in Nat
  OBVIOUS
<1>2. 0 \in Reached
    <2>. DEFINE f == [at \in L - 0 .. L |-> <<>>]
    <2>1. SliceFrom(data, L, f) = <<>>
      BY <1>1, BehindIs DEF SliceFrom
    <2>. HIDE DEF L
    <2>2. f = [at \in L - 0 .. L |-> SliceFrom(data, at, f)]
      BY <1>1, <2>1
    <2>. HIDE DEF f
    <2>3. QED
      BY <2>2
<1>3. ASSUME NEW n \in Nat, n \in Reached
      PROVE  n + 1 \in Reached
    <2>1. SUFFICES ASSUME n + 1 =< L PROVE \E f : Is(f, n + 1)
      <3>. HIDE DEF Is, L
      <3>1. QED
        OBVIOUS
    <2>2. PICK f : Is(f, n)
      <3>. HIDE DEF Is, L
      <3>1. QED
        BY <1>1, <1>3, <2>1
    <2>. DEFINE a == L - (n + 1)
                g == [at \in a .. L |-> IF at = a THEN SliceFrom(data, a, f) ELSE f[at]]
    <2>3. a \in 0 .. L /\ a + 1 = L - n
      BY <1>1, <2>1
    <2>4. \A at \in a + 1 .. L : f[at] = SliceFrom(data, at, f)
      BY <2>2, <2>3
    <2>5. \A at \in a + 1 .. L : g[at] = f[at]
      <3>. HIDE DEF L
      <3>1. QED
        BY <1>1, <2>1
    <2>6. g[a] = SliceFrom(data, a, f)
      <3>. HIDE DEF L
      <3>1. QED
        BY <1>1, <2>1
    <2>7. ASSUME NEW at \in a .. L PROVE g[at] = SliceFrom(data, at, g)
        <3>1. at \in 0 .. L /\ at + 1 .. L \subseteq a + 1 .. L
          <4>. HIDE DEF L
          <4>1. QED
            BY <1>1, <2>3
        <3>2. SliceFrom(data, at, f) = SliceFrom(data, at, g)
          <4>. HIDE DEF a, g
          <4>1. \A k \in at + 1 .. L : f[k] = g[k]
            BY <2>5, <3>1
          <4>2. QED
            BY <3>1, <4>1, SliceFromLater
        <3>3. at = a \/ at \in a + 1 .. L
          <4>. HIDE DEF L
          <4>1. QED
            BY <1>1, <2>3
        <3>. HIDE DEF g, a, L
        <3>4. QED
          BY <2>4, <2>5, <2>6, <3>2, <3>3
    <2>8. g = [at \in a .. L |-> SliceFrom(data, at, g)]
        <3>1. g = [at \in a .. L |-> g[at]]
          OBVIOUS
        <3>. HIDE DEF g
        <3>2. QED
          BY <2>7, <3>1
    <2>9. Is(g, n + 1)
      BY <2>8
    <2>. HIDE DEF Is, g
    <2>10. QED
      BY <2>9
<1>4. L \in Reached
    <2>1. Nat \subseteq Reached
        <3>. HIDE DEF Reached
        <3>1. QED
          BY <1>2, <1>3, FromZero
    <2>. HIDE DEF Reached
    <2>2. QED
      BY <1>1, <2>1
<1>5. \E f : Is(f, L)
    <2>. HIDE DEF Is, L
    <2>1. QED
      BY <1>1, <1>4
<1>6. L - L = 0
  BY <1>1
<1>7. Is(Slices(data), L)
    <2>1. Slices(data) = CHOOSE f : f = [at \in 0 .. L |-> SliceFrom(data, at, f)]
      BY DEF Slices, SliceFrom, Behind
    <2>2. Slices(data) = CHOOSE f : Is(f, L)
      BY <1>6, <2>1
    <2>. HIDE DEF Is
    <2>3. QED
      BY <1>5, <2>2
<1>8. QED
    <2>. DEFINE s == Slices(data)
    <2>1. s = [at \in 0 .. L |-> SliceFrom(data, at, s)]
      BY <1>6, <1>7
    <2>. HIDE DEF s
    <2>2. \A at \in 0 .. L : s[at] = SliceFrom(data, at, s)
      BY <2>1
    <2>3. QED
      BY <2>2 DEF s

LEMMA SlicesTyped ==
    ASSUME NEW data \in Seq(Byte)
    PROVE  \A at \in 0 .. Len(data) : Slices(data)[at] \in Seq(Seq(Byte))
<1>. DEFINE L == Len(data)
            Typed == {n \in Nat : n =< L =>
                         \A at \in L - n .. L : Slices(data)[at] \in Seq(Seq(Byte))}
<1>1. L \in Nat
  OBVIOUS
<1>2. ASSUME NEW at \in 0 .. L, \A k \in at + 1 .. L : Slices(data)[k] \in Seq(Seq(Byte))
      PROVE  Slices(data)[at] \in Seq(Seq(Byte))
    <2>. DEFINE rest == Behind(data, at)
                cut == FindBoundary(NewChunker, rest)
    <2>1. rest \in Seq(Byte) /\ Len(rest) = L - at /\ cut \in 0 .. L - at
      BY BehindIs
    <2>2. Slices(data)[at] = SliceFrom(data, at, Slices(data))
      BY SlicesAre
    <2>3. CASE rest = <<>>
      BY <2>2, <2>3 DEF SliceFrom
    <2>4. CASE rest # <<>> /\ cut = 0
      <3>1. Slices(data)[at] = <<rest>>
        BY <2>2, <2>4 DEF SliceFrom
      <3>. HIDE DEF rest
      <3>2. QED
        BY <2>1, <3>1
    <2>5. CASE rest # <<>> /\ cut # 0
      <3>1. Slices(data)[at] = <<SubSeq(rest, 1, cut)>> \o Slices(data)[at + cut]
        BY <2>2, <2>5 DEF SliceFrom
      <3>. HIDE DEF rest, cut
      <3>2. at + cut \in at + 1 .. L
        BY <1>1, <2>1, <2>5
      <3>3. Slices(data)[at + cut] \in Seq(Seq(Byte))
        BY <1>2, <3>2
      <3>4. <<SubSeq(rest, 1, cut)>> \in Seq(Seq(Byte))
        BY <1>1, <2>1
      <3>5. QED
        BY <3>1, <3>3, <3>4, ConcatProperties
    <2>6. QED
      BY <2>3, <2>4, <2>5
<1>3. 0 \in Typed
    <2>1. L + 1 .. L = {}
      BY <1>1
    <2>2. Slices(data)[L] \in Seq(Seq(Byte))
      <3>1. L \in 0 .. L
        BY <1>1
      <3>. HIDE DEF L
      <3>2. QED
        BY <1>2, <2>1, <3>1
    <2>. HIDE DEF L
    <2>3. QED
      BY <1>1, <2>2
<1>4. ASSUME NEW n \in Nat, n \in Typed
      PROVE  n + 1 \in Typed
    <2>1. SUFFICES ASSUME n + 1 =< L, NEW at \in L - (n + 1) .. L
                   PROVE  Slices(data)[at] \in Seq(Seq(Byte))
      <3>. HIDE DEF L
      <3>1. QED
        OBVIOUS
    <2>. HIDE DEF L
    <2>2. at \in 0 .. L /\ at + 1 .. L \subseteq L - n .. L
      BY <1>1, <2>1
    <2>3. QED
      BY <1>1, <1>2, <1>4, <2>1, <2>2
<1>5. Nat \subseteq Typed
    <2>. HIDE DEF Typed
    <2>1. QED
      BY <1>3, <1>4, FromZero
<1>6. \A at \in L - L .. L : Slices(data)[at] \in Seq(Seq(Byte))
    <2>. HIDE DEF L
    <2>1. QED
      BY <1>1, <1>5
<1>7. L - L = 0
  BY <1>1
<1>8. QED
  BY <1>6, <1>7

-----------------------------------------------------------------------------
(***************************************************************************)
(* chunk_reader.                                                           *)
(***************************************************************************)
\* Where in the file the chunk begins that is being looked for, and how much of
\* it the chunker was fed.
Place == taken - Len(buf) + start
Gone  == scannedTo - start

StreamTyped ==
    /\ stream \in Seq(Byte) /\ taken \in 0 .. Len(stream)
    /\ buf \in Seq(Byte) /\ Len(buf) =< taken
    /\ start \in Nat /\ scannedTo \in start .. Len(buf)
    /\ room = STREAM_BUF /\ Len(buf) =< room
    /\ eof \in BOOLEAN /\ spc \in {"idle", "loop", "done"}
    /\ chunks \in Seq(Seq(Byte))

\* The buffer is the last of what was read, the chunker is where a fresh one that
\* walked from Place is, with no cut on the way, and what was emitted followed by
\* the chunks from Place on is the file in chunks.
Slicing ==
    /\ spc = "idle" => stream = <<>> /\ start = 0 /\ scannedTo = 0 /\ ~ eof /\ chunks = <<>>
    /\ \A i \in 1 .. Len(buf) : buf[i] = stream[taken - Len(buf) + i]
    /\ eof => taken = Len(stream)
    /\ chunker = Walk(NewChunker, Behind(stream, Place))[Gone]
    /\ \A i \in 1 .. Gone : ~ IsCut(Walk(NewChunker, Behind(stream, Place))[i])
    /\ spc # "done" => chunks \o Slices(stream)[Place] = Slices(stream)[0]
    /\ spc = "done" => chunks = Slices(stream)[0]

Sized ==
    \A i \in 1 .. Len(chunks) :
        /\ Len(chunks[i]) =< MAX_CHUNK
        /\ spc # "done" \/ i < Len(chunks) => Len(chunks[i]) >= MIN_CHUNK

StreamInv == StreamTyped /\ Slicing /\ Sized


LEMMA PlaceIs ==
    ASSUME StreamTyped
    PROVE  /\ Place \in 0 .. Len(stream) /\ Gone \in Nat /\ Gone =< Len(stream) - Place
           /\ Place + Gone = taken - Len(buf) + scannedTo
           /\ Behind(stream, Place) \in Seq(Byte)
           /\ Len(Behind(stream, Place)) = Len(stream) - Place
           /\ \A i \in 1 .. Len(stream) - Place : Behind(stream, Place)[i] = stream[Place + i]
<1>1. /\ Len(stream) \in Nat /\ taken \in Nat /\ taken =< Len(stream) /\ Len(buf) \in Nat
      /\ Len(buf) =< taken /\ start \in Nat /\ scannedTo \in Nat
      /\ start =< scannedTo /\ scannedTo =< Len(buf)
  BY DEF StreamTyped
<1>2. /\ Place \in 0 .. Len(stream) /\ Gone \in Nat /\ Gone =< Len(stream) - Place
      /\ Place + Gone = taken - Len(buf) + scannedTo
  BY <1>1 DEF Place, Gone
<1>3. QED
  BY <1>2, BehindIs DEF StreamTyped

\* What is fresh comes next in the file, and the chunker goes on over it.
LEMMA FreshIs ==
    ASSUME StreamTyped, Slicing
    PROVE  /\ Fresh \in Seq(Byte) /\ Len(Fresh) = Len(buf) - scannedTo
           /\ Gone + Len(Fresh) =< Len(stream) - Place
           /\ \A i \in 0 .. Len(Fresh) :
                  Walk(chunker, Fresh)[i] = Walk(NewChunker, Behind(stream, Place))[Gone + i]
<1>. DEFINE rest == Behind(stream, Place)
<1>1. /\ Len(stream) \in Nat /\ taken \in Nat /\ taken =< Len(stream) /\ Len(buf) \in Nat
      /\ Len(buf) =< taken /\ start \in Nat /\ scannedTo \in Nat
      /\ start =< scannedTo /\ scannedTo =< Len(buf) /\ buf \in Seq(Byte)
  BY DEF StreamTyped
<1>2. /\ Fresh \in Seq(Byte) /\ Len(Fresh) = Len(buf) - scannedTo
      /\ \A i \in 1 .. Len(Fresh) : Fresh[i] = buf[scannedTo + i]
  BY <1>1, SubSeqProperties DEF Fresh
<1>3. /\ rest \in Seq(Byte) /\ Len(rest) = Len(stream) - Place /\ Gone \in 0 .. Len(rest)
      /\ \A i \in 1 .. Len(rest) : rest[i] = stream[Place + i]
      /\ Place \in Nat /\ Gone \in Nat /\ Place + Gone = taken - Len(buf) + scannedTo
  BY PlaceIs
<1>. HIDE DEF rest
<1>4. Gone + Len(Fresh) =< Len(rest)
  BY <1>1, <1>2, <1>3 DEF Place, Gone
<1>5. ASSUME NEW i \in 1 .. Len(Fresh) PROVE Fresh[i] = rest[Gone + i]
    <2>1. scannedTo + i \in 1 .. Len(buf) /\ Gone + i \in 1 .. Len(rest)
      BY <1>1, <1>2, <1>3, <1>4
    <2>2. Fresh[i] = stream[taken - Len(buf) + (scannedTo + i)]
      BY <1>2, <2>1 DEF Slicing
    <2>3. rest[Gone + i] = stream[Place + (Gone + i)]
      BY <1>3, <2>1
    <2>4. Place + (Gone + i) = taken - Len(buf) + (scannedTo + i)
      <3>1. i \in Nat
        BY <1>2
      <3>2. QED
        BY <1>1, <3>1 DEF Place, Gone
    <2>5. QED
      BY <2>2, <2>3, <2>4
<1>6. chunker = Walk(NewChunker, rest)[Gone]
  BY DEF Slicing, rest
<1>7. \A i \in 0 .. Len(Fresh) : Walk(chunker, Fresh)[i] = Walk(NewChunker, rest)[Gone + i]
    <2>1. \A i \in 0 .. Len(Fresh) : Walk(Walk(NewChunker, rest)[Gone], Fresh)[i]
                                       = Walk(NewChunker, rest)[Gone + i]
      <3>. DEFINE k == Gone
      <3>1. k + Len(Fresh) =< Len(rest) /\ \A i \in 1 .. Len(Fresh) : Fresh[i] = rest[k + i]
        BY <1>4, <1>5
      <3>2. k \in 0 .. Len(rest) /\ Fresh \in Seq(Byte) /\ rest \in Seq(Byte)
        BY <1>2, <1>3
      <3>. HIDE DEF k
      <3>3. \A i \in 0 .. Len(Fresh) : Walk(Walk(NewChunker, rest)[k], Fresh)[i]
                                       = Walk(NewChunker, rest)[k + i]
        BY <3>1, <3>2, WalkOn
      <3>4. QED
        BY <3>3 DEF k
    <2>2. QED
      BY <1>6, <2>1
<1>8. QED
  BY <1>2, <1>3, <1>4, <1>7 DEF rest

\* The bytes that were walked without a cut are fewer than MAX_CHUNK.
LEMMA GoneIsBounded ==
    ASSUME StreamTyped, Slicing
    PROVE  /\ Gone < MAX_CHUNK
           /\ chunker \in [hash : 0 .. 2 ^ HASH_BITS - 1, count : {Gone}]
<1>. DEFINE w == Walk(NewChunker, Behind(stream, Place))
<1>1. Gone \in Nat /\ Gone \in 0 .. Len(Behind(stream, Place)) /\ Behind(stream, Place) \in Seq(Byte)
  BY PlaceIs DEF StreamTyped
<1>2. w[Gone] \in [hash : 0 .. 2 ^ HASH_BITS - 1, count : {Gone}]
  BY <1>1, WalkCounts
<1>3. chunker = w[Gone] /\ \A i \in 1 .. Gone : ~ IsCut(w[i])
  BY DEF Slicing
<1>. HIDE DEF w
<1>4. w[Gone].count = Gone
  BY <1>2
<1>5. CASE Gone = 0
  BY <1>2, <1>3, <1>5, StreamAssumption
<1>6. CASE Gone # 0
    <2>1. ~ IsCut(w[Gone])
      BY <1>1, <1>3, <1>6
    <2>2. Gone < MAX_CHUNK
      BY <1>1, <1>4, <2>1, CutFacts
    <2>3. QED
      BY <1>2, <1>3, <2>2
<1>7. QED
  BY <1>5, <1>6

\* The unconsumed bytes are the first Len(buf) - start of those behind Place.
LEMMA UnconsumedIs ==
    ASSUME StreamTyped, Slicing, Fresh = <<>>
    PROVE  /\ scannedTo = Len(buf) /\ Gone = Len(buf) - start
           /\ Unconsumed \in Seq(Byte) /\ Len(Unconsumed) = Gone
           /\ \A i \in 1 .. Gone : /\ Unconsumed[i] = buf[start + i]
                                   /\ Unconsumed[i] = stream[Place + i]
           /\ Len(Unconsumed) < STREAM_BUF
<1>1. /\ Len(stream) \in Nat /\ taken \in Nat /\ taken =< Len(stream) /\ Len(buf) \in Nat
      /\ Len(buf) =< taken /\ start \in Nat /\ scannedTo \in Nat
      /\ start =< scannedTo /\ scannedTo =< Len(buf) /\ buf \in Seq(Byte)
  BY DEF StreamTyped
<1>2. scannedTo = Len(buf)
    <2>1. Len(Fresh) = 0
      OBVIOUS
    <2>2. QED
      BY <1>1, <2>1, FreshIs
<1>3. Gone = Len(buf) - start
  BY <1>2 DEF Gone
<1>4. /\ Unconsumed \in Seq(Byte) /\ Len(Unconsumed) = Len(buf) - start
      /\ \A i \in 1 .. Len(buf) - start : Unconsumed[i] = buf[start + i]
  BY <1>1, <1>2, SubSeqProperties DEF Unconsumed
<1>5. ASSUME NEW i \in 1 .. Gone PROVE Unconsumed[i] = stream[Place + i]
    <2>1. start + i \in 1 .. Len(buf)
      BY <1>1, <1>2, <1>3
    <2>2. buf[start + i] = stream[taken - Len(buf) + (start + i)]
      BY <2>1 DEF Slicing
    <2>3. taken - Len(buf) + (start + i) = Place + i
      BY <1>1, <1>3 DEF Place
    <2>4. QED
      BY <1>3, <1>4, <2>2, <2>3
<1>6. Len(Unconsumed) < STREAM_BUF
    <2>1. Len(Unconsumed) \in Nat /\ Len(Unconsumed) < MAX_CHUNK
      BY <1>3, <1>4, GoneIsBounded
    <2>2. MAX_CHUNK \in Nat /\ STREAM_BUF \in Nat /\ MAX_CHUNK < STREAM_BUF
      BY StreamAssumption
    <2>3. QED
      BY <2>1, <2>2
<1>7. QED
  BY <1>2, <1>3, <1>4, <1>5, <1>6


LEMMA StreamStarts == StreamInit => StreamInv
<1>1. SUFFICES ASSUME StreamInit PROVE StreamInv
  OBVIOUS
<1>2. /\ stream = <<>> /\ taken = 0 /\ buf = <<>> /\ room = STREAM_BUF /\ start = 0
      /\ scannedTo = 0 /\ chunker = NewChunker /\ eof = FALSE /\ chunks = <<>> /\ spc = "idle"
      /\ STREAM_BUF \in Nat
  BY <1>1, StreamAssumption DEF StreamInit
<1>3. stream \in Seq(Byte) /\ buf \in Seq(Byte) /\ chunks \in Seq(Seq(Byte))
  BY <1>2
<1>4. Len(stream) = 0 /\ Len(buf) = 0 /\ Len(chunks) = 0
  BY <1>2
<1>5. /\ taken = 0 /\ room = STREAM_BUF /\ start = 0 /\ scannedTo = 0 /\ eof = FALSE
      /\ spc = "idle" /\ STREAM_BUF \in Nat
  BY <1>2
<1>6. StreamTyped /\ Place = 0 /\ Gone = 0
    <2>1. taken \in 0 .. Len(stream) /\ Len(buf) =< taken /\ start \in Nat
      BY <1>4, <1>5
    <2>2. scannedTo \in start .. Len(buf) /\ Len(buf) =< room
      BY <1>4, <1>5
    <2>3. Place = 0 /\ Gone = 0
      BY <1>4, <1>5 DEF Place, Gone
    <2>4. QED
      BY <1>3, <1>5, <2>1, <2>2, <2>3 DEF StreamTyped
<1>7. chunker = Walk(NewChunker, Behind(stream, Place))[Gone]
  BY <1>2, <1>6, PlaceIs, WalkIs
<1>8. Slices(stream)[0] \in Seq(Seq(Byte))
    <2>1. 0 \in 0 .. Len(stream)
      BY <1>4
    <2>2. QED
      BY <1>3, <2>1, SlicesTyped
<1>9. chunks \o Slices(stream)[0] = Slices(stream)[0]
  BY <1>2, <1>8, ConcatEmptySeq
<1>10. Slicing
  BY <1>2, <1>4, <1>6, <1>7, <1>9 DEF Slicing
<1>11. Sized
  BY <1>4 DEF Sized
<1>12. QED
  BY <1>6, <1>10, <1>11 DEF StreamInv

LEMMA OpenKeeps == StreamInv /\ OpenStream => StreamInv'
<1>1. SUFFICES ASSUME StreamInv, OpenStream PROVE StreamInv'
  OBVIOUS
<1>2. StreamTyped /\ Slicing /\ Sized
  BY <1>1 DEF StreamInv
<1>3. PICK n \in 0 .. MaxBytes : \E data \in [1 .. n -> Byte] :
          /\ spc = "idle" /\ spc' = "loop" /\ stream' = data
          /\ UNCHANGED <<taken, buf, room, start, scannedTo, chunker, eof, chunks>>
  BY <1>1 DEF OpenStream
<1>4. /\ stream' \in Seq(Byte) /\ Len(stream') \in Nat /\ spc = "idle" /\ spc' = "loop"
      /\ UNCHANGED <<taken, buf, room, start, scannedTo, chunker, eof, chunks>>
  BY <1>3
<1>5. /\ stream = <<>> /\ start = 0 /\ scannedTo = 0 /\ ~ eof /\ chunks = <<>>
  BY <1>2, <1>4 DEF Slicing
<1>6. taken = 0 /\ Len(buf) = 0 /\ buf \in Seq(Byte)
    <2>1. Len(stream) = 0
      BY <1>5
    <2>2. QED
      BY <1>2, <2>1 DEF StreamTyped
<1>7. StreamTyped'
  BY <1>2, <1>4, <1>5, <1>6 DEF StreamTyped
<1>8. Place = 0 /\ Place' = 0 /\ Gone = 0 /\ Gone' = 0
  BY <1>4, <1>5, <1>6 DEF Place, Gone
<1>9. chunker = NewChunker
    <2>1. chunker = Walk(NewChunker, Behind(stream, Place))[0]
      BY <1>2, <1>8 DEF Slicing
    <2>2. QED
      BY <1>2, <2>1, PlaceIs, WalkIs
<1>10. Behind(stream', 0) \in Seq(Byte)
  BY <1>4, BehindIs
<1>11. chunker' = Walk(NewChunker, Behind(stream', Place'))[Gone']
  BY <1>4, <1>8, <1>9, <1>10, WalkIs
<1>12. Slices(stream')[0] \in Seq(Seq(Byte))
  BY <1>4, SlicesTyped
<1>13. chunks' \o Slices(stream')[Place'] = Slices(stream')[0]
  BY <1>4, <1>5, <1>8, <1>12, ConcatEmptySeq
<1>14. Slicing'
  BY <1>4, <1>5, <1>6, <1>8, <1>11, <1>13 DEF Slicing
<1>15. Sized'
  BY <1>4, <1>5 DEF Sized
<1>16. QED
  BY <1>7, <1>14, <1>15 DEF StreamInv

LEMMA CutKeeps == StreamInv /\ CutFound => StreamInv'
<1>. DEFINE rest == Behind(stream, Place)
            w == Walk(NewChunker, rest)
            c == FindBoundary(chunker, Fresh)
            piece == SubSeq(buf, start + 1, scannedTo + c)
<1>1. SUFFICES ASSUME StreamInv, CutFound PROVE StreamInv'
  OBVIOUS
<1>2. StreamTyped /\ Slicing /\ Sized
  BY <1>1 DEF StreamInv
<1>3. /\ spc = "loop" /\ c # 0 /\ chunks' = Append(chunks, piece)
      /\ start' = scannedTo + c /\ scannedTo' = scannedTo + c /\ chunker' = NewChunker
      /\ UNCHANGED <<stream, taken, buf, room, eof, spc>>
  BY <1>1 DEF CutFound
<1>4. /\ Fresh \in Seq(Byte) /\ Len(Fresh) = Len(buf) - scannedTo
      /\ \A i \in 0 .. Len(Fresh) : Walk(chunker, Fresh)[i] = w[Gone + i]
  BY <1>2, FreshIs
<1>5. /\ c \in 1 .. Len(Fresh) /\ IsCut(Walk(chunker, Fresh)[c])
      /\ \A i \in 1 .. c - 1 : ~ IsCut(Walk(chunker, Fresh)[i])
    <2>. HIDE DEF w
    <2>1. /\ c \in 0 .. Len(Fresh) /\ IsCut(Walk(chunker, Fresh)[c])
          /\ \A i \in 1 .. c - 1 : ~ IsCut(Walk(chunker, Fresh)[i])
      BY <1>3, <1>4, BoundaryIs
    <2>. HIDE DEF c
    <2>2. QED
      BY <1>3, <2>1
<1>. HIDE DEF c
<1>6. /\ Len(stream) \in Nat /\ taken \in Nat /\ taken =< Len(stream) /\ Len(buf) \in Nat
      /\ Len(buf) =< taken /\ start \in Nat /\ scannedTo \in Nat
      /\ start =< scannedTo /\ scannedTo =< Len(buf) /\ buf \in Seq(Byte)
      /\ chunks \in Seq(Seq(Byte)) /\ stream \in Seq(Byte)
  BY <1>2 DEF StreamTyped
<1>7. c \in Nat /\ c > 0 /\ scannedTo + c =< Len(buf)
  BY <1>4, <1>5, <1>6
<1>8. /\ rest \in Seq(Byte) /\ Len(rest) = Len(stream) - Place /\ Gone \in Nat
      /\ \A i \in 1 .. Len(stream) - Place : rest[i] = stream[Place + i]
      /\ Place \in 0 .. Len(stream)
  BY <1>2, PlaceIs
<1>9. \A i \in 1 .. Gone : ~ IsCut(w[i])
  BY <1>2 DEF Slicing
<1>10. Gone + c =< Len(rest) /\ Gone + c \in 1 .. Len(rest)
  BY <1>6, <1>7, <1>8 DEF Place, Gone
<1>. HIDE DEF w
<1>11. IsCut(w[Gone + c])
  BY <1>4, <1>5
<1>12. ASSUME NEW i \in 1 .. Gone + c - 1 PROVE ~ IsCut(w[i])
    <2>1. CASE i =< Gone
      BY <1>8, <1>9, <2>1
    <2>2. CASE i > Gone
      <3>1. i - Gone \in 1 .. c - 1 /\ i - Gone \in 0 .. Len(Fresh) /\ Gone + (i - Gone) = i
        BY <1>4, <1>5, <1>6, <1>7, <1>8, <2>2
      <3>2. QED
        BY <1>4, <1>5, <3>1
    <2>3. QED
      BY <1>7, <1>8, <2>1, <2>2
<1>13. FindBoundary(NewChunker, rest) = Gone + c
    <2>. DEFINE b == FindBoundary(NewChunker, rest)
    <2>1. /\ b \in 0 .. Len(rest)
          /\ b = 0 <=> \A i \in 1 .. Len(rest) : ~ IsCut(w[i])
          /\ b # 0 => IsCut(w[b]) /\ \A i \in 1 .. b - 1 : ~ IsCut(w[i])
      BY <1>8, BoundaryIs DEF w
    <2>. HIDE DEF b, rest
    <2>2. b # 0 /\ IsCut(w[b]) /\ \A i \in 1 .. b - 1 : ~ IsCut(w[i])
      BY <1>10, <1>11, <2>1
    <2>3. ~ (b < Gone + c) /\ ~ (Gone + c < b)
      <3>1. ~ (b < Gone + c)
        BY <1>7, <1>8, <1>12, <2>1, <2>2
      <3>2. ~ (Gone + c < b)
        BY <1>7, <1>8, <1>11, <2>1, <2>2
      <3>3. QED
        BY <3>1, <3>2
    <2>4. b \in Nat /\ Gone + c \in Nat
      BY <1>7, <1>8, <2>1
    <2>5. QED
      BY <2>3, <2>4 DEF b
<1>14. /\ piece \in Seq(Byte) /\ Len(piece) = Gone + c
       /\ \A i \in 1 .. Gone + c : piece[i] = buf[start + i]
    <2>1. /\ piece \in Seq(Byte) /\ Len(piece) = scannedTo + c - start
          /\ \A i \in 1 .. scannedTo + c - start : piece[i] = buf[start + i]
      <3>1. start + 1 \in 1 .. Len(buf) + 1 /\ scannedTo + c \in start + 1 .. Len(buf)
        BY <1>6, <1>7
      <3>2. start + 1 \in 1 .. Len(buf) + 1 /\ scannedTo + c \in (start + 1) - 1 .. Len(buf)
        BY <1>6, <3>1
      <3>3. QED
        BY <1>6, <1>7, <3>2, SubSeqProperties
    <2>2. scannedTo + c - start = Gone + c
      BY <1>6, <1>7 DEF Gone
    <2>3. QED
      BY <2>1, <2>2
<1>15. piece = SubSeq(rest, 1, Gone + c)
    <2>1. /\ SubSeq(rest, 1, Gone + c) \in Seq(Byte) /\ Len(SubSeq(rest, 1, Gone + c)) = Gone + c
          /\ \A i \in 1 .. Gone + c : SubSeq(rest, 1, Gone + c)[i] = rest[i]
      <3>. HIDE DEF rest
      <3>1. QED
        BY <1>8, <1>10
    <2>2. ASSUME NEW i \in 1 .. Gone + c PROVE piece[i] = rest[i]
      <3>1. start + i \in 1 .. Len(buf) /\ i \in 1 .. Len(stream) - Place
        BY <1>6, <1>7, <1>8, <1>10 DEF Gone
      <3>2. buf[start + i] = stream[taken - Len(buf) + (start + i)]
        BY <1>2, <3>1 DEF Slicing
      <3>3. taken - Len(buf) + (start + i) = Place + i
        BY <1>6, <3>1 DEF Place
      <3>4. QED
        BY <1>8, <1>14, <3>1, <3>2, <3>3
    <2>. HIDE DEF piece, rest
    <2>3. QED
      BY <1>14, <2>1, <2>2, SeqEqual
<1>. HIDE DEF piece
<1>16. Place' = Place + Gone + c /\ Place' \in 0 .. Len(stream) /\ Gone' = 0
  BY <1>3, <1>6, <1>7 DEF Place, Gone
<1>17. Slices(stream)[Place] = <<piece>> \o Slices(stream)[Place']
    <2>1. Slices(stream)[Place] = SliceFrom(stream, Place, Slices(stream))
      BY <1>6, <1>8, SlicesAre
    <2>2. rest # <<>>
      <3>. HIDE DEF rest
      <3>1. QED
        BY <1>10
    <2>3. Gone + c # 0 /\ Place + (Gone + c) = Place'
      BY <1>7, <1>8, <1>16
    <2>4. QED
      BY <1>13, <1>15, <2>1, <2>2, <2>3 DEF SliceFrom
<1>18. chunks' \o Slices(stream)[Place'] = Slices(stream)[0]
    <2>1. Slices(stream)[Place'] \in Seq(Seq(Byte))
      BY <1>6, <1>16, SlicesTyped
    <2>2. <<piece>> \in Seq(Seq(Byte)) /\ Append(chunks, piece) = chunks \o <<piece>>
      BY <1>6, <1>14, AppendIsConcat
    <2>3. chunks \o (<<piece>> \o Slices(stream)[Place']) = Slices(stream)[0]
      BY <1>2, <1>3, <1>17 DEF Slicing
    <2>4. (chunks \o <<piece>>) \o Slices(stream)[Place']
            = chunks \o (<<piece>> \o Slices(stream)[Place'])
      <3>. DEFINE S == Seq(Byte)
                  later == Slices(stream)[Place']
                  one == <<piece>>
      <3>1. chunks \in Seq(S) /\ one \in Seq(S) /\ later \in Seq(S)
        BY <1>6, <2>1, <2>2
      <3>. HIDE DEF S, later, one
      <3>2. (chunks \o one) \o later = chunks \o (one \o later)
        BY <3>1, ConcatAssociative
      <3>3. QED
        BY <3>2 DEF later, one
    <2>5. QED
      BY <1>3, <2>2, <2>3, <2>4
<1>19. StreamTyped'
    <2>1. chunks' \in Seq(Seq(Byte))
      BY <1>3, <1>6, <1>14
    <2>2. start' \in Nat /\ scannedTo' \in start' .. Len(buf)
      BY <1>3, <1>6, <1>7
    <2>3. QED
      BY <1>2, <1>3, <2>1, <2>2 DEF StreamTyped
<1>20. Slicing'
    <2>1. Behind(stream', Place') \in Seq(Byte)
      BY <1>3, <1>6, <1>16, BehindIs
    <2>2. chunker' = Walk(NewChunker, Behind(stream', Place'))[Gone']
      BY <1>3, <1>16, <2>1, WalkIs
    <2>3. (\A i \in 1 .. Len(buf) : buf[i] = stream[taken - Len(buf) + i])'
      BY <1>2, <1>3 DEF Slicing
    <2>4. eof' => taken' = Len(stream')
      BY <1>2, <1>3 DEF Slicing
    <2>5. 1 .. Gone' = {}
      BY <1>16
    <2>6. QED
      BY <1>3, <1>18, <2>2, <2>3, <2>4, <2>5 DEF Slicing
<1>21. Len(piece) =< MAX_CHUNK /\ Len(piece) >= MIN_CHUNK
    <2>1. \A i \in 0 .. Len(rest) : w[i].count = i
      BY <1>8, WalkCounts DEF w
    <2>. HIDE DEF rest
    <2>2. w[Gone + c].count = Gone + c
      BY <1>10, <2>1
    <2>3. Gone + c >= MIN_CHUNK
      BY <1>7, <1>8, <1>11, <2>2, CutFacts
    <2>4. Gone + c =< MAX_CHUNK
      <3>1. CASE Gone + c = 1
        BY <3>1, StreamAssumption
      <3>2. CASE Gone + c # 1
        <4>1. Gone + c - 1 \in 1 .. Gone + c - 1 /\ Gone + c - 1 \in 0 .. Len(rest)
          BY <1>7, <1>8, <1>10, <3>2
        <4>2. w[Gone + c - 1].count = Gone + c - 1 /\ ~ IsCut(w[Gone + c - 1])
          BY <1>12, <2>1, <4>1
        <4>3. Gone + c - 1 < MAX_CHUNK
          BY <1>7, <1>8, <4>1, <4>2, CutFacts
        <4>4. QED
          BY <1>7, <1>8, <4>3, StreamAssumption
      <3>3. QED
        BY <3>1, <3>2
    <2>5. QED
      BY <1>14, <2>3, <2>4
<1>22. Sized'
    <2>1. /\ Len(chunks') = Len(chunks) + 1 /\ chunks'[Len(chunks) + 1] = piece
          /\ \A i \in 1 .. Len(chunks) : chunks'[i] = chunks[i]
          /\ Len(chunks) \in Nat
      BY <1>3, <1>6, <1>14, AppendProperties
    <2>2. \A i \in 1 .. Len(chunks) : Len(chunks[i]) =< MAX_CHUNK /\ Len(chunks[i]) >= MIN_CHUNK
      BY <1>2, <1>3 DEF Sized
    <2>3. \A i \in 1 .. Len(chunks') : Len(chunks'[i]) =< MAX_CHUNK /\ Len(chunks'[i]) >= MIN_CHUNK
      <3>1. \A i \in 1 .. Len(chunks') : i \in 1 .. Len(chunks) \/ i = Len(chunks) + 1
        BY <2>1
      <3>2. QED
        BY <1>21, <2>1, <2>2, <3>1
    <2>4. QED
      BY <2>3 DEF Sized
<1>23. QED
  BY <1>19, <1>20, <1>22 DEF StreamInv


LEMMA NoCutKeeps == StreamInv /\ NoCut => StreamInv'
<1>. DEFINE w == Walk(NewChunker, Behind(stream, Place))
<1>1. SUFFICES ASSUME StreamInv, NoCut PROVE StreamInv'
  OBVIOUS
<1>2. StreamTyped /\ Slicing /\ Sized
  BY <1>1 DEF StreamInv
<1>3. /\ spc = "loop" /\ FindBoundary(chunker, Fresh) = 0
      /\ chunker' = Walk(chunker, Fresh)[Len(Fresh)] /\ scannedTo' = Len(buf)
      /\ UNCHANGED <<stream, taken, buf, room, start, eof, chunks, spc>>
  BY <1>1 DEF NoCut, Fed
<1>4. /\ Fresh \in Seq(Byte) /\ Len(Fresh) = Len(buf) - scannedTo /\ Len(Fresh) \in Nat
      /\ \A i \in 0 .. Len(Fresh) : Walk(chunker, Fresh)[i] = w[Gone + i]
  BY <1>2, FreshIs
<1>5. /\ Len(buf) \in Nat /\ start \in Nat /\ scannedTo \in Nat
      /\ start =< scannedTo /\ scannedTo =< Len(buf)
  BY <1>2 DEF StreamTyped
<1>6. StreamTyped'
  BY <1>2, <1>3, <1>5 DEF StreamTyped
<1>7. Place' = Place /\ Gone' = Gone + Len(Fresh) /\ Gone \in Nat
  BY <1>3, <1>4, <1>5 DEF Place, Gone
<1>8. chunker' = w[Gone']
    <2>1. Len(Fresh) \in 0 .. Len(Fresh)
      BY <1>4
    <2>. HIDE DEF w
    <2>2. QED
      BY <1>3, <1>4, <1>7, <2>1
<1>9. \A i \in 1 .. Gone : ~ IsCut(w[i])
  BY <1>2 DEF Slicing
<1>10. \A i \in 1 .. Len(Fresh) : ~ IsCut(Walk(chunker, Fresh)[i])
  BY <1>3, <1>4, BoundaryIs
<1>. HIDE DEF w
<1>11. ASSUME NEW i \in 1 .. Gone' PROVE ~ IsCut(w[i])
    <2>1. CASE i =< Gone
      BY <1>7, <1>9, <2>1
    <2>2. CASE i > Gone
      <3>1. /\ i - Gone \in 1 .. Len(Fresh) /\ i - Gone \in 0 .. Len(Fresh)
            /\ Gone + (i - Gone) = i
        BY <1>4, <1>7, <2>2
      <3>2. QED
        BY <1>4, <1>10, <3>1
    <2>3. QED
      BY <1>7, <2>1, <2>2
<1>12. Slicing'
    <2>1. chunker' = Walk(NewChunker, Behind(stream', Place'))[Gone']
      BY <1>3, <1>7, <1>8 DEF w
    <2>2. \A i \in 1 .. Gone' : ~ IsCut(Walk(NewChunker, Behind(stream', Place'))[i])
      BY <1>3, <1>7, <1>11 DEF w
    <2>3. chunks' \o Slices(stream')[Place'] = Slices(stream')[0]
      BY <1>2, <1>3, <1>7 DEF Slicing
    <2>4. QED
      BY <1>2, <1>3, <2>1, <2>2, <2>3 DEF Slicing
<1>13. Sized'
  BY <1>2, <1>3 DEF Sized
<1>14. QED
  BY <1>6, <1>12, <1>13 DEF StreamInv

LEMMA ReadKeeps == StreamInv /\ ReadMore => StreamInv'
<1>. DEFINE left == Unconsumed
<1>1. SUFFICES ASSUME StreamInv, ReadMore PROVE StreamInv'
  OBVIOUS
<1>2. StreamTyped /\ Slicing /\ Sized
  BY <1>1 DEF StreamInv
<1>3. /\ spc = "loop" /\ Fresh = <<>> /\ ~ eof /\ start' = 0 /\ scannedTo' = Len(left)
      /\ room' = IF Len(left) = room THEN room + STREAM_BUF ELSE room
      /\ UNCHANGED <<stream, chunker, chunks, spc>>
  BY <1>1 DEF ReadMore
<1>4. /\ scannedTo = Len(buf) /\ Gone = Len(buf) - start
      /\ left \in Seq(Byte) /\ Len(left) = Gone
      /\ \A i \in 1 .. Gone : left[i] = stream[Place + i]
      /\ Len(left) < STREAM_BUF
  BY <1>2, <1>3, UnconsumedIs
<1>5. room' = STREAM_BUF /\ room = STREAM_BUF /\ STREAM_BUF \in Nat
    <2>1. room = STREAM_BUF /\ STREAM_BUF \in Nat /\ Len(left) \in Nat
      BY <1>2, <1>4, StreamAssumption DEF StreamTyped
    <2>2. QED
      BY <1>3, <1>4, <2>1
<1>6. /\ Len(stream) \in Nat /\ taken \in Nat /\ taken =< Len(stream) /\ Len(buf) \in Nat
      /\ Len(buf) =< taken /\ start \in Nat /\ scannedTo \in Nat
      /\ start =< scannedTo /\ scannedTo =< Len(buf) /\ buf \in Seq(Byte)
      /\ chunks \in Seq(Seq(Byte)) /\ stream \in Seq(Byte)
  BY <1>2 DEF StreamTyped
<1>7. Place = taken - Gone /\ Gone \in Nat /\ Gone =< taken
  BY <1>4, <1>6 DEF Place, Gone
<1>. HIDE DEF left
<1>8. ASSUME NEW n \in Nat, n =< Len(stream) - taken, taken' = taken + n,
             Len(left) + n =< room',
             buf' \in Seq(Byte), Len(buf') = Gone + n, eof' \in BOOLEAN,
             eof' => taken' = Len(stream),
             \A i \in 1 .. Gone + n : buf'[i] = stream[Place + i]
      PROVE  StreamInv'
    <2>1. Place' = Place /\ Gone' = Gone
      BY <1>3, <1>4, <1>6, <1>7, <1>8 DEF Place, Gone
    <2>2. StreamTyped'
      <3>1. taken' \in 0 .. Len(stream') /\ Len(buf') =< taken'
        BY <1>3, <1>6, <1>7, <1>8
      <3>2. start' \in Nat /\ scannedTo' \in start' .. Len(buf')
        BY <1>3, <1>4, <1>7, <1>8
      <3>3. room' = STREAM_BUF /\ Len(buf') =< room'
        BY <1>4, <1>5, <1>8
      <3>4. QED
        BY <1>3, <1>6, <1>8, <3>1, <3>2, <3>3 DEF StreamTyped
    <2>3. (\A i \in 1 .. Len(buf) : buf[i] = stream[taken - Len(buf) + i])'
      <3>1. taken' - Len(buf') = Place
        BY <1>6, <1>7, <1>8
      <3>2. QED
        BY <1>3, <1>8, <3>1
    <2>4. chunker' = Walk(NewChunker, Behind(stream', Place'))[Gone']
      BY <1>2, <1>3, <2>1 DEF Slicing
    <2>5. \A i \in 1 .. Gone' : ~ IsCut(Walk(NewChunker, Behind(stream', Place'))[i])
      BY <1>2, <1>3, <2>1 DEF Slicing
    <2>6. chunks' \o Slices(stream')[Place'] = Slices(stream')[0]
      BY <1>2, <1>3, <2>1 DEF Slicing
    <2>7. Slicing'
      BY <1>3, <1>8, <2>3, <2>4, <2>5, <2>6 DEF Slicing
    <2>8. Sized'
      BY <1>2, <1>3 DEF Sized
    <2>9. QED
      BY <2>2, <2>7, <2>8 DEF StreamInv
<1>9. CASE taken = Len(stream)
    <2>1. eof' = TRUE /\ buf' = left /\ taken' = taken
      BY <1>1, <1>9 DEF ReadMore, left
    <2>2. 0 \in Nat /\ 0 =< Len(stream) - taken /\ taken' = taken + 0 /\ Len(left) + 0 =< room'
      BY <1>4, <1>5, <1>6, <1>7, <1>9, <2>1
    <2>3. Gone + 0 = Gone /\ \A i \in 1 .. Gone : buf'[i] = stream[Place + i]
      BY <1>4, <1>7, <2>1
    <2>4. QED
      BY <1>4, <1>8, <1>9, <2>1, <2>2, <2>3
<1>10. CASE taken # Len(stream)
    <2>1. PICK n \in 1 .. Len(stream) - taken :
              /\ Len(left) + n =< room'
              /\ buf' = left \o SubSeq(stream, taken + 1, taken + n)
              /\ taken' = taken + n /\ UNCHANGED eof
      BY <1>1, <1>10 DEF ReadMore, left
    <2>. DEFINE read == SubSeq(stream, taken + 1, taken + n)
    <2>2. /\ read \in Seq(Byte) /\ Len(read) = n
          /\ \A i \in 1 .. n : read[i] = stream[taken + i]
      <3>1. taken + 1 \in 1 .. Len(stream) + 1 /\ taken + n \in (taken + 1) - 1 .. Len(stream)
        BY <1>6
      <3>2. (taken + n) - (taken + 1) + 1 = n /\ \A i \in 1 .. n : (taken + 1) + i - 1 = taken + i
        BY <1>6
      <3>3. QED
        BY <1>6, <3>1, <3>2, SubSeqProperties
    <2>. HIDE DEF read
    <2>3. buf' = left \o read
      BY <2>1 DEF read
    <2>4. /\ buf' \in Seq(Byte) /\ Len(buf') = Gone + n
          /\ \A i \in 1 .. Gone + n : buf'[i] = IF i =< Gone THEN left[i] ELSE read[i - Gone]
      <3>. DEFINE both == left \o read
      <3>1. /\ both \in Seq(Byte) /\ Len(both) = Len(left) + Len(read)
            /\ \A i \in 1 .. Len(left) + Len(read) :
                   both[i] = IF i <= Len(left) THEN left[i] ELSE read[i - Len(left)]
        BY <1>4, <2>2, ConcatProperties
      <3>. HIDE DEF both
      <3>2. QED
        BY <1>4, <2>2, <2>3, <3>1 DEF both
    <2>5. ASSUME NEW i \in 1 .. Gone + n PROVE buf'[i] = stream[Place + i]
      <3>1. CASE i =< Gone
        <4>1. i \in 1 .. Gone
          BY <1>7, <3>1
        <4>2. QED
          BY <1>4, <2>4, <3>1, <4>1
      <3>2. CASE ~ (i =< Gone)
        <4>1. i - Gone \in 1 .. n /\ taken + (i - Gone) = Place + i
          BY <1>6, <1>7, <3>2
        <4>2. QED
          BY <2>2, <2>4, <3>2, <4>1
      <3>3. QED
        BY <3>1, <3>2
    <2>6. n \in Nat /\ n =< Len(stream) - taken /\ ~ eof'
      BY <1>3, <1>6, <2>1
    <2>7. eof' \in BOOLEAN
      BY <1>2, <2>1 DEF StreamTyped
    <2>8. QED
      BY <1>8, <2>1, <2>4, <2>5, <2>6, <2>7
<1>11. QED
  BY <1>9, <1>10

LEMMA EndKeeps == StreamInv /\ EndStream => StreamInv'
<1>. DEFINE rest == Behind(stream, Place)
<1>1. SUFFICES ASSUME StreamInv, EndStream PROVE StreamInv'
  OBVIOUS
<1>2. StreamTyped /\ Slicing /\ Sized
  BY <1>1 DEF StreamInv
<1>3. /\ spc = "loop" /\ Fresh = <<>> /\ eof /\ spc' = "done"
      /\ chunks' = IF start < Len(buf) THEN Append(chunks, Unconsumed) ELSE chunks
      /\ UNCHANGED <<stream, taken, buf, room, start, scannedTo, chunker, eof>>
  BY <1>1 DEF EndStream
<1>4. /\ scannedTo = Len(buf) /\ Gone = Len(buf) - start
      /\ Unconsumed \in Seq(Byte) /\ Len(Unconsumed) = Gone
      /\ \A i \in 1 .. Gone : Unconsumed[i] = stream[Place + i]
  BY <1>2, <1>3, UnconsumedIs
<1>5. /\ Len(stream) \in Nat /\ taken = Len(stream) /\ Len(buf) \in Nat
      /\ start \in Nat /\ start =< Len(buf)
      /\ chunks \in Seq(Seq(Byte)) /\ stream \in Seq(Byte)
  BY <1>2, <1>3 DEF StreamTyped, Slicing
<1>6. /\ rest \in Seq(Byte) /\ Len(rest) = Len(stream) - Place /\ Place \in 0 .. Len(stream)
      /\ \A i \in 1 .. Len(stream) - Place : rest[i] = stream[Place + i]
  BY <1>2, PlaceIs
<1>7. Len(stream) - Place = Gone /\ Gone \in Nat
  BY <1>4, <1>5 DEF Place
<1>8. Unconsumed = rest
    <2>. HIDE DEF rest
    <2>1. Len(rest) = Gone /\ \A i \in 1 .. Gone : Unconsumed[i] = rest[i]
      BY <1>4, <1>6, <1>7
    <2>2. QED
      BY <1>4, <1>6, <2>1, SeqEqual
<1>9. Slices(stream)[Place] = SliceFrom(stream, Place, Slices(stream))
  BY <1>5, <1>6, SlicesAre
<1>10. FindBoundary(NewChunker, rest) = 0
    <2>1. \A i \in 1 .. Len(rest) : ~ IsCut(Walk(NewChunker, rest)[i])
      BY <1>2, <1>6, <1>7 DEF Slicing
    <2>2. QED
      BY <1>6, <2>1, BoundaryIs
<1>11. chunks \o Slices(stream)[Place] = Slices(stream)[0]
  BY <1>2, <1>3 DEF Slicing
<1>12. chunks' = Slices(stream)[0]
    <2>1. CASE start < Len(buf)
      <3>1. rest # <<>>
        <4>. HIDE DEF rest
        <4>1. QED
          BY <1>4, <1>5, <1>6, <1>7, <2>1
      <3>2. Slices(stream)[Place] = <<rest>>
        BY <1>9, <1>10, <3>1 DEF SliceFrom
      <3>3. Append(chunks, rest) = chunks \o <<rest>>
        BY <1>5, <1>6, AppendIsConcat
      <3>4. QED
        BY <1>3, <1>8, <1>11, <2>1, <3>2, <3>3
    <2>2. CASE ~ (start < Len(buf))
      <3>1. Len(rest) = 0
        BY <1>4, <1>5, <1>6, <1>7, <2>2
      <3>2. rest = <<>>
        <4>. HIDE DEF rest
        <4>1. QED
          BY <1>6, <3>1, EmptySeq
      <3>3. Slices(stream)[Place] = <<>>
        BY <1>9, <3>2 DEF SliceFrom
      <3>4. chunks \o <<>> = chunks
        BY <1>5, ConcatEmptySeq
      <3>5. QED
        BY <1>3, <1>11, <2>2, <3>3, <3>4
    <2>3. QED
      BY <2>1, <2>2
<1>13. StreamTyped'
    <2>1. chunks' \in Seq(Seq(Byte))
      BY <1>3, <1>4, <1>5
    <2>2. QED
      BY <1>2, <1>3, <2>1 DEF StreamTyped
<1>14. Place' = Place /\ Gone' = Gone
  BY <1>3 DEF Place, Gone
<1>15. Slicing'
    <2>1. chunker' = Walk(NewChunker, Behind(stream', Place'))[Gone']
      BY <1>2, <1>3, <1>14 DEF Slicing
    <2>2. \A i \in 1 .. Gone' : ~ IsCut(Walk(NewChunker, Behind(stream', Place'))[i])
      BY <1>2, <1>3, <1>14 DEF Slicing
    <2>3. (\A i \in 1 .. Len(buf) : buf[i] = stream[taken - Len(buf) + i])'
      BY <1>2, <1>3 DEF Slicing
    <2>4. QED
      BY <1>3, <1>5, <1>12, <2>1, <2>2, <2>3 DEF Slicing
<1>16. \A i \in 1 .. Len(chunks) : Len(chunks[i]) =< MAX_CHUNK /\ Len(chunks[i]) >= MIN_CHUNK
  BY <1>2, <1>3 DEF Sized
<1>17. Sized'
    <2>1. CASE start < Len(buf)
      <3>1. /\ Len(chunks') = Len(chunks) + 1 /\ chunks'[Len(chunks) + 1] = Unconsumed
            /\ \A i \in 1 .. Len(chunks) : chunks'[i] = chunks[i]
            /\ Len(chunks) \in Nat
        BY <1>3, <1>4, <1>5, <2>1, AppendProperties
      <3>2. Len(Unconsumed) =< MAX_CHUNK
        BY <1>2, <1>4, <1>7, GoneIsBounded, StreamAssumption
      <3>3. ASSUME NEW i \in 1 .. Len(chunks')
            PROVE  /\ Len(chunks'[i]) =< MAX_CHUNK
                   /\ i < Len(chunks') => Len(chunks'[i]) >= MIN_CHUNK
        <4>1. CASE i \in 1 .. Len(chunks)
          BY <1>16, <3>1, <4>1
        <4>2. CASE i = Len(chunks')
          BY <3>1, <3>2, <4>2
        <4>3. QED
          BY <3>1, <4>1, <4>2
      <3>4. QED
        BY <1>3, <3>3 DEF Sized
    <2>2. CASE ~ (start < Len(buf))
      BY <1>3, <1>16, <2>2 DEF Sized
    <2>3. QED
      BY <2>1, <2>2
<1>18. QED
  BY <1>13, <1>15, <1>17 DEF StreamInv

LEMMA StreamRests == StreamInv /\ UNCHANGED streamVars => StreamInv'
<1>1. SUFFICES ASSUME StreamInv, UNCHANGED streamVars PROVE StreamInv'
  OBVIOUS
<1>2. UNCHANGED <<stream, taken, buf, room, start, scannedTo, chunker, eof, chunks, spc>>
  BY <1>1 DEF streamVars
<1>3. Place' = Place /\ Gone' = Gone
  BY <1>2 DEF Place, Gone
<1>4. StreamTyped' /\ Sized'
  BY <1>1, <1>2 DEF StreamInv, StreamTyped, Sized
<1>5. Slicing'
  BY <1>1, <1>2, <1>3 DEF StreamInv, Slicing
<1>6. QED
  BY <1>4, <1>5 DEF StreamInv

LEMMA StreamHolds == StreamSpec => []StreamInv
<1>1. StreamInv /\ [StreamNext]_streamVars => StreamInv'
  BY OpenKeeps, CutKeeps, NoCutKeeps, ReadKeeps, EndKeeps, StreamRests DEF StreamNext
<1>2. QED
  BY <1>1, StreamStarts, PTL DEF StreamSpec

LEMMA StreamInvTyped == StreamInv => StreamTypeOK
<1>1. SUFFICES ASSUME StreamInv PROVE StreamTypeOK
  OBVIOUS
<1>2. StreamTyped /\ Slicing
  BY <1>1 DEF StreamInv
<1>3. chunker \in [hash : 0 .. 2 ^ HASH_BITS - 1, count : 0 .. MAX_CHUNK]
    <2>. DEFINE H == 0 .. 2 ^ HASH_BITS - 1
    <2>1. /\ chunker \in [hash : H, count : {Gone}] /\ Gone \in 0 .. MAX_CHUNK
      BY <1>2, PlaceIs, GoneIsBounded, StreamAssumption
    <2>. HIDE DEF H
    <2>2. chunker \in [hash : H, count : 0 .. MAX_CHUNK]
      BY <2>1
    <2>3. QED
      BY <2>2 DEF H
<1>4. start =< scannedTo /\ scannedTo =< Len(buf)
  BY <1>2 DEF StreamTyped
<1>5. QED
  BY <1>2, <1>3, <1>4 DEF StreamTyped, StreamTypeOK

\* chunk_reader: every variable keeps its type, however the reads divide the file;
\* the count of the chunker never passes the ceiling.
THEOREM StreamsTyped == StreamSpec => []StreamTypeOK
<1>1. QED
  BY StreamHolds, StreamInvTyped, PTL

\* chunk_reader emits the chunks that chunk_slices makes of the same bytes, in order
\* and all of them, however the reads divide the file, and never grows its buffer;
\* every chunk is below the ceiling and all but the last are above the floor.
THEOREM StreamsAreSliced == StreamSpec => []StreamedIsSliced
<1>1. StreamInv => StreamedIsSliced
    <2>1. SUFFICES ASSUME StreamInv PROVE StreamedIsSliced
      OBVIOUS
    <2>. DEFINE sliced == ChunkSlices(stream)
    <2>2. StreamTyped /\ Slicing /\ Sized /\ sliced = Slices(stream)[0]
      BY <2>1 DEF StreamInv, ChunkSlices
    <2>3. /\ chunks \in Seq(Seq(Byte)) /\ stream \in Seq(Byte) /\ Len(stream) \in Nat
          /\ Place \in 0 .. Len(stream)
      BY <2>2, PlaceIs DEF StreamTyped
    <2>4. spc = "done" => chunks = sliced
      BY <2>2 DEF Slicing
    <2>5. Len(chunks) =< Len(sliced) /\ chunks = SubSeq(sliced, 1, Len(chunks))
      <3>1. CASE spc = "done"
        <4>1. SubSeq(chunks, 1, Len(chunks)) = chunks
          BY <2>3, SubSeqFull
        <4>. HIDE DEF sliced
        <4>2. QED
          BY <2>3, <2>4, <3>1, <4>1
      <3>2. CASE spc # "done"
        <4>. DEFINE S == Seq(Byte)
                    later == Slices(stream)[Place]
        <4>1. later \in Seq(S) /\ chunks \in Seq(S)
          BY <2>3, SlicesTyped
        <4>2. sliced = chunks \o later
          BY <2>2, <3>2 DEF Slicing
        <4>. HIDE DEF sliced, S, later
        <4>3. /\ sliced \in Seq(S) /\ Len(sliced) = Len(chunks) + Len(later)
              /\ Len(chunks) \in Nat /\ Len(later) \in Nat
          BY <4>1, <4>2, ConcatProperties
        <4>4. SubSeq(sliced, 1, Len(chunks)) = chunks
          BY <4>1, <4>2, ConcatEmptySeq, SubSeqOfConcat1, SubSeqFull
        <4>5. QED
          BY <4>3, <4>4
      <3>3. QED
        BY <3>1, <3>2
    <2>6. \A i \in DOMAIN chunks : /\ Len(chunks[i]) =< MAX_CHUNK
                                   /\ i < Len(chunks) => Len(chunks[i]) >= MIN_CHUNK
      BY <2>2, <2>3 DEF Sized
    <2>7. room = STREAM_BUF
      BY <2>2 DEF StreamTyped
    <2>8. QED
      BY <2>4, <2>5, <2>6, <2>7 DEF StreamedIsSliced
<1>2. QED
  BY <1>1, StreamHolds, PTL

=============================================================================
