------------------------ MODULE TransferPartsProofs ------------------------
(***************************************************************************)
(* Theorems about resumable uploads, the files of the object store and the *)
(* ledger of the phone's backup, for files, chunks and photos of any size  *)
(* and number, and any number of writers, runs, kills and lost connections; *)
(* and about MCTransferParts, these beside the client and the chunker.     *)
(***************************************************************************)
EXTENDS MCTransferParts, GuiWorkerProofs, StreamChunksProofs

-----------------------------------------------------------------------------
(***************************************************************************)
(* Uploads.                                                                *)
(***************************************************************************)
Steps == {"idle", "create", "chunk", "append", "record", "publish", "forget", "unlink"}

Rows == {NoRow} \cup Nat

UploadsTyped ==
    /\ received \in Rows /\ offset \in Nat
    /\ part \in [there : BOOLEAN, bytes : Seq(Nat)]
    /\ upc \in [Handlers -> Steps] /\ from \in [Handlers -> 0 .. Size]
    /\ held \in [Handlers -> Seq(Nat)] /\ published \in Seq(Seq(Nat))
    /\ asked \in Handlers /\ hasty \in BOOLEAN

\* The first bytes of the file, once each and in order.
FirstBytes(b) == Len(b) =< Size /\ \A i \in 1 .. Len(b) : b[i] = i

\* What a handler knows of the row and the part file from its earlier steps.
Knows(h) ==
    /\ upc[h] = "create" => received = 0
    /\ upc[h] \in {"chunk", "append", "record"} => received = from[h]
    /\ upc[h] = "append" => part.there /\ Len(part.bytes) = from[h]
    /\ upc[h] = "record" => Len(part.bytes) = from[h] + NewBytes(h)
    /\ upc[h] = "publish" => held[h] = Whole
    /\ upc[h] = "unlink" => received = NoRow

\* No request of the client's is at work.
Quiet == {"start", "send", "done"}

\* While the client goes on only when its last request is over, one handler is at
\* work, and none when the client makes a request; so what it knows stays true.
OneAtWork == ~hasty =>
    /\ phase \in Quiet => HandlersIdle
    /\ \A g, h \in Handlers : upc[g] # "idle" /\ upc[h] # "idle" => g = h
    /\ FirstBytes(part.bytes) /\ received =< Len(part.bytes)
    /\ \A h \in Handlers : Knows(h)
    /\ \A i \in 1 .. Len(published) : published[i] = Whole

UploadsInv == UploadsTyped /\ OneAtWork

-----------------------------------------------------------------------------
(***************************************************************************)
(* The file, its prefixes and its chunks.                                  *)
(***************************************************************************)
LEMMA WholeFacts == Whole \in Seq(Nat) /\ Len(Whole) = Size /\ \A i \in 1 .. Size : Whole[i] = i
  BY UploadsAssumption DEF Whole

LEMMA ChunkFacts ==
    ASSUME NEW o \in 0 .. Size
    PROVE  /\ ChunkAt(o) \in Seq(Nat) /\ o + Len(ChunkAt(o)) =< Size
           /\ \A i \in 1 .. Len(ChunkAt(o)) : ChunkAt(o)[i] = o + i
<1>. DEFINE e == IF o + ChunkBytes < Size THEN o + ChunkBytes ELSE Size
<1>1. o \in Nat /\ e \in Nat /\ o =< e /\ e =< Size
  BY UploadsAssumption
<1>2. o + 1 \in Int /\ e \in Int /\ \A i \in o + 1 .. e : Whole[i] \in Nat
  BY <1>1, WholeFacts
<1>3. ChunkAt(o) = SubSeq(Whole, o + 1, e)
  BY DEF ChunkAt
<1>. HIDE DEF e
<1>4. /\ SubSeq(Whole, o + 1, e) \in Seq(Nat)
      /\ Len(SubSeq(Whole, o + 1, e)) = IF o + 1 <= e THEN e - (o + 1) + 1 ELSE 0
      /\ \A i \in 1 .. e - (o + 1) + 1 : SubSeq(Whole, o + 1, e)[i] = Whole[o + 1 + i - 1]
  BY <1>2, SubSeqProperties
<1>5. Len(ChunkAt(o)) = e - o
  BY <1>1, <1>3, <1>4
<1>6. \A i \in 1 .. e - o : ChunkAt(o)[i] = o + i
  BY <1>1, <1>3, <1>4, WholeFacts, UploadsAssumption
<1>7. ChunkAt(o) \in Seq(Nat)
  BY <1>3, <1>4
<1>8. o + Len(ChunkAt(o)) =< Size
  BY <1>1, <1>5, UploadsAssumption
<1>9. \A i \in 1 .. Len(ChunkAt(o)) : ChunkAt(o)[i] = o + i
  BY <1>5, <1>6
<1>10. QED
  BY <1>7, <1>8, <1>9

LEMMA ChunkLength == \A o \in 0 .. Size : Len(ChunkAt(o)) \in Nat
<1>. SUFFICES ASSUME NEW o \in 0 .. Size PROVE Len(ChunkAt(o)) \in Nat
  OBVIOUS
<1>1. ChunkAt(o) \in Seq(Nat)
  BY ChunkFacts
<1>2. QED
  BY <1>1

\* A piece of the file at its place makes a longer piece of the file.
LEMMA Longer ==
    ASSUME NEW b \in Seq(Nat), FirstBytes(b), NEW c \in Seq(Nat), Len(b) + Len(c) =< Size,
           \A i \in 1 .. Len(c) : c[i] = Len(b) + i
    PROVE  b \o c \in Seq(Nat) /\ FirstBytes(b \o c) /\ Len(b \o c) = Len(b) + Len(c)
<1>1. /\ b \o c \in Seq(Nat) /\ Len(b \o c) = Len(b) + Len(c)
      /\ \A i \in 1 .. Len(b) + Len(c) : (b \o c)[i] = IF i <= Len(b) THEN b[i] ELSE c[i - Len(b)]
  BY ConcatProperties
<1>2. \A i \in 1 .. Len(b) + Len(c) : (b \o c)[i] = i
  <2>. SUFFICES ASSUME NEW i \in 1 .. Len(b) + Len(c) PROVE (b \o c)[i] = i
    OBVIOUS
  <2>1. Len(b) \in Nat /\ Len(c) \in Nat
    OBVIOUS
  <2>2. CASE i <= Len(b)
    BY <1>1, <2>1, <2>2 DEF FirstBytes
  <2>3. CASE ~(i <= Len(b))
    <3>1. i - Len(b) \in 1 .. Len(c)
      BY <2>1, <2>3
    <3>2. QED
      BY <1>1, <2>1, <2>3, <3>1
  <2>4. QED
    BY <2>2, <2>3
<1>3. QED
  BY <1>1, <1>2 DEF FirstBytes

LEMMA FullIsWhole ==
    ASSUME NEW b \in Seq(Nat), FirstBytes(b), Len(b) = Size
    PROVE  b = Whole
<1>1. \A i \in 1 .. Len(b) : b[i] = Whole[i]
  BY WholeFacts DEF FirstBytes
<1>2. QED
  BY <1>1, WholeFacts, SeqEqual

-----------------------------------------------------------------------------
LEMMA UploadsInitInv == UploadsInit => UploadsInv
<1>. SUFFICES ASSUME UploadsInit PROVE UploadsInv
  OBVIOUS
<1>1. /\ received = NoRow /\ part.bytes = <<>> /\ part \in [there : BOOLEAN, bytes : Seq(Nat)]
      /\ offset = 0 /\ phase = "start" /\ published = <<>> /\ hasty = FALSE
      /\ NoRow = -1 /\ asked \in Handlers
  BY DEF UploadsInit, NoPart, NoRow, Handlers
<1>2. \A h \in Handlers : upc[h] = "idle"
  BY DEF UploadsInit
<1>3. UploadsTyped
  <2>1. upc \in [Handlers -> Steps] /\ held \in [Handlers -> Seq(Nat)]
    BY DEF UploadsInit, Steps
  <2>2. from \in [Handlers -> 0 .. Size]
    BY UploadsAssumption DEF UploadsInit
  <2>3. published \in Seq(Seq(Nat)) /\ offset \in Nat /\ received \in Rows /\ hasty \in BOOLEAN
    <3>1. published \in Seq(Seq(Nat))
      BY <1>1, EmptySeq
    <3>2. QED
      BY <1>1, <3>1 DEF Rows
  <2>4. QED
    BY <1>1, <2>1, <2>2, <2>3 DEF UploadsTyped
<1>4. FirstBytes(part.bytes) /\ received =< Len(part.bytes)
  BY <1>1, UploadsAssumption DEF FirstBytes
<1>5. (\A h \in Handlers : Knows(h)) /\ HandlersIdle
  BY <1>2 DEF Knows, HandlersIdle
<1>6. OneAtWork
  BY <1>1, <1>2, <1>4, <1>5 DEF OneAtWork
<1>7. QED
  BY <1>3, <1>6 DEF UploadsInv

\* One handler takes a step.
LEMMA GoFacts ==
    ASSUME UploadsTyped, NEW h \in Handlers, NEW s \in Steps, HandlerGo(h, s)
    PROVE  /\ upc' \in [Handlers -> Steps] /\ upc'[h] = s
           /\ \A g \in Handlers : g # h => upc'[g] = upc[g]
  BY DEF HandlerGo, UploadsTyped

LEMMA AnswerFacts ==
    ASSUME UploadsTyped, NEW h \in Handlers, NEW s, NEW o \in Nat, Answer(h, s, o)
    PROVE  /\ upc' \in [Handlers -> Steps] /\ upc'[h] = "idle" /\ offset' \in Nat
           /\ \A g \in Handlers : g # h => upc'[g] = upc[g]
<1>1. HandlerGo(h, "idle") /\ "idle" \in Steps
  BY DEF Answer, Steps
<1>2. offset' \in Nat
  BY DEF Answer, Client, UploadsTyped
<1>3. QED
  BY <1>1, <1>2, GoFacts

\* The state of the row and the part file stays, and one handler comes to a step
\* at which it knows what it should: from the client, or from its step before.
LEMMA CalmStep ==
    ASSUME UploadsInv, NEW h \in Handlers, NEW s \in Steps,
           HandlerGo(h, s), phase' \notin Quiet \/ s = "idle",
           phase \in Quiet \/ upc[h] # "idle",
           UNCHANGED <<received, part, published, hasty>>,
           \A g \in Handlers : g # h => from'[g] = from[g] /\ held'[g] = held[g],
           ~hasty => Knows(h)'
    PROVE  OneAtWork'
<1>. SUFFICES ASSUME ~hasty PROVE OneAtWork'
  BY DEF OneAtWork
<1>1. \A g \in Handlers : g # h => upc'[g] = upc[g] /\ upc[g] = "idle"
  BY GoFacts DEF UploadsInv, OneAtWork, HandlersIdle
<1>2. upc'[h] = s
  BY GoFacts DEF UploadsInv
<1>3. phase' \in Quiet => HandlersIdle'
  BY <1>1, <1>2 DEF HandlersIdle
<1>4. \A f, g \in Handlers : upc'[f] # "idle" /\ upc'[g] # "idle" => f = g
  BY <1>1
<1>5. \A g \in Handlers : Knows(g)'
  BY <1>1 DEF Knows
<1>6. QED
  BY <1>3, <1>4, <1>5 DEF UploadsInv, OneAtWork

\* The handler at work is the only one.
LEMMA OnlyOne ==
    ASSUME UploadsInv, ~hasty, NEW h \in Handlers, upc[h] # "idle"
    PROVE  /\ \A g \in Handlers : g # h => upc[g] = "idle"
           /\ phase \notin Quiet /\ Knows(h)
           /\ FirstBytes(part.bytes) /\ received =< Len(part.bytes)
           /\ \A i \in 1 .. Len(published) : published[i] = Whole
  BY DEF UploadsInv, OneAtWork, HandlersIdle

\* A handler alone that changes the row, the file or what is published.
LEMMA CalmAlone ==
    ASSUME UploadsInv, NEW h \in Handlers, upc[h] # "idle", UNCHANGED hasty,
           \A g \in Handlers : g # h => upc'[g] = upc[g],
           UNCHANGED phase \/ upc'[h] = "idle",
           ~hasty => /\ FirstBytes(part.bytes)' /\ received' =< Len(part.bytes)'
                     /\ Knows(h)'
                     /\ \A i \in 1 .. Len(published') : published'[i] = Whole
    PROVE  OneAtWork'
<1>. SUFFICES ASSUME ~hasty PROVE OneAtWork'
  BY DEF OneAtWork
<1>1. \A g \in Handlers : g # h => upc'[g] = "idle"
  BY OnlyOne
<1>2. /\ phase' \in Quiet => HandlersIdle'
      /\ \A f, g \in Handlers : upc'[f] # "idle" /\ upc'[g] # "idle" => f = g
  BY <1>1, OnlyOne DEF HandlersIdle
<1>3. \A g \in Handlers : Knows(g)'
  BY <1>1 DEF Knows
<1>4. QED
  BY <1>2, <1>3 DEF OneAtWork

-----------------------------------------------------------------------------
LEMMA StartInv ==
    ASSUME UploadsInv, Start
    PROVE  UploadsInv'
<1>1. PICK h \in Handlers :
        /\ HandlersIdle /\ received' = 0 /\ part' = NoPart
        /\ HandlerGo(h, "create") /\ phase' = "wait" /\ offset' = 0 /\ asked' = h
        /\ UNCHANGED <<from, held, published, hasty>>
  BY DEF Start, Client
<1>2. /\ upc' \in [Handlers -> Steps] /\ upc'[h] = "create"
      /\ \A g \in Handlers : g # h => upc'[g] = upc[g] /\ upc[g] = "idle"
  BY <1>1, GoFacts DEF UploadsInv, HandlersIdle, Steps
<1>3. part'.bytes = <<>> /\ part' \in [there : BOOLEAN, bytes : Seq(Nat)]
  BY <1>1 DEF NoPart
<1>4. UploadsTyped'
  BY <1>1, <1>2, <1>3 DEF UploadsInv, UploadsTyped, Rows
<1>5. OneAtWork'
  <2>. SUFFICES ASSUME ~hasty PROVE OneAtWork'
    BY <1>1 DEF OneAtWork
  <2>1. FirstBytes(part.bytes)' /\ received' =< Len(part.bytes)'
    BY <1>1, <1>3, UploadsAssumption DEF FirstBytes
  <2>2. \A g \in Handlers : Knows(g)'
    BY <1>1, <1>2 DEF Knows
  <2>3. \A f, g \in Handlers : upc'[f] # "idle" /\ upc'[g] # "idle" => f = g
    BY <1>2
  <2>4. \A i \in 1 .. Len(published') : published'[i] = Whole
    BY <1>1 DEF UploadsInv, OneAtWork
  <2>5. phase' \notin Quiet
    BY <1>1 DEF Quiet
  <2>6. QED
    BY <2>1, <2>2, <2>3, <2>4, <2>5 DEF OneAtWork
<1>6. QED
  BY <1>4, <1>5 DEF UploadsInv

LEMMA CreatePartInv ==
    ASSUME UploadsInv, NEW h \in Handlers, CreatePart(h)
    PROVE  UploadsInv'
<1>1. /\ upc[h] = "create" /\ part' = [there |-> TRUE, bytes |-> <<>>]
      /\ Answer(h, "send", 0)
      /\ UNCHANGED <<received, from, held, asked, published, hasty>>
  BY DEF CreatePart
<1>2. /\ upc' \in [Handlers -> Steps] /\ upc'[h] = "idle" /\ offset' \in Nat
      /\ \A g \in Handlers : g # h => upc'[g] = upc[g]
  BY <1>1, AnswerFacts DEF UploadsInv
<1>3. part'.bytes = <<>> /\ part' \in [there : BOOLEAN, bytes : Seq(Nat)]
  BY <1>1
<1>4. UploadsTyped'
  BY <1>1, <1>2, <1>3 DEF UploadsInv, UploadsTyped
<1>5. ~hasty => /\ FirstBytes(part.bytes)' /\ received' =< Len(part.bytes)'
                /\ Knows(h)' /\ \A i \in 1 .. Len(published') : published'[i] = Whole
  BY <1>1, <1>2, <1>3, OnlyOne, UploadsAssumption DEF FirstBytes, Knows
<1>6. QED
  BY <1>1, <1>2, <1>4, <1>5, CalmAlone DEF UploadsInv

LEMMA SendChunkInv ==
    ASSUME UploadsInv, NEW h \in Handlers, SendChunk(h)
    PROVE  UploadsInv'
<1>1. /\ phase = "send" /\ phase \in Quiet /\ offset < Size /\ upc[h] = "idle" /\ asked' = h
      /\ UNCHANGED <<received, part, held, published, hasty>>
  BY DEF SendChunk, Quiet
<1>2. CASE received # offset
  <2>1. UNCHANGED <<upc, from>> /\ offset' \in Nat
    BY <1>2 DEF SendChunk, Client, UploadsInv, UploadsTyped
  <2>2. UploadsTyped'
    BY <1>1, <2>1 DEF UploadsInv, UploadsTyped
  <2>3. OneAtWork'
    BY <1>1, <2>1 DEF UploadsInv, OneAtWork, HandlersIdle, Knows, NewBytes
  <2>4. QED
    BY <2>2, <2>3 DEF UploadsInv
<1>3. CASE received = offset
  <2>1. /\ HandlerGo(h, "chunk") /\ phase' = "wait" /\ phase' \notin Quiet /\ offset' = offset
        /\ from' = [from EXCEPT ![h] = offset]
    BY <1>3 DEF SendChunk, Client, Quiet
  <2>2. upc' \in [Handlers -> Steps] /\ upc'[h] = "chunk" /\ "chunk" \in Steps
    BY <2>1, GoFacts DEF UploadsInv, Steps
  <2>3. offset \in 0 .. Size
    BY <1>1, UploadsAssumption DEF UploadsInv, UploadsTyped
  <2>4. UploadsTyped' /\ from'[h] = offset /\ \A g \in Handlers : g # h => from'[g] = from[g]
    BY <1>1, <2>1, <2>2, <2>3 DEF UploadsInv, UploadsTyped
  <2>5. Knows(h)'
    BY <1>1, <1>3, <2>2, <2>4 DEF Knows
  <2>6. OneAtWork'
    BY <1>1, <2>1, <2>2, <2>4, <2>5, CalmStep
  <2>7. QED
    BY <2>4, <2>6 DEF UploadsInv
<1>4. QED
  BY <1>2, <1>3

LEMMA CheckLengthInv ==
    ASSUME UploadsInv, NEW h \in Handlers, CheckLength(h)
    PROVE  UploadsInv'
<1>1. upc[h] = "chunk" /\ UNCHANGED <<received, part, from, held, asked, published, hasty>>
  BY DEF CheckLength
<1>2. CASE LinesUp(h)
  <2>1. HandlerGo(h, "append") /\ UNCHANGED <<offset, phase>> /\ "append" \in Steps
    BY <1>2 DEF CheckLength, Steps
  <2>2. upc' \in [Handlers -> Steps] /\ upc'[h] = "append"
    BY <2>1, GoFacts DEF UploadsInv
  <2>3. UploadsTyped'
    BY <1>1, <2>1, <2>2 DEF UploadsInv, UploadsTyped
  <2>4. ~hasty => Knows(h)' /\ phase' \notin Quiet
    BY <1>1, <1>2, <2>1, <2>2, OnlyOne DEF Knows, LinesUp
  <2>5. OneAtWork'
    <3>1. CASE hasty
      BY <1>1, <3>1 DEF OneAtWork
    <3>2. CASE ~hasty
      BY <1>1, <2>1, <2>4, <3>2, CalmStep
    <3>3. QED
      BY <3>1, <3>2
  <2>6. QED
    BY <2>3, <2>5 DEF UploadsInv
<1>3. CASE ~LinesUp(h)
  <2>1. Answer(h, "failed", offset)
    BY <1>3 DEF CheckLength
  <2>2. offset \in Nat
    BY DEF UploadsInv, UploadsTyped
  <2>3. /\ upc' \in [Handlers -> Steps] /\ upc'[h] = "idle" /\ offset' \in Nat
        /\ \A g \in Handlers : g # h => upc'[g] = upc[g]
    BY <2>1, <2>2, AnswerFacts DEF UploadsInv
  <2>4. UploadsTyped'
    BY <1>1, <2>3 DEF UploadsInv, UploadsTyped
  <2>5. HandlerGo(h, "idle") /\ "idle" \in Steps /\ Knows(h)'
    BY <2>1, <2>3 DEF Answer, Steps, Knows
  <2>6. OneAtWork'
    BY <1>1, <2>5, CalmStep
  <2>7. QED
    BY <2>4, <2>6 DEF UploadsInv
<1>4. QED
  BY <1>2, <1>3

LEMMA AppendChunkInv ==
    ASSUME UploadsInv, NEW h \in Handlers, AppendChunk(h)
    PROVE  UploadsInv'
<1>1. /\ upc[h] = "append" /\ part' = Appended(ChunkAt(from[h])) /\ HandlerGo(h, "record")
      /\ UNCHANGED <<received, from, held, offset, phase, asked, published, hasty>>
  BY DEF AppendChunk
<1>2. /\ upc' \in [Handlers -> Steps] /\ upc'[h] = "record"
      /\ \A g \in Handlers : g # h => upc'[g] = upc[g]
  BY <1>1, GoFacts DEF UploadsInv, Steps
<1>3. from[h] \in 0 .. Size /\ from[h] \in Nat /\ part.bytes \in Seq(Nat)
  BY UploadsAssumption DEF UploadsInv, UploadsTyped
<1>4. part' \in [there : BOOLEAN, bytes : Seq(Nat)]
  <2>1. part.bytes \o ChunkAt(from[h]) \in Seq(Nat)
    BY <1>3, ChunkFacts, ConcatProperties
  <2>2. QED
    BY <1>1, <2>1 DEF Appended, UploadsInv, UploadsTyped
<1>5. UploadsTyped'
  BY <1>1, <1>2, <1>4 DEF UploadsInv, UploadsTyped
<1>6. ASSUME ~hasty
      PROVE  /\ FirstBytes(part.bytes)' /\ received' =< Len(part.bytes)' /\ Knows(h)'
             /\ \A i \in 1 .. Len(published') : published'[i] = Whole
  <2>1. /\ part.there /\ Len(part.bytes) = from[h] /\ received = from[h]
        /\ FirstBytes(part.bytes)
        /\ \A i \in 1 .. Len(published) : published[i] = Whole
    BY <1>1, <1>6, OnlyOne DEF Knows
  <2>2. part'.bytes = part.bytes \o ChunkAt(from[h])
    BY <1>1, <2>1 DEF Appended, UploadsInv, UploadsTyped
  <2>3. /\ FirstBytes(part.bytes \o ChunkAt(from[h]))
        /\ Len(part.bytes \o ChunkAt(from[h])) = from[h] + Len(ChunkAt(from[h]))
    <3>1. /\ ChunkAt(from[h]) \in Seq(Nat) /\ Len(part.bytes) + Len(ChunkAt(from[h])) =< Size
          /\ \A i \in 1 .. Len(ChunkAt(from[h])) : ChunkAt(from[h])[i] = Len(part.bytes) + i
      BY <1>3, <2>1, ChunkFacts
    <3>. DEFINE b == part.bytes  c == ChunkAt(from[h])
    <3>2. /\ b \in Seq(Nat) /\ FirstBytes(b) /\ c \in Seq(Nat) /\ Len(b) + Len(c) =< Size
          /\ \A i \in 1 .. Len(c) : c[i] = Len(b) + i
      BY <1>3, <2>1, <3>1
    <3>3. Len(b) = from[h]
      BY <2>1
    <3>. HIDE DEF b, c
    <3>4. FirstBytes(b \o c) /\ Len(b \o c) = Len(b) + Len(c)
      BY <3>2, Longer
    <3>5. FirstBytes(b \o c) /\ Len(b \o c) = from[h] + Len(c)
      BY <3>3, <3>4
    <3>6. QED
      BY <3>5 DEF b, c
  <2>4. Len(ChunkAt(from[h])) \in Nat
    BY <1>3, ChunkLength
  <2>5. FirstBytes(part.bytes)' /\ received' =< Len(part.bytes)'
    <3>1. FirstBytes(part'.bytes) /\ Len(part'.bytes) = from[h] + Len(ChunkAt(from[h])) /\ received' = from[h]
      BY <1>1, <2>1, <2>2, <2>3
    <3>2. received' =< Len(part'.bytes)
      BY <1>3, <2>4, <3>1
    <3>3. QED
      BY <3>1, <3>2 DEF FirstBytes
  <2>6. Knows(h)'
    BY <1>1, <1>2, <2>1, <2>2, <2>3 DEF Knows, NewBytes
  <2>7. QED
    BY <1>1, <2>1, <2>5, <2>6
<1>7. OneAtWork'
  <2>1. CASE hasty
    BY <1>1, <2>1 DEF OneAtWork
  <2>2. CASE ~hasty
    BY <1>1, <1>2, <1>6, <2>2, CalmAlone
  <2>3. QED
    BY <2>1, <2>2
<1>8. QED
  BY <1>5, <1>7 DEF UploadsInv

LEMMA RecordChunkInv ==
    ASSUME UploadsInv, NEW h \in Handlers, RecordChunk(h)
    PROVE  UploadsInv'
<1>1. /\ upc[h] = "record"
      /\ received' = IF received = NoRow THEN NoRow ELSE received + NewBytes(h)
      /\ Answer(h, "send", from[h] + NewBytes(h))
      /\ UNCHANGED <<part, from, held, asked, published, hasty>>
  BY DEF RecordChunk, OffsetAfter
<1>2. from[h] \in 0 .. Size /\ from[h] \in Nat /\ NewBytes(h) \in Nat
  BY ChunkLength, UploadsAssumption DEF UploadsInv, UploadsTyped, NewBytes
<1>3. /\ upc' \in [Handlers -> Steps] /\ upc'[h] = "idle" /\ offset' \in Nat
      /\ \A g \in Handlers : g # h => upc'[g] = upc[g]
  <2>1. from[h] + NewBytes(h) \in Nat
    BY <1>2
  <2>2. PICK o \in Nat : Answer(h, "send", o)
    BY <1>1, <2>1
  <2>3. QED
    BY <2>2, AnswerFacts DEF UploadsInv
<1>4. UploadsTyped'
  BY <1>1, <1>2, <1>3 DEF UploadsInv, UploadsTyped, Rows
<1>5. ~hasty => /\ FirstBytes(part.bytes)' /\ received' =< Len(part.bytes)'
                /\ Knows(h)' /\ \A i \in 1 .. Len(published') : published'[i] = Whole
  <2>. SUFFICES ASSUME ~hasty
                PROVE  /\ FirstBytes(part.bytes)' /\ received' =< Len(part.bytes)'
                       /\ Knows(h)' /\ \A i \in 1 .. Len(published') : published'[i] = Whole
    OBVIOUS
  <2>1. /\ received = from[h] /\ Len(part.bytes) = from[h] + NewBytes(h) /\ FirstBytes(part.bytes)
        /\ \A i \in 1 .. Len(published) : published[i] = Whole
    BY <1>1, OnlyOne DEF Knows
  <2>2. received' =< Len(part.bytes)
    BY <1>1, <1>2, <2>1 DEF NoRow
  <2>3. QED
    BY <1>1, <1>3, <2>1, <2>2 DEF Knows
<1>6. QED
  BY <1>1, <1>3, <1>4, <1>5, CalmAlone DEF UploadsInv

LEMMA FinishAskedInv ==
    ASSUME UploadsInv, NEW h \in Handlers, NEW refused, FinishAsked(h, refused)
    PROVE  UploadsInv'
<1>1. /\ phase = "send" /\ phase \in Quiet /\ upc[h] = "idle" /\ offset' = offset /\ asked' = h
      /\ UNCHANGED <<received, part, from, published, hasty>>
  BY DEF FinishAsked, Client, Quiet
<1>2. CASE received # NoRow /\ SizeMatches
  <2>1. /\ HandlerGo(h, "publish") /\ phase' = "wait" /\ phase' \notin Quiet
        /\ held' = [held EXCEPT ![h] = part.bytes]
    BY <1>2 DEF FinishAsked, Client, Quiet
  <2>2. upc' \in [Handlers -> Steps] /\ upc'[h] = "publish" /\ "publish" \in Steps
    BY <2>1, GoFacts DEF UploadsInv, Steps
  <2>3. /\ UploadsTyped' /\ held'[h] = part.bytes /\ part.bytes \in Seq(Nat)
        /\ \A g \in Handlers : g # h => held'[g] = held[g]
    BY <1>1, <2>1, <2>2 DEF UploadsInv, UploadsTyped
  <2>4. ~hasty => part.bytes = Whole
    BY <1>2, <2>3, FullIsWhole DEF UploadsInv, OneAtWork, SizeMatches
  <2>5. ~hasty => Knows(h)'
    BY <2>2, <2>3, <2>4 DEF Knows
  <2>6. OneAtWork'
    BY <1>1, <2>1, <2>2, <2>3, <2>5, CalmStep
  <2>7. QED
    BY <2>3, <2>6 DEF UploadsInv
<1>3. CASE ~(received # NoRow /\ SizeMatches)
  <2>1. UNCHANGED <<upc, held>>
    BY <1>3 DEF FinishAsked
  <2>2. UploadsTyped'
    BY <1>1, <2>1 DEF UploadsInv, UploadsTyped
  <2>3. OneAtWork'
    BY <1>1, <2>1 DEF UploadsInv, OneAtWork, HandlersIdle, Knows, NewBytes
  <2>4. QED
    BY <2>2, <2>3 DEF UploadsInv
<1>4. QED
  BY <1>2, <1>3

LEMMA StartCancelInv ==
    ASSUME UploadsInv, NEW h \in Handlers, StartCancel(h)
    PROVE  UploadsInv'
<1>1. /\ phase \in Quiet /\ HandlerGo(h, "forget") /\ phase' \notin Quiet /\ offset' = offset
      /\ asked' = h /\ UNCHANGED <<received, part, from, held, published, hasty>>
  BY DEF StartCancel, Client, Quiet
<1>2. upc' \in [Handlers -> Steps] /\ upc'[h] = "forget" /\ "forget" \in Steps
  BY <1>1, GoFacts DEF UploadsInv, Steps
<1>3. UploadsTyped'
  BY <1>1, <1>2 DEF UploadsInv, UploadsTyped
<1>4. Knows(h)'
  BY <1>2 DEF Knows
<1>5. OneAtWork'
  BY <1>1, <1>2, <1>4, CalmStep
<1>6. QED
  BY <1>3, <1>5 DEF UploadsInv

LEMMA PublishInv ==
    ASSUME UploadsInv, NEW h \in Handlers, Publish(h)
    PROVE  UploadsInv'
<1>1. /\ upc[h] = "publish" /\ published' = Append(published, held[h])
      /\ held' = [held EXCEPT ![h] = <<>>] /\ HandlerGo(h, "forget")
      /\ UNCHANGED <<received, part, from, offset, phase, asked, hasty>>
  BY DEF Publish
<1>2. /\ upc' \in [Handlers -> Steps] /\ upc'[h] = "forget"
      /\ \A g \in Handlers : g # h => upc'[g] = upc[g]
  BY <1>1, GoFacts DEF UploadsInv, Steps
<1>3. UploadsTyped'
  <2>1. published' \in Seq(Seq(Nat))
    <3>1. published \in Seq(Seq(Nat)) /\ held[h] \in Seq(Nat)
      BY DEF UploadsInv, UploadsTyped
    <3>2. QED
      BY <1>1, <3>1, AppendProperties
  <2>2. held' \in [Handlers -> Seq(Nat)]
    BY <1>1 DEF UploadsInv, UploadsTyped
  <2>3. QED
    BY <1>1, <1>2, <2>1, <2>2 DEF UploadsInv, UploadsTyped
<1>4. ASSUME ~hasty
      PROVE  /\ FirstBytes(part.bytes)' /\ received' =< Len(part.bytes)' /\ Knows(h)'
             /\ \A i \in 1 .. Len(published') : published'[i] = Whole
  <2>1. /\ held[h] = Whole /\ FirstBytes(part.bytes) /\ received =< Len(part.bytes)
        /\ \A i \in 1 .. Len(published) : published[i] = Whole
    BY <1>1, <1>4, OnlyOne DEF Knows
  <2>2. /\ published \in Seq(Seq(Nat)) /\ held[h] \in Seq(Nat)
    BY DEF UploadsInv, UploadsTyped
  <2>3. /\ Len(published') = Len(published) + 1 /\ published'[Len(published) + 1] = held[h]
        /\ \A i \in 1 .. Len(published) : published'[i] = published[i]
    BY <1>1, <2>2, AppendProperties
  <2>4. ASSUME NEW i \in 1 .. Len(published')
        PROVE  published'[i] = Whole
    <3>1. Len(published) \in Nat
      BY <2>2, LenProperties
    <3>2. CASE i = Len(published) + 1
      BY <2>1, <2>3, <3>2
    <3>3. CASE i # Len(published) + 1
      <4>1. i \in 1 .. Len(published)
        BY <2>3, <3>1, <3>3
      <4>2. QED
        BY <2>1, <2>3, <4>1
    <3>4. QED
      BY <3>2, <3>3
  <2>5. QED
    BY <1>1, <1>2, <2>1, <2>4 DEF Knows
<1>5. OneAtWork'
  <2>1. CASE hasty
    BY <1>1, <2>1 DEF OneAtWork
  <2>2. CASE ~hasty
    BY <1>1, <1>2, <1>4, <2>2, CalmAlone
  <2>3. QED
    BY <2>1, <2>2
<1>6. QED
  BY <1>3, <1>5 DEF UploadsInv

LEMMA ForgetRowInv ==
    ASSUME UploadsInv, NEW h \in Handlers, ForgetRow(h)
    PROVE  UploadsInv'
<1>1. /\ upc[h] = "forget" /\ received' = NoRow /\ HandlerGo(h, "unlink")
      /\ UNCHANGED <<part, from, held, offset, phase, asked, published, hasty>>
  BY DEF ForgetRow
<1>2. /\ upc' \in [Handlers -> Steps] /\ upc'[h] = "unlink"
      /\ \A g \in Handlers : g # h => upc'[g] = upc[g]
  BY <1>1, GoFacts DEF UploadsInv, Steps
<1>3. UploadsTyped'
  BY <1>1, <1>2 DEF UploadsInv, UploadsTyped, Rows
<1>4. NoRow =< Len(part.bytes)
  BY DEF NoRow, UploadsInv, UploadsTyped
<1>5. OneAtWork'
  <2>1. CASE hasty
    BY <1>1, <2>1 DEF OneAtWork
  <2>2. CASE ~hasty
    BY <1>1, <1>2, <1>4, <2>2, OnlyOne, CalmAlone DEF Knows
  <2>3. QED
    BY <2>1, <2>2
<1>6. QED
  BY <1>3, <1>5 DEF UploadsInv

LEMMA UnlinkPartInv ==
    ASSUME UploadsInv, NEW h \in Handlers, UnlinkPart(h)
    PROVE  UploadsInv'
<1>1. /\ upc[h] = "unlink" /\ part' = NoPart /\ Answer(h, "done", offset)
      /\ UNCHANGED <<received, from, held, asked, published, hasty>>
  BY DEF UnlinkPart
<1>2. offset \in Nat
  BY DEF UploadsInv, UploadsTyped
<1>3. /\ upc' \in [Handlers -> Steps] /\ upc'[h] = "idle" /\ offset' \in Nat
      /\ \A g \in Handlers : g # h => upc'[g] = upc[g]
  BY <1>1, <1>2, AnswerFacts DEF UploadsInv
<1>4. part'.bytes = <<>> /\ part' \in [there : BOOLEAN, bytes : Seq(Nat)]
  BY <1>1 DEF NoPart
<1>5. UploadsTyped'
  BY <1>1, <1>3, <1>4 DEF UploadsInv, UploadsTyped
<1>6. ~hasty => /\ FirstBytes(part.bytes)' /\ received' =< Len(part.bytes)'
                /\ Knows(h)' /\ \A i \in 1 .. Len(published') : published'[i] = Whole
  BY <1>1, <1>3, <1>4, OnlyOne, UploadsAssumption DEF FirstBytes, Knows, NoRow
<1>7. QED
  BY <1>1, <1>3, <1>5, <1>6, CalmAlone DEF UploadsInv

LEMMA ResumeInv ==
    ASSUME UploadsInv, Resume
    PROVE  UploadsInv'
<1>1. /\ offset' \in Nat /\ hasty' = (hasty \/ ~HandlersIdle)
      /\ UNCHANGED <<received, part, upc, from, held, asked, published>>
  BY DEF Resume, Client, TrueOffset, UploadsInv, UploadsTyped, Rows
<1>2. UploadsTyped'
  BY <1>1 DEF UploadsInv, UploadsTyped
<1>3. OneAtWork'
  BY <1>1 DEF UploadsInv, OneAtWork, HandlersIdle, Knows, NewBytes
<1>4. QED
  BY <1>2, <1>3 DEF UploadsInv

LEMMA DisconnectInv ==
    ASSUME UploadsInv, Disconnect
    PROVE  UploadsInv'
<1>1. /\ phase' \notin Quiet /\ offset' = offset
      /\ UNCHANGED <<received, part, upc, from, held, asked, published, hasty>>
  BY DEF Disconnect, Throws, Client, Quiet
<1>2. UploadsTyped'
  BY <1>1 DEF UploadsInv, UploadsTyped
<1>3. OneAtWork'
  BY <1>1 DEF UploadsInv, OneAtWork, Knows, NewBytes
<1>4. QED
  BY <1>2, <1>3 DEF UploadsInv

\* What is left of a chunk is a shorter piece of the file at the same place.
LEMMA KillInv ==
    ASSUME UploadsInv, Kill
    PROVE  UploadsInv'
<1>1. /\ \A h \in Handlers : upc'[h] = "idle"
      /\ upc' \in [Handlers -> Steps] /\ held' \in [Handlers -> Seq(Nat)]
      /\ offset' = offset /\ UNCHANGED <<received, from, asked, published, hasty>>
  BY DEF Kill, Throws, Client, Steps
<1>2. /\ part' \in [there : BOOLEAN, bytes : Seq(Nat)]
      /\ ~hasty => FirstBytes(part'.bytes) /\ received =< Len(part'.bytes)
  <2>1. CASE part' = part
    BY <2>1 DEF UploadsInv, UploadsTyped, OneAtWork
  <2>2. ASSUME NEW h \in Handlers, NEW n \in 1 .. ChunkBytes, upc[h] = "append", n =< Len(ChunkAt(from[h])),
               part' = Appended(SubSeq(ChunkAt(from[h]), 1, n))
        PROVE  /\ part' \in [there : BOOLEAN, bytes : Seq(Nat)]
               /\ ~hasty => FirstBytes(part'.bytes) /\ received =< Len(part'.bytes)
    <3>. DEFINE piece == SubSeq(ChunkAt(from[h]), 1, n)
    <3>1. /\ from[h] \in 0 .. Size /\ from[h] \in Nat /\ n \in Nat /\ part.bytes \in Seq(Nat)
      BY <2>2, UploadsAssumption DEF UploadsInv, UploadsTyped
    <3>2. /\ ChunkAt(from[h]) \in Seq(Nat) /\ from[h] + Len(ChunkAt(from[h])) =< Size
          /\ \A i \in 1 .. Len(ChunkAt(from[h])) : ChunkAt(from[h])[i] = from[h] + i
      BY <3>1, ChunkFacts
    <3>3. /\ piece \in Seq(Nat) /\ Len(piece) = n
          /\ \A i \in 1 .. n : piece[i] = from[h] + i
      <4>1. 1 \in Int /\ n \in Int /\ \A i \in 1 .. n : ChunkAt(from[h])[i] \in Nat
        BY <2>2, <3>1, <3>2
      <4>2. /\ piece \in Seq(Nat) /\ Len(piece) = IF 1 <= n THEN n - 1 + 1 ELSE 0
            /\ \A i \in 1 .. n - 1 + 1 : piece[i] = ChunkAt(from[h])[1 + i - 1]
        BY <4>1, SubSeqProperties
      <4>3. Len(piece) = n
        BY <3>1, <4>2
      <4>4. ASSUME NEW i \in 1 .. n PROVE piece[i] = from[h] + i
        <5>1. i \in 1 .. n - 1 + 1 /\ 1 + i - 1 = i /\ i \in 1 .. Len(ChunkAt(from[h]))
          BY <2>2, <3>1
        <5>2. piece[i] = ChunkAt(from[h])[i]
          BY <4>2, <5>1
        <5>3. QED
          BY <3>2, <5>1, <5>2
      <4>5. QED
        BY <4>2, <4>3, <4>4
    <3>. HIDE DEF piece
    <3>4. part.bytes \o piece \in Seq(Nat)
      BY <3>1, <3>3, ConcatProperties
    <3>5. part' = Appended(piece)
      BY <2>2 DEF piece
    <3>6. part' \in [there : BOOLEAN, bytes : Seq(Nat)]
      BY <3>4, <3>5 DEF Appended, UploadsInv, UploadsTyped
    <3>7. ASSUME ~hasty PROVE FirstBytes(part'.bytes) /\ received =< Len(part'.bytes)
      <4>1. /\ part.there /\ Len(part.bytes) = from[h] /\ received = from[h] /\ FirstBytes(part.bytes)
        BY <2>2, <3>7, OnlyOne DEF Knows
      <4>2. part'.bytes = part.bytes \o piece
        BY <3>5, <4>1 DEF Appended, UploadsInv, UploadsTyped
      <4>3. /\ Len(part.bytes) + Len(piece) =< Size
            /\ \A i \in 1 .. Len(piece) : piece[i] = Len(part.bytes) + i
        <5>1. Size \in Nat /\ Len(ChunkAt(from[h])) \in Nat
          BY <3>2, UploadsAssumption
        <5>2. from[h] + n =< Size
          BY <2>2, <3>1, <3>2, <5>1
        <5>3. QED
          BY <3>1, <3>3, <4>1, <5>2
      <4>4. FirstBytes(part.bytes \o piece) /\ Len(part.bytes \o piece) = Len(part.bytes) + Len(piece)
        BY <3>1, <3>3, <4>1, <4>3, Longer
      <4>5. QED
        BY <3>1, <3>3, <4>1, <4>2, <4>4
    <3>8. QED
      BY <3>6, <3>7
  <2>3. QED
    BY <2>1, <2>2 DEF Kill
<1>3. UploadsTyped'
  BY <1>1, <1>2 DEF UploadsInv, UploadsTyped
<1>4. OneAtWork'
  <2>1. HandlersIdle' /\ \A h \in Handlers : Knows(h)'
    BY <1>1 DEF HandlersIdle, Knows
  <2>2. QED
    BY <1>1, <1>2, <2>1 DEF UploadsInv, OneAtWork
<1>5. QED
  BY <1>3, <1>4 DEF UploadsInv

LEMMA UploadsNextInv == UploadsInv /\ [UploadsNext]_uploadsVars => UploadsInv'
<1>. SUFFICES ASSUME UploadsInv, [UploadsNext]_uploadsVars PROVE UploadsInv'
  OBVIOUS
<1>1. CASE UploadsServer
  BY <1>1, CreatePartInv, CheckLengthInv, AppendChunkInv, RecordChunkInv, PublishInv, ForgetRowInv, UnlinkPartInv
  DEF UploadsServer
<1>2. CASE UploadsClient
  BY <1>2, SendChunkInv, FinishAskedInv DEF UploadsClient, StartFinish
<1>3. CASE Start \/ Resume \/ Disconnect \/ Kill
  BY <1>3, StartInv, ResumeInv, DisconnectInv, KillInv
<1>4. ASSUME NEW h \in Handlers, StartCancel(h) \/ FinishEarly(h) PROVE UploadsInv'
  BY <1>4, StartCancelInv, FinishAskedInv DEF FinishEarly
<1>5. CASE UNCHANGED uploadsVars
  BY <1>5 DEF uploadsVars, UploadsInv, UploadsTyped, OneAtWork, HandlersIdle, Knows, NewBytes
<1>6. QED
  BY <1>1, <1>2, <1>3, <1>4, <1>5 DEF UploadsNext

-----------------------------------------------------------------------------
LEMMA UploadsAlwaysInv == UploadsSpec => []UploadsInv
  BY UploadsInitInv, UploadsNextInv, PTL DEF UploadsSpec

\* upload_finish: what is put in the vault is the file, through kills in the middle
\* of a chunk, lost connections and uploads begun again, until one is resumed with a
\* request of its own still at work.
THEOREM FilesAlwaysWhole == UploadsSpec => []WholeFiles
<1>1. UploadsInv => WholeFiles
  <2>. SUFFICES ASSUME UploadsInv, ~hasty, NEW i \in DOMAIN published PROVE published[i] = Whole
    BY DEF WholeFiles
  <2>1. DOMAIN published = 1 .. Len(published)
    BY DEF UploadsInv, UploadsTyped
  <2>2. QED
    BY <2>1 DEF UploadsInv, OneAtWork
<1>2. QED
  BY <1>1, UploadsAlwaysInv, PTL

\* upload_chunk: the bytes the row counts are in the part file, in order.
THEOREM RecordedAlwaysStored == UploadsSpec => []RecordedIsStored
<1>1. UploadsInv => RecordedIsStored
  <2>. SUFFICES ASSUME UploadsInv, ~hasty, received > 0
                PROVE  /\ Len(part.bytes) >= received
                       /\ SubSeq(part.bytes, 1, received) = SubSeq(Whole, 1, received)
    BY DEF RecordedIsStored
  <2>1. /\ part.bytes \in Seq(Nat) /\ Len(part.bytes) \in Nat /\ received \in Nat
        /\ Len(part.bytes) >= received /\ FirstBytes(part.bytes)
    BY DEF UploadsInv, UploadsTyped, OneAtWork, Rows, NoRow
  <2>2. /\ 1 \in Int /\ received \in Int /\ Size \in Nat
        /\ \A i \in 1 .. received : part.bytes[i] \in Nat /\ Whole[i] \in Nat /\ part.bytes[i] = Whole[i]
    BY <2>1, WholeFacts, UploadsAssumption DEF FirstBytes
  <2>3. /\ SubSeq(part.bytes, 1, received) \in Seq(Nat)
        /\ Len(SubSeq(part.bytes, 1, received)) = IF 1 <= received THEN received - 1 + 1 ELSE 0
        /\ \A i \in 1 .. received - 1 + 1 : SubSeq(part.bytes, 1, received)[i] = part.bytes[1 + i - 1]
    BY <2>2, SubSeqProperties
  <2>4. /\ SubSeq(Whole, 1, received) \in Seq(Nat)
        /\ Len(SubSeq(Whole, 1, received)) = IF 1 <= received THEN received - 1 + 1 ELSE 0
        /\ \A i \in 1 .. received - 1 + 1 : SubSeq(Whole, 1, received)[i] = Whole[1 + i - 1]
    BY <2>2, SubSeqProperties
  <2>5. /\ Len(SubSeq(part.bytes, 1, received)) = Len(SubSeq(Whole, 1, received))
        /\ \A i \in 1 .. Len(SubSeq(part.bytes, 1, received)) :
             SubSeq(part.bytes, 1, received)[i] = SubSeq(Whole, 1, received)[i]
    BY <2>1, <2>2, <2>3, <2>4
  <2>6. SubSeq(part.bytes, 1, received) = SubSeq(Whole, 1, received)
    BY <2>3, <2>4, <2>5, SeqEqual
  <2>7. QED
    BY <2>1, <2>6
<1>2. QED
  BY <1>1, UploadsAlwaysInv, PTL

-----------------------------------------------------------------------------
(***************************************************************************)
(* How far the row may come.  A handler that is past upload_chunk's first  *)
(* check still adds its chunk, which began within the file; two copies of  *)
(* a request may both add theirs, when an upload is resumed with one of    *)
(* them still at work.                                                     *)
(***************************************************************************)
Owed(h) == IF upc[h] \in {"chunk", "append", "record"} THEN NewBytes(h) ELSE 0

Limit == Size + ChunkBytes

RowBound ==
    /\ received # NoRow =>
         \A g, h \in Handlers : g # h => received + (Owed(g) + Owed(h)) =< Limit
    /\ offset =< Limit

ClientTyped ==
    /\ ~part.there => part.bytes = <<>>
    /\ phase \in {"start", "send", "wait", "done", "failed", "gone"}
    /\ kills \in 0 .. MaxKills /\ lost \in 0 .. MaxLost /\ tries \in 0 .. MaxTries
    /\ upset \in BOOLEAN

LEMMA OneChunk == \A o \in 0 .. Size : Len(ChunkAt(o)) =< ChunkBytes
<1>. SUFFICES ASSUME NEW o \in 0 .. Size PROVE Len(ChunkAt(o)) =< ChunkBytes
  OBVIOUS
<1>. DEFINE e == IF o + ChunkBytes < Size THEN o + ChunkBytes ELSE Size
<1>1. o \in Nat /\ e \in Nat /\ o =< e /\ e =< Size /\ e =< o + ChunkBytes /\ ChunkBytes \in Nat
  BY UploadsAssumption
<1>2. o + 1 \in Int /\ e \in Int /\ \A i \in o + 1 .. e : Whole[i] \in Nat
  BY <1>1, WholeFacts
<1>3. ChunkAt(o) = SubSeq(Whole, o + 1, e)
  BY DEF ChunkAt
<1>. HIDE DEF e
<1>4. Len(SubSeq(Whole, o + 1, e)) = IF o + 1 <= e THEN e - (o + 1) + 1 ELSE 0
  BY <1>2, SubSeqProperties
<1>5. QED
  BY <1>1, <1>3, <1>4

LEMMA OwedFacts ==
    ASSUME UploadsTyped, NEW h \in Handlers
    PROVE  /\ NewBytes(h) \in 0 .. ChunkBytes /\ from[h] + NewBytes(h) =< Size
           /\ Owed(h) \in 0 .. ChunkBytes
<1>1. from[h] \in 0 .. Size
  BY DEF UploadsTyped
<1>2. Len(ChunkAt(from[h])) \in Nat /\ Len(ChunkAt(from[h])) =< ChunkBytes
  BY <1>1, OneChunk, ChunkLength
<1>3. from[h] + Len(ChunkAt(from[h])) =< Size
  BY <1>1, ChunkFacts
<1>4. NewBytes(h) \in 0 .. ChunkBytes /\ from[h] + NewBytes(h) =< Size
  BY <1>2, <1>3, UploadsAssumption DEF NewBytes
<1>5. QED
  BY <1>4, UploadsAssumption DEF Owed

LEMMA OwedNatural == UploadsTyped => \A h \in Handlers : Owed(h) \in Nat
  BY OwedFacts

\* No handler owes more than before, and the row is no longer or is gone.
LEMMA BoundStays ==
    ASSUME UploadsTyped, UploadsTyped', RowBound,
           received' \in {received, NoRow}, offset' =< Limit,
           \A h \in Handlers : Owed(h)' =< Owed(h)
    PROVE  RowBound'
<1>1. \A h \in Handlers : Owed(h) \in Nat /\ Owed(h)' \in Nat
    <2>1. (UploadsTyped => \A h \in Handlers : Owed(h) \in Nat)'
      BY OwedNatural, PTL
    <2>2. QED
      BY <2>1, OwedNatural
<1>2. received \in Int /\ Limit \in Nat
  BY UploadsAssumption DEF UploadsTyped, Rows, NoRow, Limit
<1>3. ASSUME received' # NoRow, NEW g \in Handlers, NEW h \in Handlers, g # h
      PROVE  received' + (Owed(g)' + Owed(h)') =< Limit
    <2>1. received' = received /\ received + (Owed(g) + Owed(h)) =< Limit
      BY <1>3 DEF RowBound
    <2>2. QED
      BY <1>1, <1>2, <2>1
<1>4. QED
  BY <1>3 DEF RowBound, Limit

\* Where one handler takes a step and the others stay.
LEMMA OwedByOthers ==
    ASSUME UploadsTyped, NEW h \in Handlers, NEW s \in Steps, HandlerGo(h, s),
           from'[h] = from[h] \/ s \notin {"chunk", "append", "record"},
           \A g \in Handlers : g # h => from'[g] = from[g],
           s \in {"chunk", "append", "record"} => upc[h] \in {"chunk", "append", "record"}
    PROVE  \A g \in Handlers : Owed(g)' =< Owed(g)
<1>1. upc'[h] = s /\ \A g \in Handlers : g # h => upc'[g] = upc[g]
  BY GoFacts
<1>2. \A g \in Handlers : Owed(g) \in Nat
  BY OwedNatural
<1>3. ASSUME NEW g \in Handlers, g # h PROVE Owed(g)' = Owed(g)
  BY <1>1, <1>3 DEF Owed, NewBytes
<1>4. Owed(h)' = Owed(h) \/ Owed(h)' = 0
  BY <1>1 DEF Owed, NewBytes
<1>5. QED
  BY <1>2, <1>3, <1>4

LEMMA RowBoundNext ==
    UploadsTyped /\ UploadsTyped' /\ RowBound /\ [UploadsNext]_uploadsVars => RowBound'
<1>. SUFFICES ASSUME UploadsTyped, UploadsTyped', RowBound, [UploadsNext]_uploadsVars PROVE RowBound'
  OBVIOUS
<1>1. /\ Size \in Nat /\ ChunkBytes \in Nat /\ Limit \in Nat /\ Limit = Size + ChunkBytes
      /\ offset \in Nat /\ offset =< Limit /\ NoRow = -1
  BY UploadsAssumption DEF UploadsTyped, Limit, RowBound, NoRow
<1>2. \A h \in Handlers : /\ Owed(h) \in 0 .. ChunkBytes /\ NewBytes(h) \in 0 .. ChunkBytes
                           /\ from[h] \in 0 .. Size /\ from[h] + NewBytes(h) =< Size
  BY OwedFacts DEF UploadsTyped
<1>3. received \in Int /\ (received # NoRow => received \in Nat /\ received =< Limit)
    <2>1. received # NoRow => received \in Nat
      BY DEF UploadsTyped, Rows
    <2>2. received # NoRow => received + (Owed(1) + Owed(2)) =< Limit
      BY DEF RowBound, Handlers
    <2>3. Owed(1) \in Nat /\ Owed(2) \in Nat
      BY <1>1, <1>2 DEF Handlers
    <2>4. QED
      BY <1>1, <2>1, <2>2, <2>3
<1>4. ASSUME NEW h \in Handlers, NEW s, NEW o \in Nat, o =< Limit, Answer(h, s, o),
             received' \in {received, NoRow}, UNCHANGED from
      PROVE  RowBound'
    <2>1. HandlerGo(h, "idle") /\ "idle" \in Steps
      BY <1>4 DEF Answer, Steps
    <2>2. \A g \in Handlers : Owed(g)' =< Owed(g)
      BY <1>4, <2>1, OwedByOthers
    <2>3. offset' =< Limit
      BY <1>1, <1>4 DEF Answer, Client
    <2>4. QED
      BY <1>4, <2>2, <2>3, BoundStays
<1>5. ASSUME NEW h \in Handlers, NEW s \in Steps, HandlerGo(h, s), UNCHANGED <<from, offset>>,
             s \in {"chunk", "append", "record"} => upc[h] \in {"chunk", "append", "record"},
             received' \in {received, NoRow}
      PROVE  RowBound'
    <2>1. \A g \in Handlers : Owed(g)' =< Owed(g)
      BY <1>5, OwedByOthers
    <2>2. QED
      BY <1>1, <1>5, <2>1, BoundStays
<1>6. ASSUME UNCHANGED <<received, upc, from>>, offset' =< Limit
      PROVE  RowBound'
    <2>1. \A g \in Handlers : Owed(g)' = Owed(g)
      BY <1>6 DEF Owed, NewBytes
    <2>2. \A g \in Handlers : Owed(g)' =< Owed(g)
      BY <1>1, <1>2, <2>1
    <2>3. QED
      BY <1>6, <2>2, BoundStays
<1>7. CASE Start
    <2>1. PICK h \in Handlers : HandlersIdle /\ received' = 0 /\ HandlerGo(h, "create") /\ offset' = 0
      BY <1>7 DEF Start, Client
    <2>2. \A g \in Handlers : Owed(g)' = 0
      <3>1. \A g \in Handlers : upc'[g] \in {"idle", "create"}
        BY <2>1, GoFacts DEF HandlersIdle, Steps
      <3>2. QED
        BY <3>1 DEF Owed
    <2>3. QED
      BY <1>1, <2>1, <2>2 DEF RowBound, Limit
<1>8. ASSUME NEW h \in Handlers, CreatePart(h) PROVE RowBound'
    <2>1. Answer(h, "send", 0) /\ UNCHANGED <<received, from>>
      BY <1>8 DEF CreatePart
    <2>2. QED
      BY <1>1, <1>4, <2>1
<1>9. ASSUME NEW h \in Handlers, SendChunk(h) PROVE RowBound'
    <2>1. offset < Size /\ upc[h] = "idle" /\ UNCHANGED received
      BY <1>9 DEF SendChunk
    <2>2. CASE received # offset
      <3>1. UNCHANGED <<received, upc, from, offset>>
        BY <1>9, <2>2 DEF SendChunk, Client
      <3>2. QED
        BY <1>1, <1>6, <3>1
    <2>3. CASE received = offset
      <3>1. HandlerGo(h, "chunk") /\ offset' = offset /\ from' = [from EXCEPT ![h] = offset]
        BY <1>9, <2>3 DEF SendChunk, Client
      <3>2. upc'[h] = "chunk" /\ \A g \in Handlers : g # h => upc'[g] = upc[g]
        BY <3>1, GoFacts DEF Steps
      <3>3. from'[h] = offset /\ \A g \in Handlers : g # h => from'[g] = from[g]
        BY <3>1 DEF UploadsTyped
      <3>4. Owed(h)' = Len(ChunkAt(offset)) /\ offset \in 0 .. Size
        BY <1>1, <2>1, <3>2, <3>3 DEF Owed, NewBytes
      <3>5. Owed(h)' \in Nat /\ offset + Owed(h)' =< Size
        BY <3>4, ChunkFacts, ChunkLength
      <3>6. \A g \in Handlers : g # h => Owed(g)' = Owed(g)
        BY <3>2, <3>3 DEF Owed, NewBytes
      <3>7. ASSUME NEW f \in Handlers, NEW g \in Handlers, f # g
            PROVE  received' + (Owed(f)' + Owed(g)') =< Limit
        <4>1. CASE f = h
          <5>1. Owed(g)' \in 0 .. ChunkBytes
            BY <1>2, <3>6, <3>7, <4>1
          <5>2. QED
            BY <1>1, <2>1, <2>3, <3>5, <4>1, <5>1
        <4>2. CASE f # h
          <5>1. g = h
            BY <3>7, <4>2 DEF Handlers
          <5>2. Owed(f)' \in 0 .. ChunkBytes
            BY <1>2, <3>6, <4>2
          <5>3. QED
            BY <1>1, <2>1, <2>3, <3>5, <5>1, <5>2
        <4>3. QED
          BY <4>1, <4>2
      <3>8. offset' =< Limit
        BY <1>1, <3>1
      <3>9. QED
        BY <3>7, <3>8 DEF RowBound, Limit
    <2>4. QED
      BY <2>2, <2>3
<1>10. ASSUME NEW h \in Handlers, CheckLength(h) PROVE RowBound'
    <2>1. upc[h] = "chunk" /\ UNCHANGED <<received, from>>
      BY <1>10 DEF CheckLength
    <2>2. CASE LinesUp(h)
      <3>1. HandlerGo(h, "append") /\ UNCHANGED offset /\ "append" \in Steps
        BY <1>10, <2>2 DEF CheckLength, Steps
      <3>2. QED
        BY <1>5, <2>1, <3>1
    <2>3. CASE ~LinesUp(h)
      <3>1. Answer(h, "failed", offset)
        BY <1>10, <2>3 DEF CheckLength
      <3>2. QED
        BY <1>1, <1>4, <2>1, <3>1
    <2>4. QED
      BY <2>2, <2>3
<1>11. ASSUME NEW h \in Handlers, AppendChunk(h) PROVE RowBound'
    <2>1. /\ upc[h] = "append" /\ HandlerGo(h, "record") /\ UNCHANGED <<received, from, offset>>
          /\ "record" \in Steps
      BY <1>11 DEF AppendChunk, Steps
    <2>2. QED
      BY <1>5, <2>1
<1>12. ASSUME NEW h \in Handlers, RecordChunk(h) PROVE RowBound'
    <2>1. /\ upc[h] = "record" /\ UNCHANGED from
          /\ received' = IF received = NoRow THEN NoRow ELSE received + NewBytes(h)
          /\ Answer(h, "send", from[h] + NewBytes(h))
      BY <1>12 DEF RecordChunk, OffsetAfter
    <2>2. from[h] + NewBytes(h) \in Nat /\ from[h] + NewBytes(h) =< Limit
      BY <1>1, <1>2
    <2>3. offset' =< Limit
      BY <1>1, <2>1, <2>2 DEF Answer, Client
    <2>4. CASE received = NoRow
      BY <1>4, <2>1, <2>2, <2>4
    <2>5. CASE received # NoRow
      <3>1. upc'[h] = "idle" /\ \A g \in Handlers : g # h => upc'[g] = upc[g]
        BY <2>1, GoFacts DEF Answer, Steps
      <3>2. Owed(h) = NewBytes(h) /\ Owed(h)' = 0
        BY <2>1, <3>1 DEF Owed
      <3>3. \A g \in Handlers : g # h => Owed(g)' = Owed(g)
        BY <2>1, <3>1 DEF Owed, NewBytes
      <3>4. ASSUME NEW g \in Handlers, g # h PROVE received' + (Owed(g)' + Owed(h)') =< Limit
        <4>1. received + (Owed(g) + Owed(h)) =< Limit
          BY <2>5, <3>4 DEF RowBound
        <4>2. received' = received + Owed(h) /\ Owed(g)' = Owed(g) /\ Owed(h)' = 0
          BY <2>1, <2>5, <3>2, <3>3, <3>4
        <4>3. QED
          BY <1>1, <1>2, <1>3, <4>1, <4>2
      <3>5. ASSUME NEW f \in Handlers, NEW g \in Handlers, f # g
            PROVE  received' + (Owed(f)' + Owed(g)') =< Limit
        <4>1. CASE g = h
          BY <3>4, <3>5, <4>1
        <4>2. CASE g # h
          <5>1. f = h
            BY <3>5, <4>2 DEF Handlers
          <5>2. Owed(f)' \in Int /\ Owed(g)' \in Int /\ received' \in Int
            BY <1>1, <1>2, <1>3, <2>1, <3>2, <3>3, <4>2, <5>1
          <5>3. QED
            BY <3>4, <4>2, <5>1, <5>2
        <4>3. QED
          BY <4>1, <4>2
      <3>6. QED
        BY <2>3, <3>5 DEF RowBound, Limit
    <2>6. QED
      BY <2>4, <2>5
<1>13. ASSUME NEW h \in Handlers, NEW refused, FinishAsked(h, refused) PROVE RowBound'
    <2>1. CASE received # NoRow /\ SizeMatches
      <3>1. HandlerGo(h, "publish") /\ UNCHANGED <<from, offset, received>> /\ "publish" \in Steps
        BY <1>13, <2>1 DEF FinishAsked, Client, Steps
      <3>2. QED
        BY <1>5, <3>1
    <2>2. CASE ~(received # NoRow /\ SizeMatches)
      <3>1. UNCHANGED <<received, upc, from, offset>>
        BY <1>13, <2>2 DEF FinishAsked, Client
      <3>2. QED
        BY <1>1, <1>6, <3>1
    <2>3. QED
      BY <2>1, <2>2
<1>14. ASSUME NEW h \in Handlers, Publish(h) \/ ForgetRow(h) \/ StartCancel(h) PROVE RowBound'
    <2>1. /\ HandlerGo(h, "forget") \/ HandlerGo(h, "unlink")
          /\ UNCHANGED <<from, offset>> /\ received' \in {received, NoRow} /\ {"forget", "unlink"} \subseteq Steps
      BY <1>14 DEF Publish, ForgetRow, StartCancel, Client, Steps
    <2>2. QED
      BY <1>5, <2>1
<1>15. ASSUME NEW h \in Handlers, UnlinkPart(h) PROVE RowBound'
    <2>1. Answer(h, "done", offset) /\ UNCHANGED <<received, from>>
      BY <1>15 DEF UnlinkPart
    <2>2. QED
      BY <1>1, <1>4, <2>1
<1>16. CASE Disconnect \/ Resume
    <2>1. /\ UNCHANGED <<received, upc, from>> /\ offset' \in {offset, received}
          /\ (received = NoRow => offset' = offset)
      BY <1>16 DEF Disconnect, Throws, Resume, Client, TrueOffset
    <2>2. QED
      BY <1>1, <1>3, <1>6, <2>1
<1>17. CASE Kill
    <2>1. upc' = [h \in Handlers |-> "idle"] /\ UNCHANGED <<received, offset>>
      BY <1>17 DEF Kill, Throws, Client
    <2>2. \A h \in Handlers : Owed(h)' = 0
      BY <2>1 DEF Owed
    <2>3. QED
      BY <1>1, <1>2, <2>1, <2>2, BoundStays
<1>18. CASE UNCHANGED uploadsVars
  BY <1>1, <1>6, <1>18 DEF uploadsVars
<1>19. QED
  BY <1>7, <1>8, <1>9, <1>10, <1>11, <1>12, <1>13, <1>14, <1>15, <1>16, <1>17, <1>18
  DEF UploadsNext, UploadsServer, UploadsClient, StartFinish, FinishEarly

LEMMA ClientTypedNext ==
    UploadsTyped /\ ClientTyped /\ [UploadsNext]_uploadsVars => ClientTyped'
<1>. SUFFICES ASSUME UploadsTyped, ClientTyped, [UploadsNext]_uploadsVars PROVE ClientTyped'
  OBVIOUS
<1>. DEFINE Phases == {"start", "send", "wait", "done", "failed", "gone"}
<1>1. /\ phase \in Phases /\ kills \in 0 .. MaxKills /\ lost \in 0 .. MaxLost /\ tries \in 0 .. MaxTries
      /\ upset \in BOOLEAN /\ (~part.there => part.bytes = <<>>)
      /\ MaxKills \in Nat /\ MaxLost \in Nat /\ MaxTries \in Nat
  BY UploadsAssumption DEF ClientTyped
<1>2. ASSUME NEW added
      PROVE  LET p == Appended(added) IN ~p.there => p.bytes = <<>>
  BY <1>1 DEF Appended, UploadsTyped
<1>3. ASSUME NEW h \in Handlers, NEW s \in Phases, NEW o, Answer(h, s, o)
      PROVE  phase' \in Phases
  BY <1>1, <1>3 DEF Answer, Client
<1>4. CASE Start
    <2>1. /\ phase' = "wait" /\ part' = NoPart /\ upset' = FALSE /\ UNCHANGED <<kills, lost>>
          /\ tries < MaxTries /\ tries' = tries + 1
      BY <1>4 DEF Start, Client
    <2>2. part'.bytes = <<>>
      BY <2>1 DEF NoPart
    <2>3. tries' \in 0 .. MaxTries
      BY <1>1, <2>1
    <2>4. QED
      BY <1>1, <2>1, <2>2, <2>3 DEF ClientTyped
<1>5. ASSUME NEW h \in Handlers, CreatePart(h) PROVE ClientTyped'
    <2>1. part' = [there |-> TRUE, bytes |-> <<>>] /\ Answer(h, "send", 0) /\ UNCHANGED <<kills, lost, tries, upset>>
      BY <1>5 DEF CreatePart
    <2>2. phase' \in Phases
      BY <1>3, <2>1
    <2>3. QED
      BY <1>1, <2>1, <2>2 DEF ClientTyped
<1>6. ASSUME NEW h \in Handlers, SendChunk(h) PROVE ClientTyped'
  BY <1>1, <1>6 DEF SendChunk, Client, ClientTyped
<1>7. ASSUME NEW h \in Handlers, CheckLength(h) PROVE ClientTyped'
    <2>1. phase' \in Phases
      <3>1. CASE LinesUp(h)
        BY <1>1, <1>7, <3>1 DEF CheckLength
      <3>2. CASE ~LinesUp(h)
        <4>1. Answer(h, "failed", offset)
          BY <1>7, <3>2 DEF CheckLength
        <4>2. QED
          BY <1>3, <4>1
      <3>3. QED
        BY <3>1, <3>2
    <2>2. UNCHANGED <<part, kills, lost, tries, upset>>
      BY <1>7 DEF CheckLength
    <2>3. QED
      BY <1>1, <2>1, <2>2 DEF ClientTyped
<1>8. ASSUME NEW h \in Handlers, AppendChunk(h) PROVE ClientTyped'
    <2>1. part' = Appended(ChunkAt(from[h])) /\ UNCHANGED <<phase, kills, lost, tries, upset>>
      BY <1>8 DEF AppendChunk
    <2>2. ~part'.there => part'.bytes = <<>>
      BY <1>2, <2>1
    <2>3. QED
      BY <1>1, <2>1, <2>2 DEF ClientTyped
<1>9. ASSUME NEW h \in Handlers, RecordChunk(h) PROVE ClientTyped'
    <2>1. Answer(h, "send", OffsetAfter(h)) /\ UNCHANGED <<part, kills, lost, tries, upset>>
      BY <1>9 DEF RecordChunk
    <2>2. phase' \in Phases
      BY <1>3, <2>1
    <2>3. QED
      BY <1>1, <2>1, <2>2 DEF ClientTyped
<1>10. ASSUME NEW h \in Handlers, NEW refused \in Phases, FinishAsked(h, refused) PROVE ClientTyped'
  BY <1>1, <1>10 DEF FinishAsked, Client, ClientTyped
<1>11. ASSUME NEW h \in Handlers, Publish(h) \/ ForgetRow(h) \/ StartCancel(h) PROVE ClientTyped'
  BY <1>1, <1>11 DEF Publish, ForgetRow, StartCancel, Client, ClientTyped
<1>12. ASSUME NEW h \in Handlers, UnlinkPart(h) PROVE ClientTyped'
    <2>1. part' = NoPart /\ Answer(h, "done", offset) /\ UNCHANGED <<kills, lost, tries, upset>>
      BY <1>12 DEF UnlinkPart
    <2>2. phase' \in Phases
      BY <1>3, <2>1
    <2>3. QED
      BY <1>1, <2>1, <2>2 DEF ClientTyped, NoPart
<1>13. CASE Disconnect \/ Resume
    <2>1. /\ phase' \in Phases /\ UNCHANGED <<part, kills, tries>>
          /\ UNCHANGED lost \/ (lost < MaxLost /\ lost' = lost + 1)
          /\ upset' \in {upset, TRUE}
      BY <1>13 DEF Disconnect, Throws, Resume, Client
    <2>2. lost' \in 0 .. MaxLost
      BY <1>1, <2>1
    <2>3. QED
      BY <1>1, <2>1, <2>2 DEF ClientTyped
<1>14. CASE Kill
    <2>1. /\ kills < MaxKills /\ kills' = kills + 1 /\ UNCHANGED <<lost, tries>>
          /\ phase' \in {"failed", "gone", phase}
          /\ part' = part \/ \E added : part' = Appended(added)
      BY <1>14 DEF Kill, Throws, Client
    <2>2. upset' \in BOOLEAN
      BY <1>1, <1>14 DEF Kill
    <2>3. ~part'.there => part'.bytes = <<>>
      BY <1>1, <1>2, <2>1
    <2>4. QED
      BY <1>1, <2>1, <2>2, <2>3 DEF ClientTyped
<1>15. CASE UNCHANGED uploadsVars
  BY <1>1, <1>15 DEF uploadsVars, ClientTyped
<1>16. QED
  BY <1>4, <1>5, <1>6, <1>7, <1>8, <1>9, <1>10, <1>11, <1>12, <1>13, <1>14, <1>15
  DEF UploadsNext, UploadsServer, UploadsClient, StartFinish, FinishEarly

LEMMA UploadsInitBound == UploadsInit => RowBound /\ ClientTyped
<1>. SUFFICES ASSUME UploadsInit PROVE RowBound /\ ClientTyped
  OBVIOUS
<1>1. /\ received = NoRow /\ offset = 0 /\ part.bytes = <<>> /\ phase = "start"
      /\ kills = 0 /\ lost = 0 /\ tries = 0 /\ upset = FALSE
  BY DEF UploadsInit, NoPart
<1>2. 0 =< Limit /\ MaxKills \in Nat /\ MaxLost \in Nat /\ MaxTries \in Nat
  BY UploadsAssumption DEF Limit
<1>3. RowBound
  BY <1>1, <1>2 DEF RowBound
<1>4. kills \in 0 .. MaxKills /\ lost \in 0 .. MaxLost /\ tries \in 0 .. MaxTries
  BY <1>1, <1>2
<1>5. upset \in BOOLEAN
  BY <1>1
<1>6. QED
  BY <1>1, <1>3, <1>4, <1>5 DEF ClientTyped

\* Type correctness of an upload: whatever is resumed and begun again, the row is
\* never more than a chunk beyond the file.
THEOREM UploadsTypeCorrect == UploadsSpec => []UploadsTypeOK
<1>. DEFINE Inv == UploadsInv /\ RowBound /\ ClientTyped
<1>1. UploadsInit => Inv
  BY UploadsInitInv, UploadsInitBound
<1>2. Inv /\ [UploadsNext]_uploadsVars => Inv'
  BY UploadsNextInv, RowBoundNext, ClientTypedNext DEF UploadsInv
<1>3. Inv => UploadsTypeOK
    <2>. SUFFICES ASSUME Inv PROVE UploadsTypeOK
      OBVIOUS
    <2>1. /\ received \in Rows /\ offset \in Nat /\ part \in [there : BOOLEAN, bytes : Seq(Nat)]
          /\ upc \in [Handlers -> Steps] /\ from \in [Handlers -> 0 .. Size]
          /\ asked \in Handlers /\ hasty \in BOOLEAN
      BY DEF UploadsInv, UploadsTyped
    <2>2. received \in {NoRow} \cup 0 .. Limit /\ offset \in 0 .. Limit
      <3>1. Limit \in Nat
        BY UploadsAssumption DEF Limit
      <3>2. Owed(1) \in Nat /\ Owed(2) \in Nat
        BY OwedNatural DEF UploadsInv, Handlers
      <3>3. received # NoRow => received + (Owed(1) + Owed(2)) =< Limit
        BY DEF RowBound, Handlers
      <3>4. QED
        BY <2>1, <3>1, <3>2, <3>3 DEF Rows, RowBound
    <2>3. QED
      BY <2>1, <2>2 DEF UploadsTypeOK, ClientTyped, Steps, Limit
<1>4. QED
  BY <1>1, <1>2, <1>3, PTL DEF UploadsSpec

-----------------------------------------------------------------------------
(***************************************************************************)
(* The files of the object store.                                          *)
(***************************************************************************)
Open(w) == opc[w] \in {"write", "rename"}

\* No file has a name before it is made, and none has two names.
NamesOK ==
    /\ tmpName =< made /\ objName =< made
    /\ tmpName # 0 => tmpName # objName

\* Until two writers meet in one file, whoever has a file open has the temporary
\* one, alone, nobody renames a file before it is whole, and no rename fails.
AloneOK == ~shared =>
    /\ \A w \in ObjectWriter : Open(w) => file[w] = tmpName /\ tmpName # 0
    /\ \A v, w \in ObjectWriter : Open(v) /\ Open(w) => v = w
    /\ \A w \in ObjectWriter : opc[w] = "rename" => bytes[tmpName] = {1, 2}
    /\ \A w \in ObjectWriter : opc[w] # "clean"
    /\ HasObject => bytes[objName] = {1, 2}

OpenOK == \A w \in ObjectWriter : Open(w) => file[w] \in 1 .. MaxFiles

ObjectInv == ObjectFilesTypeOK /\ NamesOK /\ OpenOK /\ AloneOK

-----------------------------------------------------------------------------
LEMMA ObjectInitInv == ObjectInit => ObjectInv
<1>. SUFFICES ASSUME ObjectInit PROVE ObjectInv
  OBVIOUS
<1>1. tmpName = 0 /\ objName = 0 /\ made = 0 /\ shared = FALSE /\ 0 \in 0 .. MaxFiles
  BY ObjectFilesAssumption DEF ObjectInit
<1>2. /\ opc = [w \in ObjectWriter |-> "idle"] /\ file = [w \in ObjectWriter |-> 0]
      /\ bytes = [f \in 1 .. MaxFiles |-> {}]
  BY DEF ObjectInit
<1>3. \A w \in ObjectWriter : ~Open(w) /\ opc[w] = "idle"
  BY <1>2 DEF Open
<1>4. ObjectFilesTypeOK
  <2>1. bytes \in [1 .. MaxFiles -> SUBSET {1, 2}]
    BY <1>2
  <2>2. opc \in [ObjectWriter -> {"idle", "create", "write", "rename", "clean"}]
    BY <1>2
  <2>3. file \in [ObjectWriter -> 0 .. MaxFiles]
    BY <1>1, <1>2
  <2>4. QED
    BY <1>1, <2>1, <2>2, <2>3 DEF ObjectFilesTypeOK
<1>5. NamesOK
  BY <1>1 DEF NamesOK
<1>6. OpenOK /\ AloneOK
  BY <1>1, <1>3 DEF OpenOK, AloneOK, HasObject
<1>7. QED
  BY <1>4, <1>5, <1>6 DEF ObjectInv

LEMMA LookInv ==
    ASSUME ObjectInv, NEW w \in ObjectWriter, Look(w)
    PROVE  ObjectInv'
<1>1. /\ opc' = [opc EXCEPT ![w] = "create"]
      /\ UNCHANGED <<tmpName, objName, bytes, made, file, shared>>
  BY DEF Look
<1>2. \A v \in ObjectWriter : Open(v)' => Open(v) /\ opc'[v] = opc[v]
  BY <1>1 DEF Open, ObjectInv, ObjectFilesTypeOK
<1>3. ObjectFilesTypeOK'
  BY <1>1 DEF ObjectInv, ObjectFilesTypeOK
<1>4. NamesOK' /\ OpenOK'
  BY <1>1, <1>2 DEF ObjectInv, NamesOK, OpenOK
<1>5. AloneOK'
  BY <1>1, <1>2 DEF ObjectInv, AloneOK, HasObject, Open
<1>6. QED
  BY <1>3, <1>4, <1>5 DEF ObjectInv

LEMMA CreateTmpInv ==
    ASSUME ObjectInv, NEW w \in ObjectWriter, CreateTmp(w)
    PROVE  ObjectInv'
<1>. DEFINE f == tmpName'
<1>1. /\ opc[w] = "create" /\ opc' = [opc EXCEPT ![w] = "write"]
      /\ file' = [file EXCEPT ![w] = f] /\ bytes' = [bytes EXCEPT ![f] = {}]
      /\ UNCHANGED objName
  BY DEF CreateTmp
<1>2. /\ f \in 1 .. MaxFiles /\ f =< made' /\ made =< made' /\ made' \in 0 .. MaxFiles
      /\ f # objName /\ (tmpName # 0 => f = tmpName)
  <2>1. CASE tmpName = 0
    BY <2>1, ObjectFilesAssumption DEF CreateTmp, ObjectInv, ObjectFilesTypeOK, NamesOK
  <2>2. CASE tmpName # 0
    BY <2>2, ObjectFilesAssumption DEF CreateTmp, ObjectInv, ObjectFilesTypeOK, NamesOK
  <2>3. QED
    BY <2>1, <2>2
<1>3. /\ opc'[w] = "write" /\ file'[w] = f
      /\ \A v \in ObjectWriter \ {w} : opc'[v] = opc[v] /\ file'[v] = file[v]
  BY <1>1 DEF ObjectInv, ObjectFilesTypeOK
<1>4. ObjectFilesTypeOK'
  <2>1. shared' \in BOOLEAN
    BY DEF CreateTmp
  <2>2. QED
    BY <1>1, <1>2, <2>1 DEF ObjectInv, ObjectFilesTypeOK
<1>5. NamesOK'
  BY <1>1, <1>2, ObjectFilesAssumption DEF ObjectInv, ObjectFilesTypeOK, NamesOK
<1>6. OpenOK'
  BY <1>2, <1>3 DEF ObjectInv, OpenOK, Open
<1>7. AloneOK'
  <2>. SUFFICES ASSUME ~shared' PROVE AloneOK'
    BY DEF AloneOK
  <2>1. ~shared /\ \A v \in ObjectWriter \ {w} : Open(v) => file[v] # f
    BY DEF CreateTmp, Open
  <2>2. \A v \in ObjectWriter \ {w} : ~Open(v)
    BY <1>2, <2>1 DEF ObjectInv, AloneOK
  <2>3. \A v \in ObjectWriter \ {w} : ~Open(v)'
    BY <1>3, <2>2 DEF Open
  <2>4. HasObject => bytes'[objName] = {1, 2}
    BY <1>1, <1>2, <2>1 DEF ObjectInv, ObjectFilesTypeOK, AloneOK, HasObject
  <2>5. \A v \in ObjectWriter : opc'[v] # "clean"
    BY <1>3, <2>1 DEF ObjectInv, AloneOK
  <2>6. QED
    BY <1>1, <1>2, <1>3, <2>3, <2>4, <2>5 DEF AloneOK, HasObject, Open
<1>8. QED
  BY <1>4, <1>5, <1>6, <1>7 DEF ObjectInv

LEMMA WritePartInv ==
    ASSUME ObjectInv, NEW w \in ObjectWriter, WritePart(w)
    PROVE  ObjectInv'
<1>1. PICK i \in {1, 2} :
        /\ opc[w] = "write" /\ bytes' = [bytes EXCEPT ![file[w]] = @ \cup {i}]
        /\ UNCHANGED <<tmpName, objName, made, opc, file, shared>>
  BY DEF WritePart
<1>2. Open(w) /\ file[w] \in 1 .. MaxFiles
  BY <1>1 DEF Open, ObjectInv, OpenOK
<1>3. ObjectFilesTypeOK' /\ NamesOK' /\ OpenOK'
  BY <1>1, <1>2 DEF ObjectInv, ObjectFilesTypeOK, NamesOK, OpenOK, Open
<1>4. AloneOK'
  <2>. SUFFICES ASSUME ~shared PROVE AloneOK'
    BY <1>1 DEF AloneOK
  <2>1. file[w] = tmpName /\ tmpName # objName
    BY <1>2 DEF ObjectInv, AloneOK, NamesOK
  <2>2. \A v \in ObjectWriter : opc[v] # "rename"
    BY <1>1, <1>2 DEF ObjectInv, AloneOK, Open
  <2>3. HasObject => bytes'[objName] = {1, 2}
    BY <1>1, <1>2, <2>1 DEF ObjectInv, ObjectFilesTypeOK, AloneOK, HasObject
  <2>4. QED
    BY <1>1, <2>2, <2>3 DEF ObjectInv, AloneOK, HasObject, Open
<1>5. QED
  BY <1>3, <1>4 DEF ObjectInv

LEMMA SyncedInv ==
    ASSUME ObjectInv, NEW w \in ObjectWriter, Synced(w)
    PROVE  ObjectInv'
<1>1. /\ opc[w] = "write" /\ bytes[file[w]] = {1, 2} /\ opc' = [opc EXCEPT ![w] = "rename"]
      /\ UNCHANGED <<tmpName, objName, bytes, made, file, shared>>
  BY DEF Synced, AllWritten
<1>2. Open(w) /\ \A v \in ObjectWriter : Open(v)' => Open(v) /\ (v # w => opc'[v] = opc[v])
  BY <1>1 DEF Open, ObjectInv, ObjectFilesTypeOK
<1>3. ObjectFilesTypeOK' /\ NamesOK' /\ OpenOK'
  BY <1>1, <1>2 DEF ObjectInv, ObjectFilesTypeOK, NamesOK, OpenOK
<1>4. AloneOK'
  BY <1>1, <1>2 DEF ObjectInv, AloneOK, HasObject, Open
<1>5. QED
  BY <1>3, <1>4 DEF ObjectInv

LEMMA RenameTmpInv ==
    ASSUME ObjectInv, NEW w \in ObjectWriter, RenameTmp(w)
    PROVE  ObjectInv'
<1>1. /\ opc[w] = "rename" /\ UNCHANGED <<bytes, made, file, shared>>
      /\ tmpName # 0 => objName' = tmpName /\ tmpName' = 0 /\ opc' = [opc EXCEPT ![w] = "idle"]
      /\ tmpName = 0 => opc' = [opc EXCEPT ![w] = "clean"] /\ UNCHANGED <<tmpName, objName>>
  BY DEF RenameTmp
<1>2. Open(w) /\ \A v \in ObjectWriter : Open(v)' => Open(v) /\ v # w
  BY <1>1 DEF Open, ObjectInv, ObjectFilesTypeOK
<1>3. ObjectFilesTypeOK' /\ NamesOK' /\ OpenOK'
  BY <1>1, <1>2, ObjectFilesAssumption DEF ObjectInv, ObjectFilesTypeOK, NamesOK, OpenOK
<1>4. AloneOK'
  <2>. SUFFICES ASSUME ~shared PROVE AloneOK'
    BY <1>1 DEF AloneOK
  <2>1. tmpName # 0 /\ bytes[tmpName] = {1, 2} /\ \A v \in ObjectWriter : ~Open(v)'
    BY <1>1, <1>2 DEF ObjectInv, AloneOK
  <2>2. \A v \in ObjectWriter : opc'[v] # "clean"
    BY <1>1, <2>1 DEF ObjectInv, ObjectFilesTypeOK, AloneOK
  <2>3. QED
    BY <1>1, <2>1, <2>2 DEF AloneOK, Open
<1>5. QED
  BY <1>3, <1>4 DEF ObjectInv

LEMMA RemoveTmpInv ==
    ASSUME ObjectInv, NEW w \in ObjectWriter, RemoveTmp(w)
    PROVE  ObjectInv'
<1>1. /\ opc[w] = "clean" /\ tmpName' = 0 /\ opc' = [opc EXCEPT ![w] = "idle"]
      /\ UNCHANGED <<objName, bytes, made, file, shared>>
  BY DEF RemoveTmp
<1>2. \A v \in ObjectWriter : Open(v)' => Open(v)
  BY <1>1 DEF Open, ObjectInv, ObjectFilesTypeOK
<1>3. ObjectFilesTypeOK' /\ NamesOK' /\ OpenOK'
  BY <1>1, <1>2, ObjectFilesAssumption DEF ObjectInv, ObjectFilesTypeOK, NamesOK, OpenOK
<1>4. AloneOK'
  BY <1>1 DEF ObjectInv, AloneOK
<1>5. QED
  BY <1>3, <1>4 DEF ObjectInv

LEMMA ObjectNextInv == ObjectInv /\ [ObjectNext]_objectVars => ObjectInv'
<1>. SUFFICES ASSUME ObjectInv, [ObjectNext]_objectVars PROVE ObjectInv'
  OBVIOUS
<1>1. CASE DeleteObject
  <2>1. objName' = 0 /\ UNCHANGED <<tmpName, bytes, made, opc, file, shared>>
    BY <1>1 DEF DeleteObject
  <2>2. ObjectFilesTypeOK' /\ NamesOK' /\ OpenOK'
    BY <2>1, ObjectFilesAssumption
    DEF ObjectInv, ObjectFilesTypeOK, NamesOK, OpenOK, Open
  <2>3. AloneOK'
    BY <2>1 DEF ObjectInv, AloneOK, HasObject, Open
  <2>4. QED
    BY <2>2, <2>3 DEF ObjectInv
<1>2. CASE KillWriters
  <2>1. /\ opc' = [w \in ObjectWriter |-> "idle"]
        /\ UNCHANGED <<tmpName, objName, bytes, made, file, shared>>
    BY <1>2 DEF KillWriters
  <2>2. ObjectFilesTypeOK' /\ NamesOK' /\ OpenOK'
    BY <2>1 DEF ObjectInv, ObjectFilesTypeOK, NamesOK, OpenOK, Open
  <2>3. AloneOK'
    BY <2>1 DEF ObjectInv, AloneOK, HasObject, Open
  <2>4. QED
    BY <2>2, <2>3 DEF ObjectInv
<1>3. ASSUME NEW w \in ObjectWriter,
             Look(w) \/ CreateTmp(w) \/ WritePart(w) \/ Synced(w) \/ RenameTmp(w) \/ RemoveTmp(w)
      PROVE  ObjectInv'
  BY <1>3, LookInv, CreateTmpInv, WritePartInv, SyncedInv, RenameTmpInv, RemoveTmpInv
<1>4. CASE UNCHANGED objectVars
  BY <1>4 DEF objectVars, ObjectInv, ObjectFilesTypeOK, NamesOK, OpenOK, AloneOK, Open, HasObject
<1>5. QED
  BY <1>1, <1>2, <1>3, <1>4 DEF ObjectNext

\* Whatever is under an object's name is whole, through any kills, deletions and
\* writers one after another: put_encoded may take a name that is there for an
\* object that is there (object.rs, write_atomic).
THEOREM ObjectsAlwaysWhole == ObjectSpec => []ObjectsWhole
<1>1. ObjectInv => ObjectsWhole
  BY DEF ObjectInv, AloneOK, ObjectsWhole
<1>2. QED
  BY <1>1, ObjectInitInv, ObjectNextInv, PTL DEF ObjectSpec

\* Type correctness of the object files: no more are made than there is room for, and
\* no writer is anywhere but between two of its steps.
THEOREM ObjectsTyped == ObjectSpec => []ObjectFilesTypeOK
<1>1. ObjectInv => ObjectFilesTypeOK
  BY DEF ObjectInv
<1>2. QED
  BY <1>1, ObjectInitInv, ObjectNextInv, PTL DEF ObjectSpec

-----------------------------------------------------------------------------
(***************************************************************************)
(* The backup's ledger.                                                    *)
(***************************************************************************)
Times == {0} \cup {AddedAt(s) : s \in camera}

\* The photos that NothingSkipped is about and the vault does not have yet.
Pending == {y \in camera \ Oversize : Alone(y) /\ y \notin vaulted}

LedgerTyped ==
    /\ camera \subseteq Shot /\ ledger \subseteq Shot /\ vaulted \subseteq Shot
    /\ bpc \in [BackupRun -> {"idle", "photos", "flush", "record", "lastflush", "lastrecord"}]
    /\ todo \in [BackupRun -> SUBSET Shot]
    /\ known \in [BackupRun -> SUBSET Shot]
    /\ unsaved \in [BackupRun -> SUBSET Shot]
    /\ watermark \in [BackupRun -> Nat] /\ at \in [BackupRun -> Nat] /\ lastBackup \in Nat
    /\ stalled \in [BackupRun -> BOOLEAN] /\ fails \in 0 .. MaxFails /\ leftover \in BOOLEAN

\* Every time a run or the settings hold is that of a photo on the phone.
TimesOK ==
    /\ lastBackup \in Times
    /\ \A r \in BackupRun : watermark[r] \in Times /\ at[r] \in Times /\ todo[r] \subseteq camera

IdleOK == \A r \in BackupRun : bpc[r] = "idle" => known[r] = {} /\ unsaved[r] = {} /\ todo[r] = {}

\* What is believed to be in the vault is there.
BeliefOK == ~leftover =>
    /\ ledger \subseteq vaulted
    /\ \A r \in BackupRun : known[r] \subseteq vaulted /\ unsaved[r] \subseteq vaulted

\* No watermark, recorded, held or about to be held, has passed a pending photo.
Ahead(r, y) ==
    /\ AddedAt(y) > watermark[r]
    /\ ~stalled[r] =>
         /\ y \in todo[r] \/ \A x \in todo[r] : AddedAt(y) > AddedAt(x)
         /\ bpc[r] \in {"flush", "record"} => AddedAt(y) > at[r]

AheadOK == ~leftover => \A y \in Pending :
    /\ AddedAt(y) > lastBackup
    /\ \A r \in BackupRun : bpc[r] # "idle" => Ahead(r, y)

BackupInv == LedgerTyped /\ TimesOK /\ IdleOK /\ BeliefOK /\ AheadOK

-----------------------------------------------------------------------------
LEMMA BackupInitInv == BackupInit => BackupInv
<1>. SUFFICES ASSUME BackupInit PROVE BackupInv
  OBVIOUS
<1>1. /\ camera = {} /\ lastBackup = 0 /\ ledger = {} /\ vaulted = {} /\ fails = 0 /\ leftover = FALSE
      /\ \A r \in BackupRun : /\ bpc[r] = "idle" /\ todo[r] = {} /\ known[r] = {} /\ unsaved[r] = {}
                              /\ watermark[r] = 0 /\ at[r] = 0 /\ stalled[r] = FALSE
  BY DEF BackupInit
<1>2. LedgerTyped
  <2>1. todo \in [BackupRun -> SUBSET Shot] /\ known = todo /\ unsaved = todo
    BY DEF BackupInit
  <2>2. watermark \in [BackupRun -> Nat] /\ at = watermark /\ stalled \in [BackupRun -> BOOLEAN]
    BY DEF BackupInit
  <2>3. bpc \in [BackupRun -> {"idle", "photos", "flush", "record", "lastflush", "lastrecord"}]
    BY DEF BackupInit
  <2>4. fails \in 0 .. MaxFails
    BY <1>1, BackupAssumption
  <2>5. QED
    BY <1>1, <2>1, <2>2, <2>3, <2>4 DEF LedgerTyped
<1>3. TimesOK /\ IdleOK /\ BeliefOK
  BY <1>1 DEF TimesOK, Times, IdleOK, BeliefOK
<1>4. AheadOK
  BY <1>1 DEF AheadOK, Pending
<1>5. QED
  BY <1>2, <1>3, <1>4 DEF BackupInv

\* A photo is not older than those before it, so no watermark has passed it.
LEMMA ShootInv ==
    ASSUME BackupInv, Shoot
    PROVE  BackupInv'
<1>1. PICK s \in Shot \ camera :
        /\ \A x \in camera : AddedAt(x) =< AddedAt(s)
        /\ camera' = camera \cup {s}
  BY DEF Shoot
<1>2. UNCHANGED <<lastBackup, ledger, vaulted, bpc, todo, known, unsaved, watermark, stalled, at, fails, leftover>>
  BY DEF Shoot
<1>3. LedgerTyped'
  BY <1>1, <1>2 DEF BackupInv, LedgerTyped
<1>4. TimesOK'
  BY <1>1, <1>2 DEF BackupInv, TimesOK, Times
<1>5. IdleOK' /\ BeliefOK'
  BY <1>2 DEF BackupInv, IdleOK, BeliefOK
<1>6. AheadOK'
  <2>. SUFFICES ASSUME ~leftover, NEW y \in Pending'
                PROVE  /\ AddedAt(y) > lastBackup
                       /\ \A r \in BackupRun : bpc[r] # "idle" => Ahead(r, y)
    BY <1>2 DEF AheadOK, Ahead
  <2>1. y \in Pending \/ (y = s /\ Alone(s))
    BY <1>1, <1>2 DEF Pending
  <2>2. CASE y \in Pending
    BY <2>2 DEF BackupInv, AheadOK
  <2>3. CASE y = s /\ Alone(s)
    <3>1. \A x \in camera : x \in Shot /\ AddedAt(x) \in Nat /\ AddedAt(s) \in Nat /\ AddedAt(x) # AddedAt(s)
      BY <1>1, <2>3, BackupAssumption DEF BackupInv, LedgerTyped, Alone
    <3>2. \A x \in camera : AddedAt(s) > AddedAt(x)
      BY <1>1, <3>1
    <3>3. \A t \in Times : AddedAt(s) > t
      BY <3>2, BackupAssumption DEF Times
    <3>4. QED
      BY <2>3, <3>2, <3>3 DEF BackupInv, TimesOK, Ahead
  <2>4. QED
    BY <2>1, <2>2, <2>3
<1>7. QED
  BY <1>3, <1>4, <1>5, <1>6 DEF BackupInv

LEMMA StartRunInv ==
    ASSUME BackupInv, NEW r \in BackupRun, StartRun(r)
    PROVE  BackupInv'
<1>1. /\ bpc' = [bpc EXCEPT ![r] = "photos"]
      /\ known' = [known EXCEPT ![r] = ledger]
      /\ todo' = [todo EXCEPT ![r] = {s \in camera : AddedAt(s) > lastBackup}]
      /\ watermark' = [watermark EXCEPT ![r] = lastBackup]
      /\ unsaved' = [unsaved EXCEPT ![r] = {}] /\ stalled' = [stalled EXCEPT ![r] = FALSE]
      /\ UNCHANGED <<camera, lastBackup, ledger, vaulted, at, fails, leftover>>
  BY DEF StartRun
<1>2. LedgerTyped'
  BY <1>1 DEF BackupInv, LedgerTyped
<1>3. TimesOK'
  BY <1>1 DEF BackupInv, LedgerTyped, TimesOK, Times
<1>4. IdleOK'
  BY <1>1 DEF BackupInv, LedgerTyped, IdleOK
<1>5. BeliefOK'
  BY <1>1 DEF BackupInv, LedgerTyped, BeliefOK
<1>6. AheadOK'
  <2>. SUFFICES ASSUME ~leftover, NEW y \in Pending
                PROVE  /\ AddedAt(y) > lastBackup
                       /\ \A q \in BackupRun : bpc'[q] # "idle" => Ahead(q, y)'
    BY <1>1 DEF AheadOK, Pending
  <2>1. AddedAt(y) > lastBackup
    BY DEF BackupInv, AheadOK
  <2>2. Ahead(r, y)'
    BY <1>1, <2>1 DEF BackupInv, LedgerTyped, Ahead, Pending
  <2>3. ASSUME NEW q \in BackupRun \ {r}, bpc'[q] # "idle" PROVE Ahead(q, y)'
    <3>1. bpc[q] # "idle" /\ Ahead(q, y)
      BY <1>1, <2>3 DEF BackupInv, LedgerTyped, AheadOK
    <3>2. QED
      BY <1>1, <3>1 DEF BackupInv, LedgerTyped, Ahead
  <2>4. QED
    BY <2>1, <2>2, <2>3
<1>7. QED
  BY <1>2, <1>3, <1>4, <1>5, <1>6 DEF BackupInv

\* A pending photo other than the one in hand is later than it.
LEMMA InHandFirst ==
    ASSUME BackupInv, ~leftover, NEW r \in BackupRun, NEW s, InHand(r, s),
           NEW y \in Pending, y # s
    PROVE  /\ Ahead(r, y) /\ bpc[r] = "photos"
           /\ ~stalled[r] => AddedAt(y) > AddedAt(s) /\ (y \in todo[r] \ {s} \/ \A x \in todo[r] : AddedAt(y) > AddedAt(x))
<1>1. bpc[r] = "photos" /\ s \in todo[r] /\ \A x \in todo[r] : AddedAt(s) =< AddedAt(x)
  BY DEF InHand
<1>2. Ahead(r, y)
  BY <1>1 DEF BackupInv, AheadOK
<1>3. s \in Shot /\ y \in Shot /\ AddedAt(s) \in Nat /\ AddedAt(y) \in Nat /\ AddedAt(s) # AddedAt(y)
  BY <1>1, BackupAssumption DEF BackupInv, LedgerTyped, Pending, Alone
<1>4. QED
  BY <1>1, <1>2, <1>3 DEF Ahead

LEMMA PassPhotoInv ==
    ASSUME BackupInv, NEW r \in BackupRun, PassPhoto(r)
    PROVE  BackupInv'
<1>1. PICK s \in todo[r] :
        /\ InHand(r, s) /\ s \in Oversize \cup known[r]
        /\ watermark' = [watermark EXCEPT ![r] = Advanced(r, AddedAt(s))]
  BY DEF PassPhoto
<1>2. /\ todo' = [todo EXCEPT ![r] = @ \ {s}]
      /\ UNCHANGED <<camera, lastBackup, ledger, vaulted, bpc, known, unsaved, stalled, at, fails, leftover>>
  BY <1>1 DEF PassPhoto, InHand
<1>3. s \in camera /\ s \in Shot /\ AddedAt(s) \in Nat /\ AddedAt(s) \in Times
  BY <1>1, BackupAssumption DEF BackupInv, LedgerTyped, TimesOK, Times
<1>4. LedgerTyped'
  BY <1>1, <1>2, <1>3 DEF BackupInv, LedgerTyped, Advanced
<1>5. TimesOK'
  BY <1>1, <1>2, <1>3 DEF BackupInv, LedgerTyped, TimesOK, Times, Advanced
<1>6. IdleOK'
  BY <1>2 DEF BackupInv, LedgerTyped, IdleOK
<1>7. BeliefOK'
  BY <1>2 DEF BackupInv, BeliefOK
<1>8. AheadOK'
  <2>. SUFFICES ASSUME ~leftover, NEW y \in Pending, NEW q \in BackupRun, bpc[q] # "idle"
                PROVE  Ahead(q, y)'
    BY <1>2 DEF BackupInv, AheadOK, Pending
  <2>1. y # s
    BY <1>1 DEF BackupInv, BeliefOK, Pending
  <2>2. CASE q = r
    BY <1>1, <1>2, <2>1, <2>2, InHandFirst DEF BackupInv, LedgerTyped, Ahead, Advanced
  <2>3. CASE q # r
    BY <1>1, <1>2, <2>3 DEF BackupInv, LedgerTyped, AheadOK, Ahead
  <2>4. QED
    BY <2>2, <2>3
<1>9. QED
  BY <1>4, <1>5, <1>6, <1>7, <1>8 DEF BackupInv

LEMMA UploadPhotoInv ==
    ASSUME BackupInv, NEW r \in BackupRun, UploadPhoto(r)
    PROVE  BackupInv'
<1>1. PICK s \in todo[r] :
        /\ InHand(r, s)
        /\ vaulted' = vaulted \cup {s}
        /\ known'   = [known EXCEPT ![r] = @ \cup {s}]
        /\ unsaved' = [unsaved EXCEPT ![r] = @ \cup {s}]
        /\ \/ /\ bpc' = [bpc EXCEPT ![r] = "flush"]
              /\ at' = [at EXCEPT ![r] = AddedAt(s)] /\ UNCHANGED watermark
           \/ /\ watermark' = [watermark EXCEPT ![r] = Advanced(r, AddedAt(s))]
              /\ UNCHANGED <<bpc, at>>
  BY DEF UploadPhoto
<1>2. /\ todo' = [todo EXCEPT ![r] = @ \ {s}] /\ bpc[r] = "photos"
      /\ UNCHANGED <<camera, lastBackup, ledger, stalled, fails, leftover>>
  BY <1>1 DEF UploadPhoto, InHand
<1>3. s \in camera /\ s \in Shot /\ AddedAt(s) \in Nat /\ AddedAt(s) \in Times
  BY <1>1, BackupAssumption DEF BackupInv, LedgerTyped, TimesOK, Times
<1>4. LedgerTyped'
  BY <1>1, <1>2, <1>3 DEF BackupInv, LedgerTyped, Advanced
<1>5. TimesOK'
  BY <1>1, <1>2, <1>3 DEF BackupInv, LedgerTyped, TimesOK, Times, Advanced
<1>6. IdleOK'
  BY <1>1, <1>2 DEF BackupInv, LedgerTyped, IdleOK
<1>7. BeliefOK'
  BY <1>1, <1>2 DEF BackupInv, LedgerTyped, BeliefOK
<1>8. AheadOK'
  <2>. SUFFICES ASSUME ~leftover, NEW y \in Pending, y # s, NEW q \in BackupRun, bpc'[q] # "idle"
                PROVE  Ahead(q, y)'
    BY <1>1, <1>2 DEF BackupInv, AheadOK, Pending
  <2>2. CASE q = r
    BY <1>1, <1>2, <2>2, InHandFirst DEF BackupInv, LedgerTyped, Ahead, Advanced
  <2>3. CASE q # r
    BY <1>1, <1>2, <2>3 DEF BackupInv, LedgerTyped, AheadOK, Ahead
  <2>4. QED
    BY <2>2, <2>3
<1>9. QED
  BY <1>4, <1>5, <1>6, <1>7, <1>8 DEF BackupInv

LEMMA FailPhotoInv ==
    ASSUME BackupInv, NEW r \in BackupRun, FailPhoto(r)
    PROVE  BackupInv'
<1>1. PICK s \in todo[r] :
        /\ InHand(r, s) /\ Fail /\ stalled' = [stalled EXCEPT ![r] = TRUE]
        /\ UNCHANGED <<camera, lastBackup, ledger, vaulted, bpc, known, unsaved, watermark, at, leftover>>
  BY DEF FailPhoto
<1>2. /\ todo' = [todo EXCEPT ![r] = @ \ {s}]
      /\ bpc[r] = "photos" /\ stalled' = [stalled EXCEPT ![r] = TRUE]
      /\ fails' \in 0 .. MaxFails
      /\ UNCHANGED <<camera, lastBackup, ledger, vaulted, bpc, known, unsaved, watermark, at, leftover>>
  BY <1>1, BackupAssumption DEF InHand, Fail, BackupInv, LedgerTyped
<1>3. LedgerTyped'
  BY <1>2 DEF BackupInv, LedgerTyped
<1>4. TimesOK' /\ IdleOK'
  BY <1>2 DEF BackupInv, LedgerTyped, TimesOK, Times, IdleOK
<1>5. BeliefOK'
  BY <1>2 DEF BackupInv, BeliefOK
<1>6. AheadOK'
  <2>. SUFFICES ASSUME ~leftover, NEW y \in Pending, NEW q \in BackupRun, bpc[q] # "idle"
                PROVE  Ahead(q, y)'
    BY <1>2 DEF BackupInv, AheadOK, Pending
  <2>1. Ahead(q, y)
    BY DEF BackupInv, AheadOK
  <2>2. QED
    BY <1>2, <2>1 DEF BackupInv, LedgerTyped, Ahead
<1>7. QED
  BY <1>3, <1>4, <1>5, <1>6 DEF BackupInv

LEMMA FlushInv ==
    ASSUME BackupInv, NEW r \in BackupRun, Flush(r)
    PROVE  BackupInv'
<1>1. /\ bpc[r] \in {"flush", "lastflush"}
      /\ ledger' = ledger \cup unsaved[r]
      /\ unsaved' = [unsaved EXCEPT ![r] = {}]
      /\ bpc' = [bpc EXCEPT ![r] = IF @ = "flush" THEN "record" ELSE "lastrecord"]
      /\ UNCHANGED <<camera, lastBackup, vaulted, todo, known, watermark, stalled, at, fails, leftover>>
  BY DEF Flush, ToLedger
<1>2. LedgerTyped'
  BY <1>1 DEF BackupInv, LedgerTyped
<1>3. TimesOK'
  BY <1>1 DEF BackupInv, TimesOK, Times
<1>4. IdleOK' /\ BeliefOK'
  BY <1>1 DEF BackupInv, LedgerTyped, IdleOK, BeliefOK
<1>5. AheadOK'
  <2>. SUFFICES ASSUME ~leftover, NEW y \in Pending, NEW q \in BackupRun, bpc'[q] # "idle"
                PROVE  Ahead(q, y)'
    BY <1>1 DEF BackupInv, AheadOK, Pending
  <2>1. /\ bpc[q] # "idle"
        /\ bpc'[q] \in {"flush", "record"} => bpc[q] \in {"flush", "record"}
    BY <1>1 DEF BackupInv, LedgerTyped
  <2>2. QED
    BY <1>1, <2>1 DEF BackupInv, AheadOK, Ahead
<1>6. QED
  BY <1>2, <1>3, <1>4, <1>5 DEF BackupInv

LEMMA RecordInv ==
    ASSUME BackupInv, NEW r \in BackupRun, Record(r)
    PROVE  BackupInv'
<1>1. /\ bpc[r] = "record"
      /\ lastBackup' = IF stalled[r] THEN lastBackup ELSE watermark[r]
      /\ watermark' = [watermark EXCEPT ![r] = IF stalled[r] THEN watermark[r] ELSE at[r]]
      /\ bpc' = [bpc EXCEPT ![r] = "photos"] /\ at' = [at EXCEPT ![r] = 0]
      /\ UNCHANGED <<camera, ledger, vaulted, todo, known, unsaved, stalled, fails, leftover>>
  BY DEF Record, Advanced
<1>2. LedgerTyped'
  BY <1>1 DEF BackupInv, LedgerTyped
<1>3. TimesOK'
  BY <1>1 DEF BackupInv, LedgerTyped, TimesOK, Times
<1>4. IdleOK' /\ BeliefOK'
  BY <1>1 DEF BackupInv, LedgerTyped, IdleOK, BeliefOK
<1>5. AheadOK'
  <2>. SUFFICES ASSUME ~leftover, NEW y \in Pending
                PROVE  /\ AddedAt(y) > lastBackup'
                       /\ \A q \in BackupRun : bpc'[q] # "idle" => Ahead(q, y)'
    BY <1>1 DEF AheadOK, Pending
  <2>1. /\ AddedAt(y) > lastBackup
        /\ \A q \in BackupRun : bpc[q] # "idle" => Ahead(q, y)
    BY DEF BackupInv, AheadOK
  <2>2. Ahead(r, y)
    BY <1>1, <2>1
  <2>3. AddedAt(y) > lastBackup'
    BY <1>1, <2>1, <2>2 DEF Ahead
  <2>4. Ahead(r, y)'
    BY <1>1, <2>2 DEF BackupInv, LedgerTyped, Ahead
  <2>5. ASSUME NEW q \in BackupRun \ {r}, bpc'[q] # "idle" PROVE Ahead(q, y)'
    <3>1. bpc[q] # "idle" /\ Ahead(q, y)
      BY <1>1, <2>1, <2>5 DEF BackupInv, LedgerTyped
    <3>2. QED
      BY <1>1, <3>1 DEF BackupInv, LedgerTyped, Ahead
  <2>6. QED
    BY <2>3, <2>4, <2>5
<1>6. QED
  BY <1>2, <1>3, <1>4, <1>5 DEF BackupInv

LEMMA EndPhotosInv ==
    ASSUME BackupInv, NEW r \in BackupRun, EndPhotos(r)
    PROVE  BackupInv'
<1>1. /\ bpc[r] = "photos" /\ bpc' = [bpc EXCEPT ![r] = "lastflush"] /\ fails' \in 0 .. MaxFails
      /\ UNCHANGED <<camera, lastBackup, ledger, vaulted, todo, known, unsaved, watermark, stalled, at, leftover>>
  BY BackupAssumption DEF EndPhotos, Fail, BackupInv, LedgerTyped
<1>2. LedgerTyped'
  BY <1>1 DEF BackupInv, LedgerTyped
<1>3. TimesOK' /\ IdleOK' /\ BeliefOK'
  BY <1>1 DEF BackupInv, LedgerTyped, TimesOK, Times, IdleOK, BeliefOK
<1>4. AheadOK'
  BY <1>1 DEF BackupInv, LedgerTyped, AheadOK, Ahead, Pending
<1>5. QED
  BY <1>2, <1>3, <1>4 DEF BackupInv

\* The variables of the runs that are over; the others keep theirs.
LEMMA OverInv ==
    ASSUME BackupInv, NEW runs \in SUBSET BackupRun, Over(runs),
           fails' \in 0 .. MaxFails,
           UNCHANGED <<camera, ledger, vaulted, leftover>>,
           lastBackup' \in Times,
           ~leftover => \A y \in Pending : AddedAt(y) > lastBackup'
    PROVE  BackupInv'
<1>1. \A q \in BackupRun :
        /\ q \in runs => /\ bpc'[q] = "idle" /\ todo'[q] = {} /\ known'[q] = {} /\ unsaved'[q] = {}
                         /\ watermark'[q] = 0 /\ at'[q] = 0
        /\ q \notin runs => /\ bpc'[q] = bpc[q] /\ todo'[q] = todo[q] /\ known'[q] = known[q]
                            /\ unsaved'[q] = unsaved[q] /\ watermark'[q] = watermark[q]
                            /\ at'[q] = at[q] /\ stalled'[q] = stalled[q]
  BY DEF Over, BackupInv, LedgerTyped
<1>2. LedgerTyped'
  <2>1. lastBackup' \in Nat
    BY BackupAssumption DEF Times, BackupInv, LedgerTyped
  <2>2. /\ bpc' \in [BackupRun -> {"idle", "photos", "flush", "record", "lastflush", "lastrecord"}]
        /\ todo' \in [BackupRun -> SUBSET Shot]
        /\ known' \in [BackupRun -> SUBSET Shot]
    BY DEF Over, BackupInv, LedgerTyped
  <2>3. /\ unsaved' \in [BackupRun -> SUBSET Shot]
        /\ watermark' \in [BackupRun -> Nat] /\ at' \in [BackupRun -> Nat]
    BY DEF Over, BackupInv, LedgerTyped
  <2>4. stalled' \in [BackupRun -> BOOLEAN]
    BY Zenon DEF Over, BackupInv, LedgerTyped
  <2>5. QED
    BY <2>1, <2>2, <2>3, <2>4 DEF BackupInv, LedgerTyped
<1>3. TimesOK'
  BY <1>1 DEF BackupInv, TimesOK, Times
<1>4. IdleOK' /\ BeliefOK'
  BY <1>1 DEF BackupInv, IdleOK, BeliefOK
<1>5. AheadOK'
  <2>. SUFFICES ASSUME ~leftover, NEW y \in Pending, NEW q \in BackupRun, bpc'[q] # "idle"
                PROVE  Ahead(q, y)'
    BY DEF AheadOK, Pending
  <2>1. q \notin runs /\ bpc[q] # "idle" /\ Ahead(q, y)
    BY <1>1 DEF BackupInv, AheadOK
  <2>2. QED
    BY <1>1, <2>1 DEF Ahead
<1>6. QED
  BY <1>2, <1>3, <1>4, <1>5 DEF BackupInv

LEMMA RecordLastInv ==
    ASSUME BackupInv, NEW r \in BackupRun, RecordLast(r)
    PROVE  BackupInv'
<1>1. /\ bpc[r] = "lastrecord" /\ lastBackup' = watermark[r] /\ Over({r})
      /\ UNCHANGED <<camera, ledger, vaulted, fails, leftover>>
  BY DEF RecordLast
<1>2. lastBackup' \in Times /\ fails' \in 0 .. MaxFails
  BY <1>1 DEF BackupInv, LedgerTyped, TimesOK
<1>3. ~leftover => \A y \in Pending : AddedAt(y) > lastBackup'
  BY <1>1 DEF BackupInv, AheadOK, Ahead
<1>4. QED
  BY <1>1, <1>2, <1>3, OverInv

LEMMA KillPhoneInv ==
    ASSUME BackupInv, KillPhone
    PROVE  BackupInv'
<1>1. /\ Over(BackupRun) /\ fails' \in 0 .. MaxFails
      /\ UNCHANGED <<camera, lastBackup, ledger, vaulted, leftover>>
  BY BackupAssumption DEF KillPhone, Fail, BackupInv, LedgerTyped
<1>2. lastBackup' \in Times
  BY <1>1 DEF BackupInv, TimesOK
<1>3. ~leftover => \A y \in Pending : AddedAt(y) > lastBackup'
  BY <1>1 DEF BackupInv, AheadOK
<1>4. QED
  BY <1>1, <1>2, <1>3, OverInv

LEMMA SignOutInv ==
    ASSUME BackupInv, SignOut
    PROVE  BackupInv'
<1>1. /\ lastBackup' = 0 /\ ledger' = {} /\ vaulted' = {} /\ fails' \in 0 .. MaxFails
      /\ leftover' = (leftover \/ \E r \in BackupRun : bpc[r] # "idle")
      /\ UNCHANGED <<camera, bpc, todo, known, unsaved, watermark, stalled, at>>
  BY BackupAssumption DEF SignOut, Fail, BackupInv, LedgerTyped
<1>2. leftover' \in BOOLEAN
  BY <1>1
<1>3. LedgerTyped'
  BY <1>1, <1>2 DEF BackupInv, LedgerTyped
<1>4. TimesOK' /\ IdleOK'
  BY <1>1 DEF BackupInv, TimesOK, Times, IdleOK
<1>5. ~leftover' => \A r \in BackupRun : bpc'[r] = "idle"
  BY <1>1
<1>6. BeliefOK'
  BY <1>1, <1>4, <1>5 DEF IdleOK, BeliefOK
<1>7. AheadOK'
  <2>1. \A y \in Pending' : AddedAt(y) > 0
    BY <1>3, BackupAssumption DEF Pending, LedgerTyped
  <2>2. QED
    BY <1>1, <1>5, <2>1 DEF AheadOK
<1>8. QED
  BY <1>3, <1>4, <1>6, <1>7 DEF BackupInv

LEMMA BackupNextInv == BackupInv /\ [BackupNext]_backupVars => BackupInv'
<1>. SUFFICES ASSUME BackupInv, [BackupNext]_backupVars PROVE BackupInv'
  OBVIOUS
<1>1. CASE Shoot
  BY <1>1, ShootInv
<1>2. CASE KillPhone
  BY <1>2, KillPhoneInv
<1>3. CASE SignOut
  BY <1>3, SignOutInv
<1>4. ASSUME NEW r \in BackupRun, StartRun(r) \/ Working(r) \/ FailPhoto(r) PROVE BackupInv'
  <2>1. CASE StartRun(r)
    BY <2>1, StartRunInv
  <2>2. CASE PassPhoto(r)
    BY <2>2, PassPhotoInv
  <2>3. CASE UploadPhoto(r)
    BY <2>3, UploadPhotoInv
  <2>4. CASE Flush(r)
    BY <2>4, FlushInv
  <2>5. CASE Record(r)
    BY <2>5, RecordInv
  <2>6. CASE EndPhotos(r)
    BY <2>6, EndPhotosInv
  <2>7. CASE RecordLast(r)
    BY <2>7, RecordLastInv
  <2>8. CASE FailPhoto(r)
    BY <2>8, FailPhotoInv
  <2>9. QED
    BY <1>4, <2>1, <2>2, <2>3, <2>4, <2>5, <2>6, <2>7, <2>8 DEF Working
<1>5. CASE UNCHANGED backupVars
  BY <1>5 DEF backupVars, BackupInv, LedgerTyped, TimesOK, Times, IdleOK, BeliefOK, AheadOK, Ahead, Pending
<1>6. QED
  BY <1>1, <1>2, <1>3, <1>4, <1>5 DEF BackupNext

-----------------------------------------------------------------------------
LEMMA BackupAlwaysInv == BackupSpec => []BackupInv
  BY BackupInitInv, BackupNextInv, PTL DEF BackupSpec

\* Type correctness of the settings, the vault and the variables of doWork.
THEOREM BackupTypeCorrect == BackupSpec => []BackupTypeOK
<1>1. BackupInv => BackupTypeOK
  <2>. SUFFICES ASSUME BackupInv PROVE BackupTypeOK
    OBVIOUS
  <2>1. lastBackup \in {0} \cup {AddedAt(s) : s \in Shot}
    BY DEF BackupInv, TimesOK, Times, LedgerTyped
  <2>2. QED
    BY <2>1 DEF BackupInv, LedgerTyped, BackupTypeOK
<1>2. QED
  BY <1>1, BackupAlwaysInv, PTL

\* doWork and markBackedUp: a photo whose hash is in the ledger, which no later
\* run uploads, is in the vault, unless the user signed out during a run.
THEOREM LedgerAlwaysTruthful == BackupSpec => []LedgerTruthful
<1>1. BackupInv => LedgerTruthful
  BY DEF BackupInv, BeliefOK, LedgerTruthful
<1>2. QED
  BY <1>1, BackupAlwaysInv, PTL

\* doWork and recordBackupTime: the recorded watermark never passes a photo that
\* is not in the vault, through failures, kills and two runs at once.
THEOREM NothingEverSkipped == BackupSpec => []NothingSkipped
<1>1. BackupInv => NothingSkipped
  <2>. SUFFICES ASSUME BackupInv, ~leftover,
                       NEW s \in camera \ Oversize, Alone(s), AddedAt(s) =< lastBackup, s \notin vaulted
                PROVE  FALSE
    BY DEF NothingSkipped
  <2>1. s \in Pending /\ AddedAt(s) \in Nat /\ lastBackup \in Nat
    BY BackupAssumption DEF Pending, BackupInv, LedgerTyped
  <2>2. AddedAt(s) > lastBackup
    BY <2>1 DEF BackupInv, AheadOK
  <2>3. QED
    BY <2>1, <2>2
<1>2. QED
  BY <1>1, BackupAlwaysInv, PTL

-----------------------------------------------------------------------------
(***************************************************************************)
(* The parts together.                                                     *)
(***************************************************************************)
LEMMA TransfersAreTheirOwn ==
    TransferSpec => UploadsSpec /\ BackupSpec /\ GuiSpec /\ ObjectSpec /\ StreamSpec
<1>1. TransferInit => UploadsInit /\ BackupInit /\ GuiInit /\ ObjectInit /\ StreamInit
  BY DEF TransferInit
<1>2. [TransferNext]_transferVars => /\ [UploadsNext]_uploadsVars /\ [BackupNext]_backupVars
                                     /\ [GuiNext]_guiVars /\ [ObjectNext]_objectVars
                                     /\ [StreamNext]_streamVars
  BY DEF TransferNext, transferVars
<1>3. QED
  BY <1>1, <1>2, PTL DEF TransferSpec, UploadsSpec, BackupSpec, GuiSpec, ObjectSpec, StreamSpec

\* The five parts beside each other, as MCTransferParts composes them: every variable
\* of each keeps its type, since a step of one is a stutter of the others.
THEOREM TransferTyped == TransferSpec => []TransferTypeOK
<1>1. UploadsTypeOK /\ BackupTypeOK /\ GuiTypeOK /\ ObjectFilesTypeOK /\ StreamTypeOK => TransferTypeOK
  BY DEF TransferTypeOK
<1>2. QED
  BY <1>1, TransfersAreTheirOwn, UploadsTypeCorrect, BackupTypeCorrect, GuiTyped, ObjectsTyped, StreamsTyped, PTL

=============================================================================
