---------------------------- MODULE StreamChunks ----------------------------
(***************************************************************************)
(* How a file is cut into chunks: the gear hash, chunk_slices over a file  *)
(* in memory and chunk_reader over a stream, whose reads return as much as *)
(* they like (crates/quarkdrive-core/src/chunker.rs).  Two devices cut the *)
(* same bytes at the same places only if the two agree: chunk ids are      *)
(* hashes of chunks, and a file node is the list of them.                  *)
(***************************************************************************)
EXTENDS Naturals, Sequences

CONSTANTS
    Byte,           \* bytes
    GEAR(_),        \* gear.rs
    HASH_BITS,      \* width of the hash: 64
    AVG_CHUNK_BITS, MIN_CHUNK, MAX_CHUNK, STREAM_BUF,   \* of chunker.rs
    MaxBytes        \* bound: length of a file

ASSUME StreamAssumption ==
    /\ {HASH_BITS, AVG_CHUNK_BITS, MIN_CHUNK, MAX_CHUNK, STREAM_BUF} \subseteq Nat
    /\ 2 ^ HASH_BITS \in Nat \ {0}   \* arithmetic the provers do not know
    /\ \A b \in Byte : GEAR(b) \in 0 .. 2 ^ HASH_BITS - 1
    /\ AVG_CHUNK_BITS =< HASH_BITS
    /\ 0 < MIN_CHUNK /\ MIN_CHUNK =< MAX_CHUNK /\ MAX_CHUNK < STREAM_BUF
    /\ MaxBytes \in Nat

VARIABLES
    stream,     \* the file
    taken,      \* bytes of it that were read
    buf,        \* buf[..end]
    room,       \* buf.len()
    start, scannedTo,   \* start, and start + scanned
    chunker,    \* [hash, count]
    eof,
    chunks,     \* what emit was given
    spc         \* "idle", "loop" or "done"

streamVars == <<stream, taken, buf, room, start, scannedTo, chunker, eof, chunks, spc>>

-----------------------------------------------------------------------------
NewChunker == [hash |-> 0, count |-> 0]

\* One byte: the hash is shifted and wraps.
Feed(ch, b) ==
    [hash |-> (2 * ch.hash + GEAR(b)) % 2 ^ HASH_BITS, count |-> ch.count + 1]

IsCut(ch) ==
    \/ ch.count >= MIN_CHUNK /\ ch.hash % 2 ^ AVG_CHUNK_BITS = 0
    \/ ch.count >= MAX_CHUNK

\* The chunker after each byte of a slice.
Walk(ch, data) ==
    LET after[i \in 0 .. Len(data)] ==
          IF i = 0 THEN ch ELSE Feed(after[i - 1], data[i])
    IN  after

Fed(ch, data) == Walk(ch, data)[Len(data)]

\* find_boundary: the first cut in a slice, 0 for none.
Cuts(ch, data) == {i \in 1 .. Len(data) : IsCut(Walk(ch, data)[i])}
FindBoundary(ch, data) ==
    IF Cuts(ch, data) = {} THEN 0
    ELSE CHOOSE i \in Cuts(ch, data) : \A j \in Cuts(ch, data) : i =< j

\* chunk_slices: the chunks of what is behind each place.
Slices(data) ==
    LET slices[at \in 0 .. Len(data)] ==
          LET rest == SubSeq(data, at + 1, Len(data))
              cut  == FindBoundary(NewChunker, rest)
          IN  IF rest = <<>> THEN <<>>
              ELSE IF cut = 0 THEN <<rest>>
              ELSE <<SubSeq(rest, 1, cut)>> \o slices[at + cut]
    IN  slices

ChunkSlices(data) == Slices(data)[0]

-----------------------------------------------------------------------------
(***************************************************************************)
(* chunk_reader, one turn of its loop at a time.  An error of the reader or *)
(* of emit ends it anywhere, with what was emitted before.                 *)
(***************************************************************************)
StreamInit ==
    /\ stream = <<>> /\ taken = 0
    /\ buf = <<>> /\ room = STREAM_BUF /\ start = 0 /\ scannedTo = 0
    /\ chunker = NewChunker /\ eof = FALSE /\ chunks = <<>> /\ spc = "idle"

OpenStream == \E n \in 0 .. MaxBytes : \E data \in [1 .. n -> Byte] :
    /\ spc = "idle" /\ spc' = "loop"
    /\ stream' = data
    /\ UNCHANGED <<taken, buf, room, start, scannedTo, chunker, eof, chunks>>

\* What the chunker has not been fed.
Fresh == SubSeq(buf, scannedTo + 1, Len(buf))

CutFound ==
    LET cut == FindBoundary(chunker, Fresh)
    IN  /\ spc = "loop" /\ cut # 0
        /\ chunks' = Append(chunks, SubSeq(buf, start + 1, scannedTo + cut))
        /\ start' = scannedTo + cut /\ scannedTo' = scannedTo + cut
        /\ chunker' = NewChunker
        /\ UNCHANGED <<stream, taken, buf, room, eof, spc>>

NoCut ==
    /\ spc = "loop" /\ Fresh # <<>> /\ FindBoundary(chunker, Fresh) = 0
    /\ chunker' = Fed(chunker, Fresh)
    /\ scannedTo' = Len(buf)
    /\ UNCHANGED <<stream, taken, buf, room, start, eof, chunks, spc>>

\* A reader that does not move what is left to the front.
KeptInPlace == buf

\* copy_within: what was consumed makes way.
Unconsumed == SubSeq(buf, start + 1, Len(buf))

\* The buffer is compacted, grown if it is full, and filled by one read.
ReadMore ==
    /\ spc = "loop" /\ Fresh = <<>> /\ ~eof
    /\ start' = 0 /\ scannedTo' = Len(Unconsumed)
    /\ room' = IF Len(Unconsumed) = room THEN room + STREAM_BUF ELSE room
    /\ IF taken = Len(stream)
       THEN eof' = TRUE /\ buf' = Unconsumed /\ UNCHANGED taken
       ELSE \E n \in 1 .. Len(stream) - taken :
              /\ Len(Unconsumed) + n =< room'
              /\ buf' = Unconsumed \o SubSeq(stream, taken + 1, taken + n)
              /\ taken' = taken + n /\ UNCHANGED eof
    /\ UNCHANGED <<stream, chunker, chunks, spc>>

EndStream ==
    /\ spc = "loop" /\ Fresh = <<>> /\ eof
    /\ chunks' = IF start < Len(buf) THEN Append(chunks, Unconsumed) ELSE chunks
    /\ spc' = "done"
    /\ UNCHANGED <<stream, taken, buf, room, start, scannedTo, chunker, eof>>

StreamNext == OpenStream \/ CutFound \/ NoCut \/ ReadMore \/ EndStream

StreamSpec == StreamInit /\ [][StreamNext]_streamVars

-----------------------------------------------------------------------------
StreamTypeOK ==
    /\ stream \in Seq(Byte) /\ taken \in 0 .. Len(stream)
    /\ Len(buf) =< room /\ start =< scannedTo /\ scannedTo =< Len(buf)
    /\ chunker \in [hash : 0 .. 2 ^ HASH_BITS - 1, count : 0 .. MAX_CHUNK]
    /\ eof \in BOOLEAN /\ spc \in {"idle", "loop", "done"}

\* However the reads divide it, a stream is cut where the same bytes in memory
\* are, all of it and nothing twice, and the buffer never grows ("Only reachable
\* if MAX_CHUNK >= STREAM_BUF"): no chunk is above the ceiling, and none but the
\* last is below the floor.
StreamedIsSliced ==
    /\ LET whole == ChunkSlices(stream)
       IN  /\ Len(chunks) =< Len(whole) /\ chunks = SubSeq(whole, 1, Len(chunks))
           /\ spc = "done" => chunks = whole
    /\ room = STREAM_BUF
    /\ \A i \in DOMAIN chunks : /\ Len(chunks[i]) =< MAX_CHUNK
                                /\ i < Len(chunks) => Len(chunks[i]) >= MIN_CHUNK

=============================================================================
