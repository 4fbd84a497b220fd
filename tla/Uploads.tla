------------------------------- MODULE Uploads -------------------------------
(***************************************************************************)
(* A resumable upload: its row in the uploads table, its part file, the    *)
(* handlers upload_start, upload_chunk, upload_status, upload_finish and   *)
(* upload_cancel (crates/quarkdrive-server/src/api.rs, db.rs), and two     *)
(* kinds of client.  The browser's, uploadInChunks (web/app.js), sends     *)
(* chunk after chunk and the finish, and fails for good at the first       *)
(* answer that is an error or does not come: to try again is to start      *)
(* again.  A client of the API may ask upload_status how far it got and    *)
(* go on from there, cancel, or ask for the finish too early.              *)
(*                                                                         *)
(* Row and file are two stores, so a handler is several steps, and the     *)
(* server may be killed between any two.  The file to send is the bytes    *)
(* 1 .. Size, each told from the others.                                   *)
(***************************************************************************)
EXTENDS Integers, Sequences

CONSTANTS
    Size,           \* bytes of the file
    ChunkBytes,     \* CHUNK_SIZE of the client
    MaxKills,       \* bound: times the server is killed
    MaxLost,        \* bound: connections lost
    MaxTries        \* bound: sessions begun

ASSUME UploadsAssumption ==
    /\ Size \in Nat \ {0} /\ ChunkBytes \in Nat \ {0}
    /\ {MaxKills, MaxLost, MaxTries} \subseteq Nat

Whole    == [i \in 1 .. Size |-> i]
NoRow    == -1
Handlers == {1, 2}     \* a request and its repetition

VARIABLES
    received,   \* uploads.received; NoRow when there is no row
    part,       \* the part file, [there, bytes]
    upc,        \* upc[h]: the next step of handler h
    from,       \* from[h]: the row it read, and the offset of its chunk
    held,       \* held[h]: the bytes upload_finish has read
    offset,     \* the client: what it takes for received
    phase,      \* the client: "start", "send" (between requests), "wait", "done",
                \* "failed", or "gone" (failed, and it knows no session to go on with)
    asked,      \* the client: the handler of its last request
    published,  \* what put_file was given, in order
    kills, lost, tries,
    upset,      \* history: in this session a connection was lost, or the server
                \* killed, with the upload under way
    hasty       \* history: the client went on with a request of its own still at work

uploadsVars == <<received, part, upc, from, held, offset, phase, asked, published,
                 kills, lost, tries, upset, hasty>>

NoPart == [there |-> FALSE, bytes |-> <<>>]

UploadsInit ==
    /\ received = NoRow /\ part = NoPart
    /\ upc  = [h \in Handlers |-> "idle"]
    /\ from = [h \in Handlers |-> 0]
    /\ held = [h \in Handlers |-> <<>>]
    /\ offset = 0 /\ phase = "start" /\ asked = 1 /\ published = <<>>
    /\ kills = 0 /\ lost = 0 /\ tries = 0 /\ upset = FALSE /\ hasty = FALSE

-----------------------------------------------------------------------------
ChunkAt(o) == SubSeq(Whole, o + 1, IF o + ChunkBytes < Size THEN o + ChunkBytes ELSE Size)

HandlersIdle    == \A h \in Handlers : upc[h] = "idle"
HandlerGo(h, s) == upc' = [upc EXCEPT ![h] = s]

Client(step, o) == phase' = step /\ offset' = o

\* The handler is over; its answer reaches a client that still waits for it.
Answer(h, step, o) ==
    /\ HandlerGo(h, "idle")
    /\ IF phase = "wait" /\ asked = h THEN Client(step, o) ELSE UNCHANGED <<offset, phase>>

\* upload_start: the row, then the file.  Each session has its own of both; those
\* of a session given up stay behind.
Start == \E h \in Handlers :
    /\ phase \in {"start", "failed", "gone"} /\ HandlersIdle
    /\ tries < MaxTries /\ tries' = tries + 1
    /\ received' = 0 /\ part' = NoPart
    /\ HandlerGo(h, "create") /\ Client("wait", 0) /\ asked' = h
    /\ upset' = FALSE
    /\ UNCHANGED <<from, held, published, kills, lost, hasty>>

CreatePart(h) ==
    /\ upc[h] = "create"
    /\ part' = [there |-> TRUE, bytes |-> <<>>]
    /\ Answer(h, "send", 0)
    /\ UNCHANGED <<received, from, held, asked, published, kills, lost, tries, upset, hasty>>

\* The client sends the chunk at its offset; upload_chunk reads the row and
\* answers 409 when they differ, 404 when there is none.
SendChunk(h) ==
    /\ phase = "send" /\ offset < Size /\ upc[h] = "idle"
    /\ asked' = h
    /\ IF received # offset
       THEN /\ Client(IF received = NoRow THEN "gone" ELSE "failed", offset)
            /\ UNCHANGED <<upc, from>>
       ELSE /\ HandlerGo(h, "chunk") /\ Client("wait", offset)
            /\ from' = [from EXCEPT ![h] = offset]
    /\ UNCHANGED <<received, part, held, published, kills, lost, tries, upset, hasty>>

\* An append that trusts the row.
LinesUpAlways(h) == part.there

\* "The file must be exactly as long as the recorded offset before we append."
LinesUp(h) == part.there /\ Len(part.bytes) = from[h]

CheckLength(h) ==
    /\ upc[h] = "chunk"
    /\ IF LinesUp(h)
       THEN HandlerGo(h, "append") /\ UNCHANGED <<offset, phase>>
       ELSE Answer(h, "failed", offset)
    /\ UNCHANGED <<received, part, from, held, asked, published, kills, lost, tries, upset, hasty>>

\* The file is open: bytes for a file that is gone by now are gone with it.
Appended(bytes) == IF part.there THEN [part EXCEPT !.bytes = @ \o bytes] ELSE part

AppendChunk(h) ==
    /\ upc[h] = "append"
    /\ part' = Appended(ChunkAt(from[h])) /\ HandlerGo(h, "record")
    /\ UNCHANGED <<received, from, held, offset, phase, asked, published,
                   kills, lost, tries, upset, hasty>>

\* A count of what was asked for, not of what came.
NewBytesAsked(h) == ChunkBytes

NewBytes(h) == Len(ChunkAt(from[h]))


\* The answer: the row read before, and the chunk.
OffsetAfter(h) == from[h] + NewBytes(h)

\* upload_record_bytes adds.
RecordChunk(h) ==
    /\ upc[h] = "record"
    /\ received' = IF received = NoRow THEN NoRow ELSE received + NewBytes(h)
    /\ Answer(h, "send", OffsetAfter(h))
    /\ UNCHANGED <<part, from, held, asked, published, kills, lost, tries, upset, hasty>>

-----------------------------------------------------------------------------
\* A finish that trusts the client to have sent everything.
SizeMatchesAnyway == part.there

\* upload_finish: the row, the file and its length, the vault, the row, the file.
SizeMatches == part.there /\ Len(part.bytes) = Size

FinishAsked(h, refused) ==
    /\ phase = "send" /\ upc[h] = "idle"
    /\ asked' = h
    /\ IF received # NoRow /\ SizeMatches
       THEN /\ HandlerGo(h, "publish") /\ Client("wait", offset)
            /\ held' = [held EXCEPT ![h] = part.bytes]
       ELSE /\ Client(IF received = NoRow THEN "gone" ELSE refused, offset)
            /\ UNCHANGED <<upc, held>>
    /\ UNCHANGED <<received, part, from, published, kills, lost, tries, upset, hasty>>

\* uploadInChunks asks for the end when it has sent everything; a client of the API
\* may ask sooner, and go on when it is refused.
StartFinish(h) == offset >= Size /\ FinishAsked(h, "failed")
FinishEarly(h) == offset < Size /\ FinishAsked(h, "send")

Publish(h) ==
    /\ upc[h] = "publish"
    /\ published' = Append(published, held[h])
    /\ held' = [held EXCEPT ![h] = <<>>]
    /\ HandlerGo(h, "forget")
    /\ UNCHANGED <<received, part, from, offset, phase, asked, kills, lost, tries, upset, hasty>>

\* upload_delete, also the first step of upload_cancel after its check.
ForgetRow(h) ==
    /\ upc[h] = "forget"
    /\ received' = NoRow
    /\ HandlerGo(h, "unlink")
    /\ UNCHANGED <<part, from, held, offset, phase, asked, published,
                   kills, lost, tries, upset, hasty>>

UnlinkPart(h) ==
    /\ upc[h] = "unlink"
    /\ part' = NoPart
    /\ Answer(h, "done", offset)
    /\ UNCHANGED <<received, from, held, asked, published, kills, lost, tries, upset, hasty>>

StartCancel(h) ==
    /\ phase = "send" /\ upc[h] = "idle" /\ received # NoRow
    /\ HandlerGo(h, "forget") /\ Client("wait", offset) /\ asked' = h
    /\ UNCHANGED <<received, part, from, held, published, kills, lost, tries, upset, hasty>>

-----------------------------------------------------------------------------
\* api throws: no answer came, and without upload_start's there is no session.
Throws == Client(IF upc[asked] = "create" THEN "gone" ELSE "failed", offset)

\* The connection is lost before a request, or during one, which runs to its end.
Disconnect ==
    /\ phase \in {"send", "wait"} /\ lost < MaxLost
    /\ lost' = lost + 1 /\ upset' = TRUE /\ Throws
    /\ UNCHANGED <<received, part, upc, from, held, asked, published, kills, tries, hasty>>

\* What upload_status tells the client, as a 409 does.
TrueOffset == received

\* A client of the API asks upload_status, and goes on where it got to.
Resume ==
    /\ phase = "failed"
    /\ IF received = NoRow THEN Client("gone", offset) ELSE Client("send", TrueOffset)
    /\ hasty' = (hasty \/ ~HandlersIdle)
    /\ UNCHANGED <<received, part, upc, from, held, asked, published, kills, lost, tries, upset>>

\* The server is killed and started again: of a chunk being appended any prefix
\* may be in the file.
Kill ==
    /\ kills < MaxKills
    /\ kills' = kills + 1
    /\ upc'  = [h \in Handlers |-> "idle"]
    /\ held' = [h \in Handlers |-> <<>>]
    /\ \/ part' = part
       \/ \E h \in Handlers : \E n \in 1 .. ChunkBytes :
            /\ upc[h] = "append" /\ n =< Len(ChunkAt(from[h]))
            /\ part' = Appended(SubSeq(ChunkAt(from[h]), 1, n))
    /\ IF phase = "wait" THEN upset' = TRUE /\ Throws ELSE UNCHANGED <<upset, offset, phase>>
    /\ UNCHANGED <<received, from, asked, published, lost, tries, hasty>>

UploadsServer == \E h \in Handlers :
    CreatePart(h) \/ CheckLength(h) \/ AppendChunk(h) \/ RecordChunk(h) \/ Publish(h) \/ ForgetRow(h) \/ UnlinkPart(h)

UploadsClient == \E h \in Handlers : SendChunk(h) \/ StartFinish(h)

UploadsNext == UploadsServer \/ UploadsClient \/ Start \/ Resume \/ Disconnect \/ Kill
               \/ \E h \in Handlers : StartCancel(h) \/ FinishEarly(h)

UploadsSpec == UploadsInit /\ [][UploadsNext]_uploadsVars

\* UploadsServer and UploadsClient are fair: handlers run to their end, and
\* uploadInChunks, once begun, goes on by itself.  To start, to try again and to
\* resume are the user's.

-----------------------------------------------------------------------------
UploadsTypeOK ==
    /\ received \in {NoRow} \cup 0 .. Size + ChunkBytes
    /\ part.there \in BOOLEAN /\ (~part.there => part.bytes = <<>>)
    /\ upc \in [Handlers -> {"idle", "create", "chunk", "append", "record", "publish", "forget", "unlink"}]
    /\ from \in [Handlers -> 0 .. Size] /\ offset \in 0 .. Size + ChunkBytes
    /\ phase \in {"start", "send", "wait", "done", "failed", "gone"} /\ asked \in Handlers
    /\ kills \in 0 .. MaxKills /\ lost \in 0 .. MaxLost /\ tries \in 0 .. MaxTries
    /\ {upset, hasty} \subseteq BOOLEAN

\* Whatever was killed, lost and repeated, a file reaches the vault whole: its
\* bytes, once each and in order.  Two copies of a request at work at once can
\* both pass upload_chunk's checks, so no upload may be resumed with one at work.
WholeFiles == ~hasty => \A i \in DOMAIN published : published[i] = Whole

\* What the row says is in the file is there.  (There may be more: a chunk not
\* yet recorded, or never to be.)
RecordedIsStored ==
    ~hasty /\ received > 0 => /\ Len(part.bytes) >= received
                              /\ SubSeq(part.bytes, 1, received) = SubSeq(Whole, 1, received)


=============================================================================
