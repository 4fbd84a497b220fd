-------------------------- MODULE VaultServerProofs --------------------------
(***************************************************************************)
(* Theorems about VaultServer, for any requests, paths, contents, history  *)
(* and bounds.  Types hold whatever happens.  What one handler knows of    *)
(* HEAD needs the server to run one at a time; on that rest, separately,   *)
(* that the log of commits only grows (unless HEAD is torn) and that the   *)
(* objects it needs are there (unless somebody purges during a push).      *)
(***************************************************************************)
EXTENDS VaultServer, TLAPS

Elems(s)   == {s[k] : k \in 1 .. Len(s)}
Purging(r) == pc[r] \in {"keep", "mark", "sweep"}

-----------------------------------------------------------------------------
(***************************************************************************)
(* What is so whatever the schedule.                                       *)
(***************************************************************************)
\* A snapshot ends its own line, and the line names snapshots.
LineOK(i) ==
    /\ snaps[i].line \in Seq(1 .. Len(snaps))
    /\ Len(snaps[i].line) >= 1 /\ snaps[i].line[Len(snaps[i].line)] = i
LinesOK == \A i \in 1 .. Len(snaps) : LineOK(i)

\* A request of the file API that changes one path.
Edits(r) ==
    /\ op[r].kind \in {"put", "delete", "move", "restore"}
    /\ op[r].path \in Path /\ op[r].node \in Content

\* A snapshot that waits to become the head is on the line of its parent.
MadeOK(r) ==
    /\ made[r] \in 1 .. Len(snaps)
    /\ snaps[made[r]].root = root[r]
    /\ snaps[made[r]].line = Append(Line(parent[r]), made[r])
    /\ op[r].kind = "push" \/ Edits(r)

\* A request at a step was asked for something that has this step.
RequestOK(r) ==
    /\ pc[r] = "idle" => op[r] = NoOp
    /\ pc[r] \in {"base", "commit", "trash"} => Edits(r)
    /\ pc[r] \in {"have", "upload"} => op[r].kind = "push"
    /\ pc[r] \in {"head", "write", "trash"} => MadeOK(r)
    /\ pc[r] = "trash" => op[r].kind \in {"delete", "restore"}
    /\ Purging(r) => op[r].kind = "purge"

TypeInv == TypeOK /\ LinesOK /\ \A r \in Requests : RequestOK(r)

(***************************************************************************)
(* What is so when handlers do not interleave.                             *)
(***************************************************************************)
OneAtATime == \A q, r \in Requests : Handling(q) /\ Handling(r) => q = r

\* What the one that moves the head knows of it.
HeadKnown(r) ==
    /\ pc[r] = "head"  => parent[r] = head
    /\ pc[r] = "write" => head = NoHead
    /\ pc[r] = "trash" => head = made[r]

SerialInv == OneAtATime /\ \A r \in Requests : HeadKnown(r)

\* When HEAD, besides, is written whole: the head, or the one being replaced,
\* has every answered change on its line.
AnsweredOnLine == acked \subseteq Elems(Line(HeadOutside))

(***************************************************************************)
(* What is so of the store when, besides, no purge meets a push.           *)
(***************************************************************************)
\* The objects of the newest History snapshots on a line.
HeldAt(i, n) == {Snap(Line(i)[n])} \cup Objects(TreeOf(Line(i)[n]))
Held(i)      == UNION {HeldAt(i, n) : n \in Newest(i)}

HeldThere   == Held(HeadOutside) \subseteq store
PurgesQuiet == \A q, r \in Requests : Purging(q) => ~Pushing(r)

\* What a request is about to commit is in the store, and what a collection is
\* about to spare is what the head and the trash need.
ObjectsOK(r) ==
    /\ Handling(r) /\ ~Purging(r) /\ op[r].kind # "push" => File(op[r].node) \in store
    /\ pc[r] = "commit" => Objects(root[r]) \subseteq store
    /\ pc[r] = "upload" => Objects(root[r]) \subseteq store \cup missing[r]
    /\ pc[r] \in {"head", "write"} => {Snap(made[r])} \cup Objects(root[r]) \subseteq store
    /\ pc[r] \in {"mark", "sweep"} => Keep(trash) \subseteq live[r]
    /\ pc[r] = "sweep" => Held(head) \subseteq live[r]

StoreInv == HeldThere /\ PurgesQuiet /\ TrashRestorable /\ \A r \in Requests : ObjectsOK(r)

-----------------------------------------------------------------------------
LEMMA EmptyTreeIsATree == EmptyTree \in Tree
  BY DEF EmptyTree, Tree

LEMMA NoOpIsAnOperation == NoOp \in Operation
  BY DEF NoOp, Operation

LEMMA ObjectsAreObjects ==
    ASSUME NEW t \in Tree
    PROVE  /\ Objects(t) \subseteq Object
           /\ Dir(t) \in Objects(t)
           /\ \A p \in Path : t[p] # NoNode => File(t[p]) \in Objects(t) /\ t[p] \in Content
<1>1. \A p \in Path : t[p] \in Content \cup {NoNode}
  BY DEF Tree
<1>2. QED
  BY <1>1 DEF Objects, Object, Dir, File

\* The line of a snapshot names snapshots and ends with itself.
LEMMA LineOf ==
    ASSUME TypeOK, LinesOK, NEW i \in 0 .. Len(snaps)
    PROVE  /\ Line(i) \in Seq(1 .. Len(snaps)) /\ Len(Line(i)) \in Nat
           /\ \A n \in 1 .. Len(Line(i)) : Line(i)[n] \in 1 .. Len(snaps)
           /\ TreeOf(i) \in Tree
           /\ i # NoHead => Len(Line(i)) >= 1 /\ Line(i)[Len(Line(i))] = i
<1>1. CASE i = NoHead
  BY <1>1, EmptyTreeIsATree DEF Line, TreeOf, NoHead
<1>2. CASE i # NoHead
  <2>1. i \in 1 .. Len(snaps) /\ snaps[i] \in Snapshot
    BY <1>2 DEF TypeOK, NoHead
  <2>2. LineOK(i) /\ Line(i) = snaps[i].line /\ TreeOf(i) = snaps[i].root
    BY <1>2, <2>1 DEF LinesOK, Line, TreeOf
  <2>3. QED
    BY <2>1, <2>2 DEF LineOK, Snapshot
<1>3. QED
  BY <1>1, <1>2

LEMMA TreesAreTrees ==
    ASSUME TypeOK, LinesOK, NEW i \in 0 .. Len(snaps), NEW n \in 1 .. Len(Line(i))
    PROVE  Line(i)[n] \in 1 .. Len(snaps) /\ TreeOf(Line(i)[n]) \in Tree
<1>1. Line(i)[n] \in 1 .. Len(snaps)
  BY LineOf
<1>2. Line(i)[n] \in 0 .. Len(snaps)
  BY <1>1
<1>3. QED
  BY <1>1, <1>2, LineOf

LEMMA HeldAreObjects ==
    ASSUME TypeOK, LinesOK, NEW i \in 0 .. Len(snaps)
    PROVE  Held(i) \subseteq Object
<1>1. ASSUME NEW n \in Newest(i)
      PROVE  HeldAt(i, n) \subseteq Object
  <2>1. n \in 1 .. Len(Line(i))
    BY DEF Newest
  <2>2. Line(i)[n] \in 1 .. Len(snaps) /\ Objects(TreeOf(Line(i)[n])) \subseteq Object
    BY <2>1, TreesAreTrees, ObjectsAreObjects
  <2>3. QED
    BY <2>2 DEF HeldAt, Snap, Object
<1>2. QED
  BY <1>1 DEF Held

\* A head's own snapshot is one of those held.
LEMMA HeadIsHeld ==
    ASSUME TypeOK, LinesOK, NEW i \in 1 .. Len(snaps)
    PROVE  {Snap(i)} \cup Objects(TreeOf(i)) \subseteq Held(i)
<1>1. i \in 0 .. Len(snaps) /\ i # NoHead
  BY DEF NoHead
<1>2. Len(Line(i)) \in Nat /\ Len(Line(i)) >= 1 /\ Line(i)[Len(Line(i))] = i
  BY <1>1, LineOf
<1>3. Len(Line(i)) \in Newest(i)
  BY <1>2, LimitsAssumption DEF Newest
<1>4. QED
  BY <1>2, <1>3 DEF Held, HeldAt

\* A new head adds its own objects to what is held, and nothing else.
LEMMA HeldOfNewHead ==
    ASSUME TypeOK, LinesOK, NEW i \in 1 .. Len(snaps), NEW j \in 0 .. Len(snaps),
           Line(i) = Append(Line(j), i)
    PROVE  /\ Held(i) \subseteq Held(j) \cup {Snap(i)} \cup Objects(TreeOf(i))
           /\ Elems(Line(i)) = Elems(Line(j)) \cup {i}
<1>1. Line(j) \in Seq(1 .. Len(snaps)) /\ Len(Line(j)) \in Nat
  BY LineOf
<1>2. /\ Len(Line(i)) = Len(Line(j)) + 1
      /\ \A n \in 1 .. Len(Line(j)) : Line(i)[n] = Line(j)[n]
      /\ Line(i)[Len(Line(j)) + 1] = i
  BY <1>1
<1>3. ASSUME NEW n \in Newest(i)
      PROVE  HeldAt(i, n) \subseteq Held(j) \cup {Snap(i)} \cup Objects(TreeOf(i))
  <2>1. n \in 1 .. Len(Line(i)) /\ n > Len(Line(i)) - History
    BY DEF Newest
  <2>2. CASE n = Len(Line(i))
    BY <1>2, <2>2 DEF HeldAt
  <2>3. CASE n # Len(Line(i))
    <3>1. n \in 1 .. Len(Line(j)) /\ n > Len(Line(j)) - History
      BY <1>1, <1>2, <2>1, <2>3, LimitsAssumption
    <3>2. n \in Newest(j) /\ HeldAt(i, n) = HeldAt(j, n)
      BY <1>2, <3>1 DEF Newest, HeldAt
    <3>3. QED
      BY <3>2 DEF Held
  <2>4. QED
    BY <2>2, <2>3
<1>4. Elems(Line(i)) = Elems(Line(j)) \cup {i}
  <2>1. \A n \in 1 .. Len(Line(i)) : n \in 1 .. Len(Line(j)) \/ n = Len(Line(j)) + 1
    BY <1>1, <1>2
  <2>2. \A n \in 1 .. Len(Line(j)) : n \in 1 .. Len(Line(i))
    BY <1>1, <1>2
  <2>3. Len(Line(j)) + 1 \in 1 .. Len(Line(i))
    BY <1>1, <1>2
  <2>4. QED
    BY <1>2, <2>1, <2>2, <2>3 DEF Elems
<1>5. QED
  BY <1>3, <1>4 DEF Held

\* When all of it is there, a collection marks all that is held.
LEMMA HeldIsMarked ==
    ASSUME TypeOK, LinesOK, NEW i \in 0 .. Len(snaps), Held(i) \subseteq store
    PROVE  Held(i) \subseteq Marked(i)
<1>. SUFFICES ASSUME NEW n \in Newest(i)
     PROVE  HeldAt(i, n) \subseteq Marked(i)
  BY DEF Held
<1>1. n \in 1 .. Len(Line(i)) /\ n > Len(Line(i)) - History /\ Len(Line(i)) \in Nat
  BY LineOf DEF Newest
<1>2. \A m \in n .. Len(Line(i)) : m \in Newest(i)
  BY <1>1, LimitsAssumption DEF Newest
<1>3. \A m \in n .. Len(Line(i)) : Snap(Line(i)[m]) \in store
  BY <1>2 DEF Held, HeldAt
<1>4. Line(i)[n] \in Retained(i)
  BY <1>3 DEF Retained
<1>5. QED
  BY <1>4 DEF Marked, HeldAt

Files(t) == {File(t[p]) : p \in {q \in Path : t[q] # NoNode}}

\* The objects of a changed tree are its directory, the files of the tree and
\* the file that was put there.
LEMMA ChangedObjects ==
    ASSUME NEW t \in Tree, NEW what \in Operation
    PROVE  /\ Change(t, what) \in Tree
           /\ Objects(Change(t, what)) \subseteq
                Files(t) \cup {Dir(Change(t, what)), File(what.node)}
<1>. DEFINE new == Change(t, what)
<1>1. what.node \in Content \cup {NoNode}
  BY DEF Operation
<1>2. new \in Tree /\ \A p \in Path : new[p] \in {t[p], what.node, NoNode}
  <2>1. CASE what.kind = "delete"
    BY <2>1 DEF Change, Tree
  <2>2. CASE what.kind = "move"
    BY <1>1, <2>2 DEF Change, Tree
  <2>3. CASE what.kind # "delete" /\ what.kind # "move"
    BY <1>1, <2>3 DEF Change, Tree
  <2>4. QED
    BY <2>1, <2>2, <2>3
<1>3. \A p \in Path : new[p] # NoNode => File(new[p]) \in Files(t) \cup {File(what.node)}
  BY <1>2 DEF Files
<1>4. QED
  BY <1>2, <1>3 DEF Objects

-----------------------------------------------------------------------------
(***************************************************************************)
(* A step of one request leaves the others alone.                          *)
(***************************************************************************)
StepOf(r) == FileApi(r) \/ Push(r) \/ Publish(r) \/ Purge(r)

Same(q) ==
    /\ pc'[q] = pc[q] /\ op'[q] = op[q] /\ root'[q] = root[q] /\ parent'[q] = parent[q]
    /\ made'[q] = made[q] /\ missing'[q] = missing[q] /\ live'[q] = live[q]
Others(r) == \A q \in Requests \ {r} : Same(q)

\* Snapshots are only ever added.
Kept == snaps' = snaps \/ \E x \in Snapshot : snaps' = Append(snaps, x)

LEMMA KeptLines ==
    ASSUME TypeOK, LinesOK, Kept, NEW i \in 0 .. Len(snaps)
    PROVE  /\ Line(i)' = Line(i) /\ TreeOf(i)' = TreeOf(i) /\ Held(i)' = Held(i)
           /\ Len(snaps) <= Len(snaps') /\ Len(snaps') \in Nat
<1>1. /\ Len(snaps) \in Nat /\ Len(snaps') \in Nat /\ Len(snaps) <= Len(snaps')
      /\ \A j \in 1 .. Len(snaps) : snaps'[j] = snaps[j]
  <2>1. snaps \in Seq(Snapshot) /\ Len(snaps) \in Nat
    BY DEF TypeOK
  <2>2. CASE snaps' = snaps
    BY <2>1, <2>2
  <2>3. ASSUME NEW x \in Snapshot, snaps' = Append(snaps, x)
        PROVE  /\ Len(snaps') = Len(snaps) + 1
               /\ \A j \in 1 .. Len(snaps) : snaps'[j] = snaps[j]
    BY <2>1, <2>3
  <2>4. QED
    BY <2>1, <2>2, <2>3 DEF Kept
<1>2. \A j \in 0 .. Len(snaps) : Line(j)' = Line(j) /\ TreeOf(j)' = TreeOf(j)
  BY <1>1 DEF Line, TreeOf, NoHead
<1>3. Newest(i)' = Newest(i)
  BY <1>2 DEF Newest
<1>4. ASSUME NEW n \in Newest(i)
      PROVE  HeldAt(i, n)' = HeldAt(i, n)
  <2>1. n \in 1 .. Len(Line(i))
    BY DEF Newest
  <2>2. Line(i)[n] \in 0 .. Len(snaps)
    BY <2>1, LineOf
  <2>3. PICK j \in 0 .. Len(snaps) : j = Line(i)[n]
    BY <2>2
  <2>4. j = (Line(i)[n])' /\ TreeOf(j)' = TreeOf(j)
    BY <1>2, <2>3
  <2>5. TreeOf(Line(i)[n])' = TreeOf(Line(i)[n])
    BY <2>3, <2>4 DEF TreeOf
  <2>6. QED
    BY <2>4, <2>5, <2>3 DEF HeldAt
<1>5. Held(i)' = Held(i)
  BY <1>3, <1>4 DEF Held
<1>6. QED
  BY <1>1, <1>2, <1>5

-----------------------------------------------------------------------------
(***************************************************************************)
(* Types.                                                                  *)
(***************************************************************************)
\* What each step has to show.
Typed(r) == TypeOK' /\ LinesOK' /\ Kept /\ Others(r) /\ RequestOK(r)'

\* A request that is left alone is as well typed as before.
LEMMA OthersTyped ==
    ASSUME TypeInv, NEW r \in Requests, Typed(r)
    PROVE  TypeInv'
<1>1. ASSUME NEW q \in Requests \ {r}
      PROVE  RequestOK(q)'
  <2>1. Same(q) /\ RequestOK(q) /\ Kept
    BY DEF Typed, Others, TypeInv
  <2>2. MadeOK(q) => MadeOK(q)'
    <3>. SUFFICES ASSUME MadeOK(q) PROVE MadeOK(q)'
      OBVIOUS
    <3>1. PICK i \in 1 .. Len(snaps), j \in 0 .. Len(snaps) : i = made[q] /\ j = parent[q]
      BY DEF MadeOK, TypeInv, TypeOK
    <3>2. Line(j)' = Line(j) /\ Len(snaps) <= Len(snaps') /\ Len(snaps) \in Nat /\ Len(snaps') \in Nat
      BY <2>1, KeptLines DEF TypeInv, TypeOK
    <3>3. Line(parent[q])' = Line(j)
      BY <2>1, <3>1, <3>2 DEF Same, Line
    <3>4. snaps'[i] = snaps[i]
      BY <2>1 DEF Kept, TypeInv, TypeOK
    <3>5. i \in 1 .. Len(snaps')
      BY <3>2
    <3>6. Line(parent[q]) = Line(j)
      BY <3>1
    <3>7. /\ made'[q] \in 1 .. Len(snaps') /\ snaps'[made'[q]].root = root'[q]
          /\ snaps'[made'[q]].line = Append(Line(parent[q])', made'[q])
      BY <2>1, <3>1, <3>3, <3>4, <3>5, <3>6 DEF MadeOK, Same
    <3>8. QED
      BY <2>1, <3>7 DEF MadeOK, Edits, Same
  <2>3. QED
    BY <2>1, <2>2 DEF RequestOK, Same, Edits, Purging
<1>2. QED
  BY <1>1 DEF Typed, TypeInv

\* A step that makes no snapshot.
LEMMA QuietTyped ==
    ASSUME TypeInv, NEW r \in Requests, UNCHANGED snaps, TypeOK', Others(r), RequestOK(r)'
    PROVE  Typed(r)
<1>1. LinesOK' /\ Kept
  BY DEF TypeInv, LinesOK, LineOK, Kept
<1>2. QED
  BY <1>1 DEF Typed

LEMMA StartEditTyped ==
    ASSUME TypeInv, NEW r \in Requests, NEW what \in Operation, StartEdit(r, what),
           what.kind \in {"put", "delete", "move", "restore"}, what.path \in Path,
           what.node \in Content, store' \subseteq Object
    PROVE  Typed(r)
<1>1. /\ pc' = [pc EXCEPT ![r] = "base"] /\ op' = [op EXCEPT ![r] = what] /\ pc[r] = "idle"
      /\ UNCHANGED <<head, snaps, trash, root, parent, made, missing, live, acked, crashes>>
  BY DEF StartEdit, Begin
<1>2. TypeOK'
  BY <1>1 DEF TypeInv, TypeOK, StepName, Object, TrashRow
<1>3. Others(r) /\ pc'[r] = "base" /\ op'[r] = what
  BY <1>1 DEF Others, Same, TypeInv, TypeOK
<1>4. RequestOK(r)'
  BY <1>3 DEF RequestOK, Edits, Purging
<1>5. QED
  BY <1>1, <1>2, <1>3, <1>4, QuietTyped

LEMMA StartPutTyped ==
    ASSUME TypeInv, NEW r \in Requests, StartPut(r)
    PROVE  Typed(r)
<1>1. PICK p \in Path, c \in Content :
        /\ StartEdit(r, [NoOp EXCEPT !.kind = "put", !.path = p, !.node = c])
        /\ store' = store \cup {File(c)}
  BY DEF StartPut
<1>. DEFINE what == [NoOp EXCEPT !.kind = "put", !.path = p, !.node = c]
<1>2. what \in Operation /\ what.kind = "put" /\ what.path = p /\ what.node = c
  BY DEF NoOp, Operation
<1>3. store' \subseteq Object
  BY <1>1 DEF File, Object, TypeInv, TypeOK
<1>4. StartEdit(r, what)
  BY <1>1
<1>5. QED
  BY <1>2, <1>3, <1>4, StartEditTyped

LEMMA HeadTreeIsATree == ASSUME TypeInv PROVE TreeOf(head) \in Tree
  BY LineOf DEF TypeInv, TypeOK

LEMMA StartDeleteTyped ==
    ASSUME TypeInv, NEW r \in Requests, StartDelete(r)
    PROVE  Typed(r)
<1>1. PICK p \in Path :
        /\ TreeOf(head)[p] # NoNode
        /\ StartEdit(r, [NoOp EXCEPT !.kind = "delete", !.path = p, !.node = TreeOf(head)[p]])
        /\ UNCHANGED store
  BY DEF StartDelete
<1>. DEFINE node == TreeOf(head)[p]
            what == [NoOp EXCEPT !.kind = "delete", !.path = p, !.node = node]
<1>2. node \in Content
  BY <1>1, HeadTreeIsATree DEF Tree
<1>3. what \in Operation /\ what.kind = "delete" /\ what.path = p /\ what.node = node
  BY <1>2 DEF NoOp, Operation
<1>4. store' \subseteq Object
  BY <1>1 DEF TypeInv, TypeOK
<1>5. QED
  BY <1>1, <1>2, <1>3, <1>4, StartEditTyped

LEMMA StartMoveTyped ==
    ASSUME TypeInv, NEW r \in Requests, StartMove(r)
    PROVE  Typed(r)
<1>1. PICK p \in Path, q \in Path :
        /\ TreeOf(head)[p] # NoNode
        /\ StartEdit(r, [NoOp EXCEPT !.kind = "move", !.path = p, !.to = q,
                                     !.node = TreeOf(head)[p]])
        /\ UNCHANGED store
  BY DEF StartMove
<1>. DEFINE node == TreeOf(head)[p]
            what == [NoOp EXCEPT !.kind = "move", !.path = p, !.to = q, !.node = node]
<1>2. node \in Content
  BY <1>1, HeadTreeIsATree DEF Tree
<1>3. what \in Operation /\ what.kind = "move" /\ what.path = p /\ what.node = node
  BY <1>2 DEF NoOp, Operation
<1>4. store' \subseteq Object
  BY <1>1 DEF TypeInv, TypeOK
<1>5. QED
  BY <1>1, <1>2, <1>3, <1>4, StartEditTyped

LEMMA StartRestoreTyped ==
    ASSUME TypeInv, NEW r \in Requests, StartRestore(r)
    PROVE  Typed(r)
<1>. DEFINE freeFor(row) ==
              IF TreeOf(head)[row.path] = NoNode THEN row.path ELSE Restored(row.path)
<1>1. PICK row \in trash :
        /\ StartEdit(r, [NoOp EXCEPT !.kind = "restore", !.path = freeFor(row),
                                     !.node = row.node, !.row = row.id])
        /\ UNCHANGED store
  BY DEF StartRestore
<1>. DEFINE free == freeFor(row)
            what == [NoOp EXCEPT !.kind = "restore", !.path = free, !.node = row.node,
                                 !.row = row.id]
<1>2. row.path \in Path /\ row.node \in Content /\ row.id \in Nat
  BY DEF TypeInv, TypeOK, TrashRow
<1>3. free \in Path
  BY <1>2, RestoredAssumption
<1>4. what \in Operation /\ what.kind = "restore" /\ what.path = free /\ what.node = row.node
  BY <1>2, <1>3 DEF NoOp, Operation
<1>5. store' \subseteq Object
  BY <1>1 DEF TypeInv, TypeOK
<1>6. QED
  BY <1>1, <1>2, <1>3, <1>4, <1>5, StartEditTyped

\* A request that ends is typed and idle.
LEMMA EndOf ==
    ASSUME TypeOK, NEW r \in Requests, End(r), Kept
    PROVE  /\ Others(r) /\ pc'[r] = "idle" /\ op'[r] = NoOp /\ RequestOK(r)'
           /\ pc' \in [Requests -> StepName] /\ op' \in [Requests -> Operation]
           /\ root' \in [Requests -> Tree]
           /\ parent' \in [Requests -> 0 .. Len(snaps')] /\ made' \in [Requests -> 0 .. Len(snaps')]
           /\ missing' \in [Requests -> SUBSET Object] /\ live' \in [Requests -> SUBSET Object]
<1>1. Len(snaps) \in Nat /\ Len(snaps') \in Nat /\ Len(snaps) <= Len(snaps')
  BY DEF TypeOK, Kept
<1>2. NoHead \in 0 .. Len(snaps') /\ 0 \in 0 .. Len(snaps')
  BY <1>1 DEF NoHead
<1>3. /\ pc' \in [Requests -> StepName] /\ op' \in [Requests -> Operation]
      /\ root' \in [Requests -> Tree]
      /\ missing' \in [Requests -> SUBSET Object] /\ live' \in [Requests -> SUBSET Object]
  BY EmptyTreeIsATree, NoOpIsAnOperation DEF End, TypeOK, StepName
<1>4. parent' \in [Requests -> 0 .. Len(snaps')] /\ made' \in [Requests -> 0 .. Len(snaps')]
  BY <1>1, <1>2 DEF End, TypeOK
<1>5. Others(r) /\ pc'[r] = "idle" /\ op'[r] = NoOp
  BY DEF End, Others, Same, TypeOK
<1>6. RequestOK(r)'
  BY <1>5 DEF RequestOK, Purging
<1>7. QED
  BY <1>3, <1>4, <1>5, <1>6

\* A request that ends and makes no snapshot.
LEMMA EndTyped ==
    ASSUME TypeInv, NEW r \in Requests, End(r), UNCHANGED <<snaps, crashes>>,
           head' \in 0 .. Len(snaps), store' \subseteq store,
           \A row \in trash' : row \in TrashRow, acked' \subseteq 1 .. Len(snaps)
    PROVE  Typed(r)
<1>1. TypeOK /\ Kept
  BY DEF TypeInv, Kept
<1>2. Others(r) /\ RequestOK(r)'
  BY <1>1, EndOf
<1>3. TypeOK'
  BY <1>1, EndOf DEF TypeOK, Object, TrashRow
<1>4. QED
  BY <1>2, <1>3, QuietTyped

LEMMA GivesUp ==
    ASSUME TypeInv, NEW r \in Requests, End(r),
           UNCHANGED <<head, snaps, store, trash, acked, crashes>>
    PROVE  Typed(r)
  BY EndTyped DEF TypeInv, TypeOK

LEMMA ReadBaseTyped ==
    ASSUME TypeInv, NEW r \in Requests, ReadBase(r)
    PROVE  Typed(r)
<1>. DEFINE new == Change(TreeOf(head), op[r])
<1>1. pc[r] = "base" /\ Edits(r) /\ op[r] \in Operation
  BY DEF ReadBase, TypeInv, RequestOK, TypeOK
<1>2. CASE ~Readable
  BY <1>2, GivesUp DEF ReadBase
<1>3. CASE Readable
  <2>1. /\ root' = [root EXCEPT ![r] = new] /\ store' = store \cup {Dir(root'[r])}
        /\ pc' = [pc EXCEPT ![r] = "commit"]
        /\ UNCHANGED <<head, snaps, trash, op, parent, made, missing, live, acked, crashes>>
    BY <1>3 DEF ReadBase
  <2>2. new \in Tree
    BY <1>1, HeadTreeIsATree, ChangedObjects
  <2>3. root'[r] = new /\ pc'[r] = "commit" /\ op'[r] = op[r]
    BY <2>1 DEF TypeInv, TypeOK
  <2>4. Dir(new) \in Object
    BY <2>2 DEF Dir, Object
  <2>5. TypeOK'
    BY <2>1, <2>2, <2>3, <2>4 DEF TypeInv, TypeOK, StepName, Object, TrashRow
  <2>6. RequestOK(r)'
    BY <1>1, <2>3 DEF RequestOK, Edits, Purging
  <2>7. Others(r)
    BY <2>1 DEF Others, Same, TypeInv, TypeOK
  <2>8. QED
    BY <2>1, <2>5, <2>6, <2>7, QuietTyped
<1>4. QED
  BY <1>2, <1>3

\* A snapshot whose parent is a head that was seen.
LEMMA PutSnapshotTyped ==
    ASSUME TypeInv, NEW r \in Requests, NEW before \in 0 .. Len(snaps), PutSnapshot(r, before),
           op[r].kind = "push" \/ Edits(r),
           UNCHANGED <<head, trash, op, root, missing, live, acked, crashes>>
    PROVE  Typed(r)
<1>. DEFINE new == Len(snaps) + 1
            x == [root |-> root[r], parent |-> before, line |-> Append(Line(before), new)]
<1>1. /\ snaps' = Append(snaps, x) /\ store' = store \cup {Snap(new)}
      /\ made' = [made EXCEPT ![r] = new] /\ parent' = [parent EXCEPT ![r] = before]
      /\ pc' = [pc EXCEPT ![r] = "head"]
  BY DEF PutSnapshot
<1>2. /\ snaps \in Seq(Snapshot) /\ Len(snaps) \in Nat
      /\ Line(before) \in Seq(1 .. Len(snaps)) /\ Len(Line(before)) \in Nat
  BY LineOf DEF TypeInv, TypeOK
<1>3. Line(before) \in Seq(Nat) /\ Line(before) \in Seq(1 .. new)
  BY <1>2
<1>4. x.line \in Seq(Nat) /\ x.line \in Seq(1 .. new)
  BY <1>2, <1>3
<1>5. x \in Snapshot
  BY <1>2, <1>4 DEF TypeInv, TypeOK, Snapshot
<1>6. /\ snaps' \in Seq(Snapshot) /\ Len(snaps') = new /\ snaps'[new] = x
      /\ \A i \in 1 .. Len(snaps) : snaps'[i] = snaps[i]
  BY <1>1, <1>2, <1>5
<1>7. Kept
  BY <1>1, <1>5 DEF Kept
<1>8. /\ pc'[r] = "head" /\ made'[r] = new /\ parent'[r] = before
      /\ op'[r] = op[r] /\ root'[r] = root[r]
  BY <1>1 DEF TypeInv, TypeOK
<1>9. Others(r)
  BY <1>1 DEF Others, Same, TypeInv, TypeOK
<1>10. TypeOK'
  <2>1. Object \subseteq Object' /\ Snap(new) \in Object'
    BY <1>2, <1>6 DEF Object, Snap
  <2>2. /\ pc' \in [Requests -> StepName] /\ op' \in [Requests -> Operation]
        /\ root' \in [Requests -> Tree]
    BY <1>1 DEF TypeInv, TypeOK, StepName
  <2>3. parent' \in [Requests -> 0 .. Len(snaps')] /\ made' \in [Requests -> 0 .. Len(snaps')]
    BY <1>1, <1>2, <1>6 DEF TypeInv, TypeOK
  <2>4. missing' \in [Requests -> SUBSET Object'] /\ live' \in [Requests -> SUBSET Object']
    BY <2>1 DEF TypeInv, TypeOK
  <2>5. \A row \in trash : row \in TrashRow'
    BY <1>2, <1>6 DEF TypeInv, TypeOK, TrashRow
  <2>6. store' \subseteq Object' /\ acked' \subseteq 1 .. Len(snaps') /\ head' \in 0 .. Len(snaps')
    BY <1>1, <1>2, <1>6, <2>1 DEF TypeInv, TypeOK
  <2>7. QED
    BY <1>6, <2>2, <2>3, <2>4, <2>5, <2>6 DEF TypeInv, TypeOK
<1>11. LinesOK'
  <2>. SUFFICES ASSUME NEW i \in 1 .. Len(snaps')
       PROVE  /\ snaps'[i].line \in Seq(1 .. Len(snaps'))
              /\ Len(snaps'[i].line) >= 1 /\ snaps'[i].line[Len(snaps'[i].line)] = i
    BY DEF LinesOK, LineOK
  <2>1. CASE i = new
    <3>1. Len(x.line) = Len(Line(before)) + 1 /\ x.line[Len(Line(before)) + 1] = new
      BY <1>2, <1>3
    <3>2. snaps'[i].line = x.line
      BY <1>6, <2>1
    <3>3. x.line \in Seq(1 .. Len(snaps'))
      BY <1>4, <1>6
    <3>4. Len(x.line) >= 1 /\ x.line[Len(x.line)] = i
      BY <1>2, <2>1, <3>1
    <3>5. QED
      BY <3>2, <3>3, <3>4
  <2>2. CASE i # new
    <3>1. i \in 1 .. Len(snaps)
      BY <1>2, <1>6, <2>2
    <3>2. LineOK(i) /\ snaps'[i] = snaps[i]
      BY <1>6, <3>1 DEF TypeInv, LinesOK
    <3>3. snaps[i].line \in Seq(1 .. new)
      BY <1>2, <3>2 DEF LineOK
    <3>4. QED
      BY <1>6, <3>2, <3>3 DEF LineOK
  <2>3. QED
    BY <2>1, <2>2
<1>12. RequestOK(r)'
  <2>1. Line(before)' = Line(before)
    BY <1>2, <1>7, KeptLines DEF TypeInv
  <2>2. Line(parent[r])' = Line(before)
    BY <1>8, <2>1 DEF Line
  <2>3. MadeOK(r)'
    BY <1>2, <1>6, <1>8, <2>2 DEF MadeOK, Edits
  <2>4. QED
    BY <1>8, <2>3 DEF RequestOK, Purging
<1>13. QED
  BY <1>7, <1>9, <1>10, <1>11, <1>12 DEF Typed

LEMMA CommitTyped ==
    ASSUME TypeInv, NEW r \in Requests, Commit(r)
    PROVE  Typed(r)
<1>1. Edits(r) /\ head \in 0 .. Len(snaps)
  BY DEF Commit, TypeInv, RequestOK, TypeOK
<1>2. CASE Dir(root[r]) \in store
  BY <1>1, <1>2, PutSnapshotTyped DEF Commit
<1>3. CASE Dir(root[r]) \notin store
  BY <1>3, GivesUp DEF Commit
<1>4. QED
  BY <1>2, <1>3

LEMMA StartPushTyped ==
    ASSUME TypeInv, NEW r \in Requests, StartPush(r)
    PROVE  Typed(r)
<1>. DEFINE what == [NoOp EXCEPT !.kind = "push"]
<1>1. PICK t \in Tree :
        /\ pc' = [pc EXCEPT ![r] = "have"] /\ op' = [op EXCEPT ![r] = what]
        /\ root' = [root EXCEPT ![r] = t] /\ parent' = [parent EXCEPT ![r] = head]
        /\ UNCHANGED <<head, snaps, store, trash, made, missing, live, acked, crashes>>
  BY DEF StartPush, Begin
<1>2. what \in Operation /\ what.kind = "push"
  BY DEF NoOp, Operation
<1>3. TypeOK'
  BY <1>1, <1>2 DEF TypeInv, TypeOK, StepName, Object, TrashRow
<1>4. Others(r) /\ pc'[r] = "have" /\ op'[r].kind = "push"
  BY <1>1, <1>2 DEF Others, Same, TypeInv, TypeOK
<1>5. RequestOK(r)'
  BY <1>4 DEF RequestOK, Purging
<1>6. QED
  BY <1>1, <1>3, <1>4, <1>5, QuietTyped

LEMMA AskHaveTyped ==
    ASSUME TypeInv, NEW r \in Requests, AskHave(r)
    PROVE  Typed(r)
<1>1. /\ pc[r] = "have" /\ pc' = [pc EXCEPT ![r] = "upload"]
      /\ missing' = [missing EXCEPT ![r] = Objects(root[r]) \ store]
      /\ UNCHANGED <<head, snaps, store, trash, op, root, parent, made, live, acked, crashes>>
  BY DEF AskHave
<1>2. Objects(root[r]) \subseteq Object
  BY ObjectsAreObjects DEF TypeInv, TypeOK
<1>3. TypeOK'
  BY <1>1, <1>2 DEF TypeInv, TypeOK, StepName, Object, TrashRow
<1>4. Others(r) /\ pc'[r] = "upload" /\ op'[r].kind = "push"
  BY <1>1 DEF Others, Same, TypeInv, TypeOK, RequestOK
<1>5. RequestOK(r)'
  BY <1>4 DEF RequestOK, Purging
<1>6. QED
  BY <1>1, <1>3, <1>4, <1>5, QuietTyped

LEMMA UploadObjectTyped ==
    ASSUME TypeInv, NEW r \in Requests, UploadObject(r)
    PROVE  Typed(r)
<1>1. PICK o \in missing[r] :
        /\ pc[r] = "upload" /\ store' = store \cup {o}
        /\ missing' = [missing EXCEPT ![r] = @ \ {o}]
        /\ UNCHANGED <<head, snaps, trash, pc, op, root, parent, made, live, acked, crashes>>
  BY DEF UploadObject
<1>2. missing[r] \subseteq Object
  BY DEF TypeInv, TypeOK
<1>3. TypeOK'
  BY <1>1, <1>2 DEF TypeInv, TypeOK, Object, TrashRow
<1>4. Others(r) /\ op[r].kind = "push"
  BY <1>1 DEF Others, Same, TypeInv, TypeOK, RequestOK
<1>5. RequestOK(r)'
  BY <1>1, <1>4 DEF RequestOK, Purging
<1>6. QED
  BY <1>1, <1>3, <1>4, <1>5, QuietTyped

LEMMA PushCommitTyped ==
    ASSUME TypeInv, NEW r \in Requests, PushCommit(r)
    PROVE  Typed(r)
<1>1. op[r].kind = "push" /\ parent[r] \in 0 .. Len(snaps)
  BY DEF PushCommit, TypeInv, RequestOK, TypeOK
<1>2. CASE CommitAllowed(r)
  BY <1>1, <1>2, PutSnapshotTyped DEF PushCommit
<1>3. CASE ~CommitAllowed(r)
  BY <1>3, GivesUp DEF PushCommit
<1>4. QED
  BY <1>2, <1>3

LEMMA TruncateHeadTyped ==
    ASSUME TypeInv, NEW r \in Requests, TruncateHead(r)
    PROVE  Typed(r)
<1>1. /\ pc[r] = "head" /\ head' = NoHead /\ pc' = [pc EXCEPT ![r] = "write"]
      /\ UNCHANGED <<snaps, store, trash, op, root, parent, made, missing, live, acked, crashes>>
  BY DEF TruncateHead
<1>2. Others(r) /\ pc'[r] = "write"
  BY <1>1 DEF Others, Same, TypeInv, TypeOK
<1>3. TypeOK'
  <2>1. NoHead \in 0 .. Len(snaps)
    BY DEF NoHead, TypeInv, TypeOK
  <2>2. QED
    BY <1>1, <2>1 DEF TypeInv, TypeOK, StepName, Object, TrashRow
<1>4. MadeOK(r)
  BY <1>1 DEF TypeInv, RequestOK
<1>5. RequestOK(r)'
  BY <1>1, <1>2, <1>4 DEF RequestOK, MadeOK, Edits, Line, Purging
<1>6. QED
  BY <1>1, <1>2, <1>3, <1>5, QuietTyped

LEMMA SetHeadTyped ==
    ASSUME TypeInv, NEW r \in Requests, SetHead(r)
    PROVE  Typed(r)
<1>1. /\ pc[r] = "write" /\ head' = made[r] /\ UNCHANGED <<snaps, store, trash, crashes>>
      /\ MadeOK(r) /\ made[r] \in 1 .. Len(snaps) /\ made[r] \in 0 .. Len(snaps)
  BY DEF SetHead, TypeInv, RequestOK, MadeOK
<1>2. CASE op[r].kind \in {"delete", "restore"}
  <2>1. /\ pc' = [pc EXCEPT ![r] = "trash"]
        /\ UNCHANGED <<op, root, parent, made, missing, live, acked>>
    BY <1>2 DEF SetHead
  <2>2. TypeOK'
    BY <1>1, <2>1 DEF TypeInv, TypeOK, StepName, Object, TrashRow
  <2>3. Others(r) /\ pc'[r] = "trash"
    BY <2>1 DEF Others, Same, TypeInv, TypeOK
  <2>4. RequestOK(r)'
    BY <1>1, <1>2, <2>1, <2>3 DEF RequestOK, MadeOK, Edits, Line, Purging
  <2>5. QED
    BY <1>1, <2>2, <2>3, <2>4, QuietTyped
<1>3. CASE op[r].kind \notin {"delete", "restore"}
  <2>1. End(r) /\ acked' = acked \cup {made[r]}
    BY <1>3 DEF SetHead
  <2>2. acked' \subseteq 1 .. Len(snaps) /\ \A row \in trash' : row \in TrashRow
    BY <1>1, <2>1 DEF TypeInv, TypeOK
  <2>3. QED
    BY <1>1, <2>1, <2>2, EndTyped
<1>4. QED
  BY <1>2, <1>3

LEMMA UpdateTrashTyped ==
    ASSUME TypeInv, NEW r \in Requests, UpdateTrash(r)
    PROVE  Typed(r)
<1>1. /\ pc[r] = "trash" /\ Edits(r) /\ made[r] \in 1 .. Len(snaps)
      /\ acked' = acked \cup {made[r]} /\ End(r)
      /\ UNCHANGED <<head, snaps, store, crashes>>
      /\ trash' \subseteq trash \cup {RowOf(r)}
  BY DEF UpdateTrash, TypeInv, RequestOK, MadeOK
<1>2. RowOf(r) \in TrashRow
  BY <1>1 DEF RowOf, TrashRow, Edits
<1>3. \A row \in trash' : row \in TrashRow
  BY <1>1, <1>2 DEF TypeInv, TypeOK
<1>4. acked' \subseteq 1 .. Len(snaps) /\ head' \in 0 .. Len(snaps)
  BY <1>1 DEF TypeInv, TypeOK
<1>5. QED
  BY <1>1, <1>3, <1>4, EndTyped

LEMMA StartPurgeTyped ==
    ASSUME TypeInv, NEW r \in Requests, StartPurge(r)
    PROVE  Typed(r)
<1>. DEFINE what == [NoOp EXCEPT !.kind = "purge"]
<1>1. /\ trash' \subseteq trash
      /\ pc' = [pc EXCEPT ![r] = "keep"] /\ op' = [op EXCEPT ![r] = what]
      /\ UNCHANGED <<head, snaps, store, root, parent, made, missing, live, acked, crashes>>
  BY DEF StartPurge, Begin
<1>2. what \in Operation /\ what.kind = "purge"
  BY DEF NoOp, Operation
<1>3. TypeOK'
  BY <1>1, <1>2 DEF TypeInv, TypeOK, StepName, Object, TrashRow
<1>4. Others(r) /\ pc'[r] = "keep" /\ op'[r].kind = "purge"
  BY <1>1, <1>2 DEF Others, Same, TypeInv, TypeOK
<1>5. RequestOK(r)'
  BY <1>4 DEF RequestOK, Purging
<1>6. QED
  BY <1>1, <1>3, <1>4, <1>5, QuietTyped

\* A collection marks objects.
LEMMA MarkedAreObjects ==
    ASSUME TypeInv
    PROVE  Marked(head) \subseteq Object /\ Keep(trash) \subseteq Object
<1>1. ASSUME NEW i \in Retained(head)
      PROVE  {Snap(i)} \cup Objects(TreeOf(i)) \subseteq Object
  <2>1. PICK n \in Newest(head) : i = Line(head)[n]
    BY <1>1 DEF Retained
  <2>2. n \in 1 .. Len(Line(head)) /\ head \in 0 .. Len(snaps)
    BY <2>1 DEF Newest, TypeInv, TypeOK
  <2>3. i \in 1 .. Len(snaps) /\ TreeOf(i) \in Tree
    BY <2>1, <2>2, TreesAreTrees DEF TypeInv
  <2>4. QED
    BY <2>3, ObjectsAreObjects DEF Snap, Object
<1>2. Keep(trash) \subseteq Object
  BY DEF Keep, File, Object, TypeInv, TypeOK, TrashRow
<1>3. QED
  BY <1>1, <1>2 DEF Marked

LEMMA CollectTyped ==
    ASSUME TypeInv, NEW r \in Requests, ListTrash(r) \/ MarkLive(r)
    PROVE  Typed(r)
<1>1. PICK marked \in {Keep(trash), live[r] \cup Marked(head)}, step \in {"mark", "sweep"} :
        /\ pc[r] \in {"keep", "mark"} /\ live' = [live EXCEPT ![r] = marked]
        /\ pc' = [pc EXCEPT ![r] = step]
        /\ UNCHANGED <<head, snaps, store, trash, op, root, parent, made, missing, acked, crashes>>
  BY DEF ListTrash, MarkLive
<1>2. marked \subseteq Object
  BY MarkedAreObjects DEF TypeInv, TypeOK
<1>3. TypeOK'
  BY <1>1, <1>2 DEF TypeInv, TypeOK, StepName, Object, TrashRow
<1>4. Others(r) /\ pc'[r] = step /\ op'[r].kind = "purge"
  BY <1>1 DEF Others, Same, TypeInv, TypeOK, RequestOK, Purging
<1>5. RequestOK(r)'
  BY <1>4 DEF RequestOK, Purging
<1>6. QED
  BY <1>1, <1>3, <1>4, <1>5, QuietTyped

LEMMA SweepTyped ==
    ASSUME TypeInv, NEW r \in Requests, Sweep(r)
    PROVE  Typed(r)
<1>1. head' \in 0 .. Len(snaps) /\ (\A row \in trash' : row \in TrashRow) /\ acked' \subseteq 1 .. Len(snaps)
  BY DEF Sweep, TypeInv, TypeOK
<1>2. QED
  BY <1>1, EndTyped DEF Sweep

LEMMA StepTyped ==
    ASSUME TypeInv, NEW r \in Requests, StepOf(r)
    PROVE  Typed(r)
<1>1. CASE FileApi(r)
  BY <1>1, StartPutTyped, StartDeleteTyped, StartMoveTyped, StartRestoreTyped, ReadBaseTyped,
     CommitTyped DEF FileApi
<1>2. CASE Push(r)
  BY <1>2, StartPushTyped, AskHaveTyped, UploadObjectTyped, PushCommitTyped DEF Push
<1>3. CASE Publish(r)
  BY <1>3, TruncateHeadTyped, SetHeadTyped, UpdateTrashTyped DEF Publish
<1>4. CASE Purge(r)
  BY <1>4, StartPurgeTyped, CollectTyped, SweepTyped DEF Purge
<1>5. QED
  BY <1>1, <1>2, <1>3, <1>4 DEF StepOf

\* After a crash there is nothing in memory, and what is in the files was there.
LEMMA CrashTyped ==
    ASSUME TypeInv, Crash
    PROVE  /\ TypeInv' /\ UNCHANGED <<head, snaps, trash, acked>> /\ store' \subseteq store
           /\ \A r \in Requests : pc'[r] = "idle" /\ op'[r] = NoOp
<1>1. /\ crashes < MaxCrashes /\ crashes' = crashes + 1
      /\ pc' = [r \in Requests |-> "idle"] /\ op' = [r \in Requests |-> NoOp]
      /\ root' = [r \in Requests |-> EmptyTree] /\ parent' = [r \in Requests |-> NoHead]
      /\ made' = [r \in Requests |-> 0] /\ missing' = [r \in Requests |-> {}]
      /\ live' = [r \in Requests |-> {}] /\ UNCHANGED <<head, snaps, trash, acked>>
      /\ store' \subseteq store
  BY DEF Crash
<1>2. TypeOK'
  <2>1. NoHead \in 0 .. Len(snaps) /\ 0 \in 0 .. Len(snaps)
    BY DEF NoHead, TypeInv, TypeOK
  <2>2. crashes' \in 0 .. MaxCrashes
    BY <1>1, LimitsAssumption DEF TypeInv, TypeOK
  <2>3. QED
    BY <1>1, <2>1, <2>2, EmptyTreeIsATree, NoOpIsAnOperation
    DEF TypeInv, TypeOK, StepName, Object, TrashRow
<1>3. LinesOK' /\ \A r \in Requests : RequestOK(r)'
  BY <1>1 DEF TypeInv, LinesOK, LineOK, RequestOK, Purging
<1>4. QED
  BY <1>1, <1>2, <1>3 DEF TypeInv

LEMMA InitTyped == Init => TypeInv
<1>. SUFFICES ASSUME Init PROVE TypeInv
  OBVIOUS
<1>1. snaps = <<>> /\ head = 0 /\ Len(snaps) = 0
  BY DEF Init, NoHead
<1>2. TypeOK
  BY <1>1, EmptyTreeIsATree, NoOpIsAnOperation, LimitsAssumption DEF Init, TypeOK, StepName, NoHead
<1>3. LinesOK /\ \A r \in Requests : RequestOK(r)
  BY <1>1 DEF Init, LinesOK, RequestOK, Purging
<1>4. QED
  BY <1>2, <1>3 DEF TypeInv

LEMMA StutterTyped ==
    ASSUME TypeInv, UNCHANGED vars
    PROVE  TypeInv'
<1>1. UNCHANGED <<head, snaps, store, trash, pc, op, root, parent, made, missing, live, acked, crashes>>
  BY DEF vars, requests
<1>2. TypeOK' /\ LinesOK'
  BY <1>1 DEF TypeInv, TypeOK, Object, TrashRow, LinesOK, LineOK
<1>3. ASSUME NEW r \in Requests PROVE RequestOK(r)'
  <2>1. RequestOK(r) /\ MadeOK(r)' = MadeOK(r) /\ Edits(r)' = Edits(r)
    BY <1>1 DEF TypeInv, MadeOK, Edits, Line
  <2>2. QED
    BY <1>1, <2>1 DEF RequestOK, Purging
<1>4. QED
  BY <1>2, <1>3 DEF TypeInv

LEMMA NextTyped == TypeInv /\ [Next]_vars => TypeInv'
<1>. SUFFICES ASSUME TypeInv, [Next]_vars PROVE TypeInv'
  OBVIOUS
<1>1. ASSUME NEW r \in Requests, StepOf(r) PROVE TypeInv'
  BY <1>1, StepTyped, OthersTyped
<1>2. QED
  BY <1>1, CrashTyped, StutterTyped DEF Next, StepOf

\* Every reachable state is typed, whatever the handlers, crashes and purges
\* do to each other; HEAD, parents and rows of the trash name snapshots that
\* were made.
THEOREM ServerTypeCorrect == Spec => []TypeOK
<1>1. TypeInv => TypeOK
  BY DEF TypeInv
<1>2. QED
  BY <1>1, InitTyped, NextTyped, PTL DEF Spec

-----------------------------------------------------------------------------
(***************************************************************************)
(* One handler at a time.                                                  *)
(***************************************************************************)
\* A handler that runs, or begins, is the only one.
Alone(r) == Others(r) /\ \A q \in Requests \ {r} : ~Handling(q)

LEMMA RunsAlone ==
    ASSUME Serialised, TypeInv, SerialInv, NEW r \in Requests, StepOf(r)
    PROVE  Alone(r) /\ Kept /\ TypeInv'
<1>1. Others(r) /\ Kept /\ TypeInv'
  BY StepTyped, OthersTyped DEF Typed
<1>2. MayEnter(r) \/ Handling(r)
  <2>1. CASE FileApi(r)
    BY <2>1 DEF FileApi, StartPut, StartDelete, StartMove, StartRestore, StartEdit, ReadBase, Commit,
       Handling, Pushing
  <2>2. CASE Push(r)
    BY <2>2 DEF Push, StartPush, AskHave, UploadObject, PushCommit
  <2>3. CASE Publish(r)
    BY <2>3 DEF Publish, TruncateHead, SetHead, UpdateTrash, Handling, Pushing
  <2>4. CASE Purge(r)
    BY <2>4 DEF Purge, StartPurge, ListTrash, MarkLive, Sweep, Handling, Pushing
  <2>5. QED
    BY <2>1, <2>2, <2>3, <2>4 DEF StepOf
<1>3. QED
  BY <1>1, <1>2 DEF Alone, MayEnter, SerialInv, OneAtATime

\* The steps that make a snapshot, move the head or end, and what the others
\* leave alone.
LEMMA OtherSteps ==
    ASSUME TypeInv, NEW r \in Requests, StepOf(r)
    PROVE  \/ TruncateHead(r) \/ SetHead(r) \/ UpdateTrash(r)
           \/ /\ PutSnapshot(r, head) /\ pc[r] \in {"commit", "upload"}
              /\ UNCHANGED <<head, trash, op, root, missing, live, acked>>
              /\ pc[r] = "upload" => parent[r] = head
           \/ /\ pc[r] \notin {"head", "write", "trash"} /\ pc'[r] \notin {"head", "write", "trash"}
              /\ UNCHANGED <<head, acked, snaps>>
<1>. TypeOK /\ Kept
  BY StepTyped DEF TypeInv, Typed
<1>1. CASE FileApi(r)
  <2>1. CASE Commit(r) /\ Dir(root[r]) \in store
    BY <2>1 DEF Commit
  <2>2. CASE Commit(r) /\ Dir(root[r]) \notin store
    BY <2>2, EndOf DEF Commit
  <2>3. CASE ReadBase(r)
    <3>1. pc'[r] \in {"commit", "idle"}
      BY <2>3, EndOf DEF ReadBase, TypeOK
    <3>2. QED
      BY <2>3, <3>1 DEF ReadBase
  <2>4. CASE StartPut(r) \/ StartDelete(r) \/ StartMove(r) \/ StartRestore(r)
    BY <2>4 DEF StartPut, StartDelete, StartMove, StartRestore, StartEdit, Begin, TypeOK
  <2>5. QED
    BY <1>1, <2>1, <2>2, <2>3, <2>4 DEF FileApi
<1>2. CASE Push(r)
  <2>1. CASE PushCommit(r) /\ CommitAllowed(r)
    BY <2>1 DEF PushCommit, CommitAllowed
  <2>2. CASE PushCommit(r) /\ ~CommitAllowed(r)
    BY <2>2, EndOf DEF PushCommit
  <2>3. CASE StartPush(r) \/ AskHave(r) \/ UploadObject(r)
    BY <2>3 DEF StartPush, AskHave, UploadObject, Begin, TypeOK
  <2>4. QED
    BY <1>2, <2>1, <2>2, <2>3 DEF Push
<1>3. CASE Publish(r)
  BY <1>3 DEF Publish
<1>4. CASE Purge(r)
  <2>1. CASE Sweep(r)
    BY <2>1, EndOf DEF Sweep
  <2>2. CASE ~Sweep(r)
    BY <1>4, <2>2 DEF Purge, StartPurge, ListTrash, MarkLive, Begin, TypeOK
  <2>3. QED
    BY <2>1, <2>2
<1>5. QED
  BY <1>1, <1>2, <1>3, <1>4 DEF StepOf

LEMMA HeadKnownStays ==
    ASSUME TypeInv, SerialInv, NEW r \in Requests, StepOf(r)
    PROVE  HeadKnown(r)'
<1>. TypeOK /\ Kept
  BY StepTyped DEF TypeInv, Typed
<1>1. CASE TruncateHead(r)
  BY <1>1 DEF TruncateHead, HeadKnown, TypeOK
<1>2. CASE SetHead(r)
  <2>1. CASE op[r].kind \in {"delete", "restore"}
    BY <1>2, <2>1 DEF SetHead, HeadKnown, TypeOK
  <2>2. CASE op[r].kind \notin {"delete", "restore"}
    BY <1>2, <2>2, EndOf DEF SetHead, HeadKnown
  <2>3. QED
    BY <2>1, <2>2
<1>3. CASE UpdateTrash(r)
  BY <1>3, EndOf DEF UpdateTrash, HeadKnown
<1>4. CASE PutSnapshot(r, head) /\ UNCHANGED head
  BY <1>4 DEF PutSnapshot, HeadKnown, TypeOK
<1>5. CASE pc'[r] \notin {"head", "write", "trash"}
  BY <1>5 DEF HeadKnown
<1>6. QED
  BY <1>1, <1>2, <1>3, <1>4, <1>5, OtherSteps

LEMMA StepSerial ==
    ASSUME Serialised, TypeInv, SerialInv, NEW r \in Requests, StepOf(r)
    PROVE  SerialInv'
<1>1. Alone(r) /\ HeadKnown(r)'
  BY RunsAlone, HeadKnownStays
<1>2. \A q \in Requests \ {r} : ~Handling(q)' /\ HeadKnown(q)'
  BY <1>1 DEF Alone, Others, Same, Handling, Pushing, HeadKnown
<1>3. QED
  BY <1>1, <1>2 DEF SerialInv, OneAtATime

SerialTypeInv == TypeInv /\ SerialInv

LEMMA NextSerial ==
    ASSUME Serialised
    PROVE  SerialTypeInv /\ [Next]_vars => SerialTypeInv'
<1>. SUFFICES ASSUME SerialTypeInv, [Next]_vars PROVE SerialInv'
  BY NextTyped DEF SerialTypeInv
<1>1. ASSUME NEW r \in Requests, StepOf(r) PROVE SerialInv'
  BY <1>1, StepSerial DEF SerialTypeInv
<1>2. CASE Crash
  BY <1>2, CrashTyped DEF SerialTypeInv, SerialInv, OneAtATime, HeadKnown, Handling
<1>3. CASE UNCHANGED vars
  BY <1>3 DEF SerialTypeInv, SerialInv, OneAtATime, HeadKnown, Handling, Pushing, vars, requests
<1>4. QED
  BY <1>1, <1>2, <1>3 DEF Next, StepOf

LEMMA InitSerial == Init => SerialTypeInv
<1>1. Init => SerialInv
  BY DEF Init, SerialInv, OneAtATime, HeadKnown, Handling
<1>2. QED
  BY <1>1, InitTyped DEF SerialTypeInv

\* The head that the devices see, by the one request that may be writing it.
LEMMA Outside ==
    ASSUME NEW r \in Requests, Alone(r)
    PROVE  /\ HeadOutside = IF pc[r] = "write" THEN parent[r] ELSE head
           /\ HeadOutside' = IF pc'[r] = "write" THEN parent'[r] ELSE head'
<1>1. \A q \in Requests \ {r} : pc[q] # "write" /\ pc'[q] # "write"
  BY DEF Alone, Others, Handling, Pushing, Same
<1>2. ASSUME pc[r] = "write" PROVE HeadOutside = parent[r]
  <2>1. (CHOOSE q \in Requests : pc[q] = "write") = r
    BY <1>1, <1>2
  <2>2. QED
    BY <1>2, <2>1 DEF HeadOutside
<1>3. ASSUME pc[r] # "write" PROVE HeadOutside = head
  BY <1>1, <1>3 DEF HeadOutside
<1>4. ASSUME pc'[r] = "write" PROVE HeadOutside' = parent'[r]
  <2>1. (CHOOSE q \in Requests : pc'[q] = "write") = r
    BY <1>1, <1>4
  <2>2. QED
    BY <1>4, <2>1 DEF HeadOutside
<1>5. ASSUME pc'[r] # "write" PROVE HeadOutside' = head'
  BY <1>1, <1>5 DEF HeadOutside
<1>6. QED
  BY <1>2, <1>3, <1>4, <1>5

LEMMA OutsideIsAHead ==
    ASSUME TypeOK, NEW r \in Requests, Alone(r)
    PROVE  HeadOutside \in 0 .. Len(snaps)
  BY Outside DEF TypeOK

\* The head the devices see moves when it is set, from the parent of the new
\* snapshot to that snapshot, and at no other step.
LEMMA OutsideMoves ==
    ASSUME Serialised, TypeInv, SerialInv, NEW r \in Requests, StepOf(r)
    PROVE  /\ SetHead(r) => HeadOutside = parent[r] /\ HeadOutside' = made[r]
           /\ ~SetHead(r) => HeadOutside = head /\ HeadOutside' = head
<1>1. Alone(r) /\ TypeOK /\ Kept
  BY RunsAlone DEF TypeInv
<1>2. CASE SetHead(r)
  <2>1. pc[r] = "write" /\ head' = made[r]
    BY <1>2 DEF SetHead
  <2>2. pc'[r] # "write"
    <3>1. CASE op[r].kind \in {"delete", "restore"}
      BY <1>1, <1>2, <3>1 DEF SetHead, TypeOK
    <3>2. CASE op[r].kind \notin {"delete", "restore"}
      BY <1>1, <1>2, <3>2, EndOf DEF SetHead
    <3>3. QED
      BY <3>1, <3>2
  <2>3. HeadOutside = parent[r] /\ HeadOutside' = made[r]
    BY <1>1, <2>1, <2>2, Outside
  <2>4. QED
    BY <1>2, <2>3
<1>3. CASE TruncateHead(r)
  <2>1. pc[r] = "head" /\ parent[r] = head /\ pc'[r] = "write" /\ parent'[r] = parent[r]
    BY <1>1, <1>3 DEF TruncateHead, SerialInv, HeadKnown, TypeOK
  <2>2. QED
    BY <1>1, <2>1, Outside DEF SetHead
<1>4. CASE UpdateTrash(r)
  <2>1. pc[r] = "trash" /\ pc'[r] = "idle" /\ head' = head
    BY <1>1, <1>4, EndOf DEF UpdateTrash
  <2>2. QED
    BY <1>1, <2>1, Outside DEF SetHead
<1>5. CASE PutSnapshot(r, head) /\ pc[r] \in {"commit", "upload"} /\ UNCHANGED head
  <2>1. pc'[r] = "head"
    BY <1>1, <1>5 DEF PutSnapshot, TypeOK
  <2>2. QED
    BY <1>1, <1>5, <2>1, Outside DEF SetHead
<1>6. CASE pc[r] # "write" /\ pc'[r] # "write" /\ UNCHANGED head
  BY <1>1, <1>6, Outside DEF SetHead
<1>7. QED
  BY <1>2, <1>3, <1>4, <1>5, <1>6, OtherSteps

\* What is set for a head is a snapshot on the line of its parent.
LEMMA NewHead ==
    ASSUME TypeInv, NEW r \in Requests, pc[r] \in {"write", "trash"}
    PROVE  /\ made[r] \in 1 .. Len(snaps) /\ made[r] \in 0 .. Len(snaps) /\ made[r] # NoHead
           /\ parent[r] \in 0 .. Len(snaps)
           /\ Line(made[r]) = Append(Line(parent[r]), made[r])
           /\ TreeOf(made[r]) = root[r] /\ root[r] \in Tree
<1>1. MadeOK(r) /\ parent[r] \in 0 .. Len(snaps) /\ root[r] \in Tree
  BY DEF TypeInv, TypeOK, RequestOK
<1>2. made[r] # NoHead
  BY <1>1 DEF MadeOK, NoHead
<1>3. QED
  BY <1>1, <1>2 DEF MadeOK, Line, TreeOf

-----------------------------------------------------------------------------
(***************************************************************************)
(* HEAD written whole: the log only grows.                                 *)
(***************************************************************************)
Whole == Serialised /\ ~TornHead

LEMMA CrashOutside ==
    ASSUME TypeInv, Crash
    PROVE  HeadOutside' = head /\ (~TornHead => HeadOutside = head)
<1>1. (\A r \in Requests : pc'[r] # "write") /\ UNCHANGED head
  BY CrashTyped
<1>2. ~TornHead => \A r \in Requests : pc[r] # "write"
  BY DEF Crash
<1>3. QED
  BY <1>1, <1>2 DEF HeadOutside

LEMMA StutterOutside ==
    ASSUME UNCHANGED vars
    PROVE  HeadOutside' = HeadOutside /\ UNCHANGED <<head, snaps, store, trash, acked>>
<1>1. UNCHANGED <<head, snaps, store, trash, pc, op, parent, acked>>
  BY DEF vars, requests
<1>2. QED
  BY <1>1 DEF HeadOutside

\* The head the devices see is a snapshot, or none.
LEMMA OutsideTyped == ASSUME TypeInv PROVE HeadOutside \in 0 .. Len(snaps)
<1>1. CASE \E r \in Requests : pc[r] = "write"
  <2>1. (CHOOSE r \in Requests : pc[r] = "write") \in Requests
    BY <1>1
  <2>2. QED
    BY <1>1, <2>1 DEF HeadOutside, TypeInv, TypeOK
<1>2. CASE ~\E r \in Requests : pc[r] = "write"
  BY <1>2 DEF HeadOutside, TypeInv, TypeOK
<1>3. QED
  BY <1>1, <1>2

\* A snapshot ends its own line.
LEMMA EndsItsLine ==
    ASSUME TypeInv, NEW i \in 0 .. Len(snaps), i # NoHead
    PROVE  i \in Elems(Line(i))
<1>1. Len(Line(i)) \in Nat /\ Len(Line(i)) >= 1 /\ Line(i)[Len(Line(i))] = i
  BY LineOf DEF TypeInv
<1>2. Len(Line(i)) \in 1 .. Len(Line(i))
  BY <1>1
<1>3. QED
  BY <1>1, <1>2 DEF Elems

LEMMA StepAnswered ==
    ASSUME Whole, SerialTypeInv, AnsweredOnLine, NEW r \in Requests, StepOf(r)
    PROVE  AnsweredOnLine'
<1>. TypeInv /\ SerialInv /\ Serialised /\ TypeOK /\ LinesOK
  BY DEF SerialTypeInv, Whole, TypeInv
<1>1. Alone(r) /\ Kept
  BY RunsAlone
<1>2. CASE SetHead(r)
  <2>1. /\ pc[r] = "write" /\ acked' \subseteq acked \cup {made[r]} /\ UNCHANGED snaps
        /\ HeadOutside = parent[r] /\ HeadOutside' = made[r]
    BY <1>2, OutsideMoves DEF SetHead
  <2>2. PICK i \in 1 .. Len(snaps), j \in 0 .. Len(snaps) : i = made[r] /\ j = parent[r]
    BY <2>1, NewHead
  <2>3. Line(i) = Append(Line(j), i) /\ i \in 0 .. Len(snaps)
    BY <2>1, <2>2, NewHead
  <2>4. Elems(Line(i)) = Elems(Line(j)) \cup {i}
    BY <2>3, HeldOfNewHead
  <2>5. acked' \subseteq Elems(Line(i))
    BY <2>1, <2>2, <2>4 DEF AnsweredOnLine
  <2>6. Line(i)' = Line(i) /\ i = HeadOutside'
    BY <1>1, <2>1, <2>2, <2>3, KeptLines
  <2>7. QED
    BY <2>5, <2>6 DEF AnsweredOnLine, Line
<1>3. CASE ~SetHead(r)
  <2>1. HeadOutside = head /\ HeadOutside' = head
    BY <1>3, OutsideMoves
  <2>2. PICK h \in 0 .. Len(snaps) : h = head
    BY DEF TypeOK
  <2>3. acked' \subseteq Elems(Line(h))
    <3>1. CASE UpdateTrash(r)
      <4>1. pc[r] = "trash" /\ acked' = acked \cup {made[r]}
        BY <3>1 DEF UpdateTrash
      <4>2. head = made[r] /\ made[r] # NoHead
        BY <4>1, NewHead DEF SerialInv, HeadKnown
      <4>3. made[r] \in Elems(Line(h))
        BY <2>2, <4>2, EndsItsLine
      <4>4. QED
        BY <2>1, <2>2, <4>1, <4>3 DEF AnsweredOnLine
    <3>2. CASE acked' = acked
      BY <2>1, <2>2, <3>2 DEF AnsweredOnLine
    <3>3. QED
      BY <1>3, <3>1, <3>2, OtherSteps DEF TruncateHead
  <2>4. Line(h)' = Line(h) /\ h = HeadOutside'
    BY <1>1, <2>1, <2>2, KeptLines
  <2>5. QED
    BY <2>3, <2>4 DEF AnsweredOnLine, Line
<1>4. QED
  BY <1>2, <1>3

LEMMA NextAnswered ==
    ASSUME Whole
    PROVE  SerialTypeInv /\ AnsweredOnLine /\ [Next]_vars => AnsweredOnLine'
<1>. SUFFICES ASSUME SerialTypeInv, AnsweredOnLine, [Next]_vars PROVE AnsweredOnLine'
  OBVIOUS
<1>1. ASSUME NEW r \in Requests, StepOf(r) PROVE AnsweredOnLine'
  BY <1>1, StepAnswered
<1>2. CASE Crash
  <2>1. HeadOutside' = HeadOutside /\ UNCHANGED <<snaps, acked>>
    BY <1>2, CrashOutside, CrashTyped DEF SerialTypeInv, Whole
  <2>2. QED
    BY <2>1 DEF AnsweredOnLine, Line
<1>3. CASE UNCHANGED vars
  BY <1>3, StutterOutside DEF AnsweredOnLine, Line
<1>4. QED
  BY <1>1, <1>2, <1>3 DEF Next, StepOf

\* A change that was answered for stays on the line of the head, whatever
\* purges meet whatever pushes.
THEOREM AnsweredNeverLost ==
    ASSUME Whole
    PROVE  Spec => []NoCommitLost
<1>1. SerialTypeInv /\ AnsweredOnLine => NoCommitLost
  <2>. SUFFICES ASSUME SerialTypeInv, AnsweredOnLine, head # NoHead
       PROVE  acked \subseteq Elems(Line(head))
    BY DEF NoCommitLost, Elems
  <2>1. HeadOutside = head
    BY DEF SerialTypeInv, SerialInv, HeadKnown, HeadOutside
  <2>2. QED
    BY <2>1 DEF AnsweredOnLine
<1>2. Init => AnsweredOnLine
  BY DEF Init, AnsweredOnLine
<1>3. Serialised
  BY DEF Whole
<1>4. QED
  BY <1>1, <1>2, <1>3, InitSerial, NextSerial, NextAnswered, PTL DEF Spec

-----------------------------------------------------------------------------
(***************************************************************************)
(* The server implements VaultLog: each step is a step of the log under    *)
(* the refinement mapping, or none.                                        *)
(***************************************************************************)
AbstractLog  == TreesOn(HeadOutside)
AbstractSeen  == [r \in Requests |-> SeenBy(r)]

LEMMA KeptTrees ==
    ASSUME TypeOK, LinesOK, Kept, NEW i \in 0 .. Len(snaps)
    PROVE  TreesOn(i)' = TreesOn(i)
<1>1. Line(i)' = Line(i)
  BY KeptLines
<1>2. ASSUME NEW n \in 1 .. Len(Line(i))
      PROVE  TreeOf(Line(i)[n])' = TreeOf(Line(i)[n])
  <2>1. PICK j \in 0 .. Len(snaps) : j = Line(i)[n]
    BY TreesAreTrees
  <2>2. TreeOf(j)' = TreeOf(j) /\ j = (Line(i)[n])'
    BY <1>1, <2>1, KeptLines
  <2>3. QED
    BY <2>1, <2>2 DEF TreeOf
<1>3. QED
  BY <1>1, <1>2 DEF TreesOn

LEMMA TreesOnALine ==
    ASSUME TypeOK, LinesOK, NEW i \in 0 .. Len(snaps)
    PROVE  TreesOn(i) \in Seq(Tree) /\ Len(TreesOn(i)) = Len(Line(i))
<1>1. Len(Line(i)) \in Nat
  BY LineOf
<1>2. \A n \in 1 .. Len(Line(i)) : TreeOf(Line(i)[n]) \in Tree
  BY TreesAreTrees
<1>3. QED
  BY <1>1, <1>2 DEF TreesOn

LEMMA OthersSeen ==
    ASSUME TypeInv, NEW r \in Requests, Alone(r), Kept, NEW q \in Requests \ {r}
    PROVE  SeenBy(q)' = SeenBy(q)
<1>1. PICK i \in 0 .. Len(snaps) : i = parent[q]
  BY DEF TypeInv, TypeOK
<1>2. Line(i)' = Line(i) /\ i = parent'[q] /\ op'[q] = op[q]
  BY <1>1, KeptLines DEF TypeInv, Alone, Others, Same
<1>3. QED
  BY <1>1, <1>2 DEF SeenBy, Line

\* While the head stays where it is, one request that reads it or starts over
\* is a step of the log.
LEMMA QuietLog ==
    ASSUME TypeInv, Kept, NEW r \in Requests, Alone(r), HeadOutside' = HeadOutside,
           SeenBy(r)' \in {SeenBy(r), -1, Len(TreesOn(HeadOutside))}
    PROVE  [Log!Next]_Log!vars
<1>1. AbstractLog' = AbstractLog
  <2>1. PICK h \in 0 .. Len(snaps) : h = HeadOutside
    BY OutsideTyped
  <2>2. TreesOn(h)' = TreesOn(h) /\ h = HeadOutside'
    BY <2>1, KeptTrees DEF TypeInv
  <2>3. QED
    BY <2>1, <2>2 DEF AbstractLog, TreesOn, Line, TreeOf
<1>2. \A q \in Requests \ {r} : SeenBy(q)' = SeenBy(q)
  BY OthersSeen
<1>3. AbstractSeen' = [AbstractSeen EXCEPT ![r] = SeenBy(r)']
  BY <1>2 DEF AbstractSeen
<1>4. CASE SeenBy(r)' = SeenBy(r)
  <2>1. AbstractSeen' = AbstractSeen
    BY <1>2, <1>4 DEF AbstractSeen
  <2>2. QED
    BY <1>1, <2>1 DEF Log!vars, AbstractLog, AbstractSeen
<1>5. CASE SeenBy(r)' = -1
  <2>1. AbstractSeen' = [q \in Requests |-> IF q \in {r} THEN -1 ELSE AbstractSeen[q]]
    BY <1>2, <1>5 DEF AbstractSeen
  <2>2. Log!StartOver
    BY <1>1, <2>1 DEF Log!StartOver, AbstractLog, AbstractSeen
  <2>3. QED
    BY <2>2 DEF Log!Next, Log!ClientNext
<1>6. CASE SeenBy(r)' = Len(TreesOn(HeadOutside))
  <2>1. Log!Read(r)
    BY <1>1, <1>3, <1>6 DEF Log!Read, AbstractLog, AbstractSeen
  <2>2. QED
    BY <2>1 DEF Log!Next, Log!ClientNext
<1>7. QED
  BY <1>4, <1>5, <1>6

\* A request that is not setting the head has seen what it had, the head as it
\* is now, or no longer anything.
LEMMA StepSees ==
    ASSUME Serialised, TypeInv, SerialInv, NEW r \in Requests, StepOf(r), ~SetHead(r)
    PROVE  SeenBy(r)' \in {SeenBy(r), -1, Len(TreesOn(HeadOutside))}
<1>. TypeOK /\ Kept /\ TypeInv'
  BY RunsAlone DEF TypeInv
<1>1. CASE op'[r].kind # "push"
  BY <1>1 DEF SeenBy
<1>2. CASE op'[r] = op[r] /\ parent'[r] = parent[r]
  <2>1. PICK i \in 0 .. Len(snaps) : i = parent[r]
    BY DEF TypeOK
  <2>2. Line(i)' = Line(i) /\ i = parent'[r]
    BY <1>2, <2>1, KeptLines DEF TypeInv
  <2>3. SeenBy(r)' = SeenBy(r)
    BY <1>2, <2>1, <2>2 DEF SeenBy, Line
  <2>4. QED
    BY <2>3
<1>3. CASE StartPush(r)
  <2>1. pc'[r] = "have" /\ parent'[r] = head /\ UNCHANGED snaps
    BY <1>3 DEF StartPush, Begin, TypeOK
  <2>2. HeadOutside = head
    BY OutsideMoves
  <2>3. Len(TreesOn(head)) = Len(Line(head))
    BY TreesOnALine DEF TypeInv, TypeOK
  <2>4. op'[r].kind = "push"
    BY <2>1 DEF TypeInv, RequestOK
  <2>5. SeenBy(r)' = Len(Line(head))
    BY <2>1, <2>4 DEF SeenBy, Line
  <2>6. QED
    BY <2>2, <2>3, <2>5
<1>4. CASE FileApi(r)
  <2>1. pc'[r] = "base" \/ (pc[r] \in {"base", "commit"} /\ op'[r] \in {op[r], NoOp})
    <3>1. CASE StartPut(r) \/ StartDelete(r) \/ StartMove(r) \/ StartRestore(r)
      BY <3>1 DEF StartPut, StartDelete, StartMove, StartRestore, StartEdit, Begin, TypeOK
    <3>2. CASE ReadBase(r) \/ Commit(r)
      BY <3>2, EndOf DEF ReadBase, Commit, TypeOK
    <3>3. QED
      BY <1>4, <3>1, <3>2 DEF FileApi
  <2>2. op'[r].kind # "push"
    BY <2>1 DEF TypeInv, RequestOK, Edits, NoOp
  <2>3. QED
    BY <1>1, <2>2
<1>5. CASE Push(r) /\ ~StartPush(r)
  <2>1. CASE AskHave(r) \/ UploadObject(r)
    BY <1>2, <2>1 DEF AskHave, UploadObject
  <2>2. CASE PushCommit(r) /\ CommitAllowed(r)
    BY <1>2, <2>2 DEF PushCommit, PutSnapshot, TypeOK
  <2>3. CASE PushCommit(r) /\ ~CommitAllowed(r)
    <3>1. op'[r] = NoOp
      BY <2>3, EndOf DEF PushCommit
    <3>2. QED
      BY <1>1, <3>1 DEF NoOp
  <2>4. QED
    BY <1>5, <2>1, <2>2, <2>3 DEF Push
<1>6. CASE TruncateHead(r)
  BY <1>2, <1>6 DEF TruncateHead
<1>7. CASE UpdateTrash(r) \/ Sweep(r)
  <2>1. op'[r] = NoOp
    BY <1>7, EndOf DEF UpdateTrash, Sweep
  <2>2. QED
    BY <1>1, <2>1 DEF NoOp
<1>8. CASE Purge(r) /\ ~Sweep(r)
  <2>1. Purging(r)'
    BY <1>8 DEF Purge, StartPurge, ListTrash, MarkLive, Begin, TypeOK, Purging
  <2>2. op'[r].kind # "push"
    BY <2>1 DEF TypeInv, RequestOK
  <2>3. QED
    BY <1>1, <2>2
<1>9. QED
  BY <1>3, <1>4, <1>5, <1>6, <1>7, <1>8 DEF StepOf, Publish

\* Setting the head is where the log grows: by a push whose parent it still
\* was, or by an edit of the newest tree.
LEMMA SetHeadLogs ==
    ASSUME Serialised, TypeInv, SerialInv, NEW r \in Requests, SetHead(r)
    PROVE  [Log!Next]_Log!vars
<1>. TypeOK /\ LinesOK /\ StepOf(r)
  BY DEF TypeInv, StepOf, Publish
<1>1. Alone(r) /\ Kept /\ pc[r] = "write" /\ UNCHANGED snaps
  BY RunsAlone DEF SetHead
<1>2. HeadOutside = parent[r] /\ HeadOutside' = made[r]
  BY OutsideMoves
<1>3. PICK i \in 1 .. Len(snaps), j \in 0 .. Len(snaps) : i = made[r] /\ j = parent[r]
  BY <1>1, NewHead
<1>4. Line(i) = Append(Line(j), i) /\ TreeOf(i) \in Tree /\ i \in 0 .. Len(snaps)
  BY <1>1, <1>3, NewHead
<1>5. AbstractLog = TreesOn(j) /\ AbstractLog' = TreesOn(i)
  <2>1. AbstractLog' = TreesOn(i)'
    BY <1>2, <1>3 DEF AbstractLog, TreesOn, Line, TreeOf
  <2>2. QED
    BY <1>1, <1>2, <1>3, <1>4, <2>1, KeptTrees DEF AbstractLog
<1>6. TreesOn(i) = Append(TreesOn(j), TreeOf(i)) /\ TreesOn(j) \in Seq(Tree)
  <2>1. Line(j) \in Seq(1 .. Len(snaps)) /\ Len(Line(j)) \in Nat
    BY LineOf
  <2>2. /\ Len(Line(i)) = Len(Line(j)) + 1 /\ Line(i)[Len(Line(j)) + 1] = i
        /\ \A n \in 1 .. Len(Line(j)) : Line(i)[n] = Line(j)[n]
    BY <1>4, <2>1
  <2>3. TreesOn(j) \in Seq(Tree) /\ Len(TreesOn(j)) = Len(Line(j))
    BY TreesOnALine
  <2>4. \A n \in 1 .. Len(Line(j)) + 1 : TreesOn(i)[n] = Append(TreesOn(j), TreeOf(i))[n]
    BY <2>1, <2>2, <2>3 DEF TreesOn
  <2>5. QED
    BY <2>1, <2>2, <2>3, <2>4 DEF TreesOn
<1>7. Log!Extended
  <2>1. /\ AbstractLog' # <<>>
        /\ AbstractLog'[Len(AbstractLog')] = TreeOf(i)
    BY <1>5, <1>6
  <2>2. QED
    BY <1>4, <1>5, <1>6, <2>1 DEF Log!Extended, AbstractLog
<1>8. \A q \in Requests \ {r} : SeenBy(q)' = SeenBy(q)
  BY <1>1, OthersSeen
<1>9. CASE op[r].kind = "push"
  <2>1. SeenBy(r) = Len(AbstractLog)
    BY <1>3, <1>5, <1>9, TreesOnALine DEF SeenBy
  <2>2. SeenBy(r)' = -1
    BY <1>1, <1>9, EndOf DEF SetHead, SeenBy, NoOp
  <2>3. AbstractSeen' = [AbstractSeen EXCEPT ![r] = -1]
    BY <1>8, <2>2 DEF AbstractSeen
  <2>4. Log!Push(r)
    BY <1>7, <2>1, <2>3 DEF Log!Push, AbstractLog, AbstractSeen
  <2>5. QED
    BY <2>4 DEF Log!Next, Log!ClientNext
<1>10. CASE op[r].kind # "push"
  <2>1. SeenBy(r) = -1 /\ SeenBy(r)' = -1
    <3>1. CASE op[r].kind \in {"delete", "restore"}
      BY <1>10, <3>1 DEF SetHead, SeenBy
    <3>2. CASE op[r].kind \notin {"delete", "restore"}
      BY <1>1, <1>10, <3>2, EndOf DEF SetHead, SeenBy, NoOp
    <3>3. QED
      BY <3>1, <3>2
  <2>2. AbstractSeen' = AbstractSeen
    BY <1>8, <2>1 DEF AbstractSeen
  <2>3. Log!Edit
    BY <1>7, <2>2 DEF Log!Edit, AbstractLog, AbstractSeen
  <2>4. QED
    BY <2>3 DEF Log!Next
<1>11. QED
  BY <1>9, <1>10

LEMMA StepLogs ==
    ASSUME Serialised, TypeInv, SerialInv, NEW r \in Requests, StepOf(r)
    PROVE  [Log!Next]_Log!vars
<1>1. CASE SetHead(r)
  BY <1>1, SetHeadLogs
<1>2. CASE ~SetHead(r)
  <2>1. Alone(r) /\ Kept /\ HeadOutside' = HeadOutside
    BY <1>2, RunsAlone, OutsideMoves
  <2>2. SeenBy(r)' \in {SeenBy(r), -1, Len(TreesOn(HeadOutside))}
    BY <1>2, StepSees
  <2>3. QED
    BY <2>1, <2>2, QuietLog
<1>3. QED
  BY <1>1, <1>2

LEMMA CrashLogs ==
    ASSUME Whole, TypeInv, Crash
    PROVE  [Log!Next]_Log!vars
<1>1. (\A r \in Requests : op'[r] = NoOp) /\ UNCHANGED snaps
  BY CrashTyped
<1>2. HeadOutside' = HeadOutside
  BY CrashOutside DEF Whole
<1>3. AbstractLog' = AbstractLog
  BY <1>1, <1>2 DEF AbstractLog, TreesOn, Line, TreeOf
<1>4. AbstractSeen' = [r \in Requests |-> IF r \in Requests THEN -1 ELSE AbstractSeen[r]]
  BY <1>1 DEF AbstractSeen, SeenBy, NoOp
<1>5. Log!StartOver
  BY <1>3, <1>4 DEF Log!StartOver, AbstractLog, AbstractSeen
<1>6. QED
  BY <1>5 DEF Log!Next, Log!ClientNext

LEMMA StutterLogs ==
    ASSUME UNCHANGED vars
    PROVE  UNCHANGED Log!vars
<1>1. UNCHANGED <<head, snaps, pc, op, parent>>
  BY DEF vars, requests
<1>2. HeadOutside' = HeadOutside
  BY <1>1 DEF HeadOutside
<1>3. AbstractLog' = AbstractLog
  BY <1>1, <1>2 DEF AbstractLog, TreesOn, Line, TreeOf
<1>4. AbstractSeen' = AbstractSeen
  BY <1>1 DEF AbstractSeen, SeenBy, Line
<1>5. QED
  BY <1>3, <1>4 DEF Log!vars, AbstractLog, AbstractSeen

\* Handling one request at a time and writing HEAD whole, the server keeps the
\* promise SyncDevices is written against: a log of trees that only grows, by
\* one tree at a time, and that a device extends only while its view of the
\* head is current. Purges do not touch it.
THEOREM ServerImplementsLog ==
    ASSUME Whole
    PROVE  Spec => KeepsTheLog
<1>1. Init => Log!Init
  <2>. SUFFICES ASSUME Init PROVE Log!Init
    OBVIOUS
  <2>1. HeadOutside = NoHead /\ Line(NoHead) = <<>>
    BY DEF Init, HeadOutside, Line
  <2>2. TreesOn(HeadOutside) = <<>>
    BY <2>1 DEF TreesOn
  <2>3. \A r \in Requests : SeenBy(r) = -1
    BY DEF Init, SeenBy, NoOp
  <2>4. QED
    BY <2>2, <2>3 DEF Log!Init
<1>2. SerialTypeInv /\ [Next]_vars => [Log!Next]_Log!vars
  <2>. SUFFICES ASSUME SerialTypeInv, [Next]_vars PROVE [Log!Next]_Log!vars
    OBVIOUS
  <2>1. TypeInv /\ SerialInv /\ Serialised
    BY DEF SerialTypeInv, Whole
  <2>2. CASE Crash
    BY <2>1, <2>2, CrashLogs
  <2>3. ASSUME NEW r \in Requests, StepOf(r) PROVE [Log!Next]_Log!vars
    BY <2>1, <2>3, StepLogs
  <2>4. CASE UNCHANGED vars
    BY <2>4, StutterLogs
  <2>5. QED
    BY <2>2, <2>3, <2>4 DEF Next, StepOf
<1>3. Serialised
  BY DEF Whole
<1>4. QED
  BY <1>1, <1>2, <1>3, InitSerial, NextSerial, PTL DEF Spec, KeepsTheLog, Log!Spec

-----------------------------------------------------------------------------
(***************************************************************************)
(* No purge during a push: what the head, its history and the trash need   *)
(* is in the store, and stays there while HEAD is torn.                    *)
(***************************************************************************)
Quiet == Serialised /\ QuietPurges

FullInv == SerialTypeInv /\ StoreInv

\* What a step leaves as it was.
Moved(r) == /\ Alone(r) /\ Kept /\ TypeInv'
            /\ SetHead(r)  => HeadOutside = parent[r] /\ HeadOutside' = made[r]
            /\ ~SetHead(r) => HeadOutside = head /\ HeadOutside' = head

LEMMA StepMoves ==
    ASSUME Quiet, FullInv, NEW r \in Requests, StepOf(r)
    PROVE  Moved(r)
  BY RunsAlone, OutsideMoves DEF Quiet, FullInv, SerialTypeInv, Moved

\* What is held under a head that stays is there as long as it is not deleted.
LEMMA HeldStays ==
    ASSUME TypeInv, Kept, NEW h \in 0 .. Len(snaps), HeadOutside' = h, Held(h) \subseteq store'
    PROVE  HeldThere'
<1>1. Held(h)' = Held(h) /\ Line(h)' = Line(h)
  BY KeptLines DEF TypeInv
<1>2. QED
  BY <1>1 DEF HeldThere, Held, HeldAt, Newest, Line, TreeOf

\* What is left to show of a step that deletes nothing and sets no head.
LEMMA QuietStore ==
    ASSUME FullInv, NEW r \in Requests, Moved(r), ~SetHead(r), store \subseteq store',
           Purging(r)' => \A q \in Requests : ~Pushing(q), Pushing(r)' => ~Purging(r),
           TrashRestorable', ObjectsOK(r)'
    PROVE  StoreInv'
<1>. TypeInv /\ StoreInv /\ Alone(r)
  BY DEF FullInv, SerialTypeInv, Moved
<1>1. HeldThere'
  <2>1. PICK h \in 0 .. Len(snaps) : h = HeadOutside
    BY OutsideTyped
  <2>2. Held(h) \subseteq store' /\ HeadOutside' = h
    BY <2>1 DEF StoreInv, HeldThere, Moved
  <2>3. QED
    BY <2>2, HeldStays DEF Moved
<1>2. PurgesQuiet'
  <2>1. \A q \in Requests \ {r} : /\ Purging(q)' = Purging(q) /\ ~Purging(q)
                                  /\ Pushing(q)' = Pushing(q)
    BY DEF Alone, Others, Same, Handling, Pushing, Purging
  <2>2. Purging(r)' => ~Pushing(r)'
    BY DEF Purging, Pushing
  <2>3. QED
    BY <2>1, <2>2 DEF PurgesQuiet
<1>3. \A q \in Requests \ {r} : ObjectsOK(q)'
  BY DEF StoreInv, Alone, Others, Same, Handling, Pushing, ObjectsOK, Purging
<1>4. QED
  BY <1>1, <1>2, <1>3 DEF StoreInv

\* While nobody writes HEAD, the files of its tree are there.
LEMMA HeadFiles ==
    ASSUME FullInv, HeadOutside = head
    PROVE  /\ Files(TreeOf(head)) \subseteq store
           /\ \A p \in Path : TreeOf(head)[p] # NoNode => File(TreeOf(head)[p]) \in store
<1>. TypeInv /\ TypeOK /\ LinesOK /\ HeldThere
  BY DEF FullInv, SerialTypeInv, TypeInv, StoreInv
<1>1. TreeOf(head) \in Tree
  BY HeadTreeIsATree
<1>2. ASSUME NEW p \in Path, TreeOf(head)[p] # NoNode
      PROVE  File(TreeOf(head)[p]) \in store
  <2>1. head # NoHead
    BY <1>2 DEF TreeOf, EmptyTree
  <2>2. head \in 1 .. Len(snaps)
    BY <2>1 DEF NoHead, TypeOK
  <2>3. Objects(TreeOf(head)) \subseteq store
    BY <2>2, HeadIsHeld DEF HeldThere
  <2>4. QED
    BY <1>1, <1>2, <2>3, ObjectsAreObjects
<1>3. QED
  BY <1>2 DEF Files

\* A request of the file API begins with the file it will put in the tree.
LEMMA StartStore ==
    ASSUME FullInv, NEW r \in Requests, Moved(r),
           StartPut(r) \/ StartDelete(r) \/ StartMove(r) \/ StartRestore(r)
    PROVE  StoreInv'
<1>. TypeInv /\ TypeOK /\ StoreInv
  BY DEF FullInv, SerialTypeInv, TypeInv
<1>1. pc[r] = "idle" /\ pc'[r] = "base" /\ UNCHANGED <<head, trash>> /\ store \subseteq store'
  BY DEF StartPut, StartDelete, StartMove, StartRestore, StartEdit, Begin, TypeOK
<1>2. ~SetHead(r) /\ HeadOutside = head
  BY <1>1 DEF SetHead, Moved
<1>3. File(op'[r].node) \in store'
  <2>1. CASE StartPut(r)
    BY <2>1 DEF StartPut, StartEdit, Begin, NoOp, TypeOK
  <2>2. CASE StartDelete(r) \/ StartMove(r)
    <3>1. PICK p \in Path : /\ TreeOf(head)[p] # NoNode /\ op'[r].node = TreeOf(head)[p]
                            /\ UNCHANGED store
      BY <2>2 DEF StartDelete, StartMove, StartEdit, Begin, NoOp, TypeOK
    <3>2. QED
      BY <1>2, <3>1, HeadFiles
  <2>3. CASE StartRestore(r)
    <3>. DEFINE free(row) == IF TreeOf(head)[row.path] = NoNode
                             THEN row.path ELSE Restored(row.path)
                what(row) == [NoOp EXCEPT !.kind = "restore", !.path = free(row),
                                          !.node = row.node, !.row = row.id]
    <3>1. PICK row \in trash : /\ File(row.node) \in store
                               /\ StartEdit(r, what(row))
                               /\ UNCHANGED store
      BY <2>3 DEF StartRestore
    <3>2. what(row).node = row.node
      BY DEF NoOp
    <3>3. op'[r] = what(row)
      BY <3>1 DEF StartEdit, Begin, TypeOK
    <3>. HIDE DEF what
    <3>4. QED
      BY <3>1, <3>2, <3>3
  <2>4. QED
    BY <2>1, <2>2, <2>3
<1>4. ObjectsOK(r)'
  BY <1>1, <1>3 DEF ObjectsOK
<1>5. TrashRestorable'
  BY <1>1 DEF StoreInv, TrashRestorable
<1>6. QED
  BY <1>1, <1>2, <1>4, <1>5, QuietStore DEF Purging, Pushing

\* A request that ends without a commit.
LEMMA EndStore ==
    ASSUME FullInv, NEW r \in Requests, Moved(r), pc[r] # "write", pc'[r] = "idle",
           store \subseteq store', TrashRestorable'
    PROVE  StoreInv'
<1>1. ObjectsOK(r)' /\ ~Purging(r)' /\ ~Pushing(r)'
  BY DEF ObjectsOK, Handling, Purging, Pushing
<1>2. QED
  BY <1>1, QuietStore DEF SetHead

LEMMA ReadBaseStore ==
    ASSUME FullInv, NEW r \in Requests, Moved(r), ReadBase(r)
    PROVE  StoreInv'
<1>. TypeInv /\ TypeOK /\ StoreInv /\ Kept
  BY DEF FullInv, SerialTypeInv, TypeInv, Moved
<1>. DEFINE new == Change(TreeOf(head), op[r])
<1>1. pc[r] = "base" /\ op[r].kind # "push" /\ op[r] \in Operation /\ UNCHANGED trash
  BY DEF ReadBase, RequestOK, Edits, TypeInv, TypeOK
<1>2. File(op[r].node) \in store
  BY <1>1 DEF StoreInv, ObjectsOK, Handling, Pushing, Purging
<1>3. ~SetHead(r) /\ HeadOutside = head
  BY <1>1 DEF SetHead, Moved
<1>4. CASE ~Readable
  <2>1. pc'[r] = "idle" /\ UNCHANGED store
    BY <1>4, EndOf DEF ReadBase
  <2>2. QED
    BY <1>1, <2>1, EndStore DEF StoreInv, TrashRestorable
<1>5. CASE Readable
  <2>1. /\ root'[r] = new /\ store' = store \cup {Dir(new)}
        /\ pc'[r] = "commit" /\ op'[r] = op[r]
    BY <1>5 DEF ReadBase, TypeOK
  <2>2. Objects(new) \subseteq store'
    BY <1>1, <1>2, <1>3, <2>1, HeadFiles, HeadTreeIsATree, ChangedObjects
  <2>3. ObjectsOK(r)' /\ TrashRestorable'
    BY <1>1, <1>2, <2>1, <2>2 DEF ObjectsOK, StoreInv, TrashRestorable
  <2>4. QED
    BY <1>3, <2>1, <2>3, QuietStore DEF Purging, Pushing
<1>6. QED
  BY <1>4, <1>5

\* A snapshot that is made of a complete tree.
LEMMA PutSnapshotStore ==
    ASSUME FullInv, NEW r \in Requests, Moved(r), PutSnapshot(r, head),
           pc[r] \in {"commit", "upload"}, UNCHANGED <<trash, op, root>>,
           Objects(root[r]) \subseteq store,
           op[r].kind # "push" => File(op[r].node) \in store
    PROVE  StoreInv'
<1>. TypeOK /\ StoreInv
  BY DEF FullInv, SerialTypeInv, TypeInv
<1>1. /\ store' = store \cup {Snap(Len(snaps) + 1)} /\ made'[r] = Len(snaps) + 1
      /\ pc'[r] = "head"
  BY DEF PutSnapshot, TypeOK
<1>2. ObjectsOK(r)' /\ TrashRestorable'
  BY <1>1 DEF ObjectsOK, StoreInv, TrashRestorable
<1>3. QED
  BY <1>1, <1>2, QuietStore DEF SetHead, Purging, Pushing

LEMMA CommitStore ==
    ASSUME FullInv, NEW r \in Requests, Moved(r), Commit(r)
    PROVE  StoreInv'
<1>. TypeOK /\ StoreInv /\ Kept
  BY DEF FullInv, SerialTypeInv, TypeInv, Moved
<1>1. /\ pc[r] = "commit" /\ Objects(root[r]) \subseteq store /\ UNCHANGED trash
      /\ op[r].kind # "push" => File(op[r].node) \in store
  BY DEF Commit, StoreInv, ObjectsOK, Handling, Pushing, Purging
<1>2. CASE Dir(root[r]) \in store
  BY <1>1, <1>2, PutSnapshotStore DEF Commit
<1>3. CASE Dir(root[r]) \notin store
  <2>1. pc'[r] = "idle" /\ UNCHANGED store
    BY <1>3, EndOf DEF Commit
  <2>2. QED
    BY <1>1, <2>1, EndStore DEF StoreInv, TrashRestorable
<1>4. QED
  BY <1>2, <1>3

LEMMA PushStore ==
    ASSUME FullInv, NEW r \in Requests, Moved(r), Push(r)
    PROVE  StoreInv'
<1>. TypeInv /\ TypeOK /\ StoreInv /\ Kept /\ Alone(r)
  BY DEF FullInv, SerialTypeInv, TypeInv, Moved
<1>1. /\ pc[r] \in {"idle", "have", "upload"} /\ ~SetHead(r) /\ UNCHANGED trash
      /\ store \subseteq store'
  BY DEF Push, StartPush, AskHave, UploadObject, PushCommit, PutSnapshot, SetHead
<1>2. TrashRestorable' /\ ~Purging(r)
  BY <1>1 DEF StoreInv, TrashRestorable, Purging
<1>3. CASE StartPush(r)
  <2>1. pc'[r] = "have"
    BY <1>3 DEF StartPush, Begin, TypeOK
  <2>2. ObjectsOK(r)'
    BY <2>1 DEF ObjectsOK, Handling, Pushing
  <2>3. QED
    BY <1>1, <1>2, <2>1, <2>2, QuietStore DEF Purging
<1>4. CASE AskHave(r)
  <2>1. /\ pc'[r] = "upload" /\ root'[r] = root[r] /\ store' = store
        /\ missing'[r] = Objects(root[r]) \ store
    BY <1>4 DEF AskHave, TypeOK
  <2>2. ObjectsOK(r)'
    BY <2>1 DEF ObjectsOK, Handling, Pushing
  <2>3. QED
    BY <1>1, <1>2, <2>1, <2>2, QuietStore DEF Purging
<1>5. CASE UploadObject(r)
  <2>1. PICK o \in missing[r] :
          /\ pc[r] = "upload" /\ store' = store \cup {o}
          /\ missing'[r] = missing[r] \ {o} /\ pc'[r] = "upload" /\ root'[r] = root[r]
    BY <1>5 DEF UploadObject, TypeOK
  <2>2. Objects(root[r]) \subseteq store \cup missing[r]
    BY <2>1 DEF StoreInv, ObjectsOK
  <2>3. ObjectsOK(r)'
    BY <2>1, <2>2 DEF ObjectsOK, Handling, Pushing
  <2>4. QED
    BY <1>1, <1>2, <2>1, <2>3, QuietStore DEF Purging
<1>6. CASE PushCommit(r)
  <2>1. pc[r] = "upload" /\ missing[r] = {} /\ op[r].kind = "push"
    BY <1>6 DEF PushCommit, TypeInv, RequestOK
  <2>2. Objects(root[r]) \subseteq store
    BY <2>1 DEF StoreInv, ObjectsOK
  <2>3. CASE CommitAllowed(r)
    BY <1>6, <2>1, <2>2, <2>3, PutSnapshotStore DEF PushCommit, CommitAllowed
  <2>4. CASE ~CommitAllowed(r)
    <3>1. pc'[r] = "idle"
      BY <1>6, <2>4, EndOf DEF PushCommit
    <3>2. QED
      BY <1>1, <1>2, <3>1, EndStore
  <2>5. QED
    BY <2>3, <2>4
<1>7. QED
  BY <1>3, <1>4, <1>5, <1>6 DEF Push

LEMMA TruncateHeadStore ==
    ASSUME FullInv, NEW r \in Requests, Moved(r), TruncateHead(r)
    PROVE  StoreInv'
<1>. StoreInv /\ TypeOK
  BY DEF FullInv, SerialTypeInv, TypeInv
<1>1. /\ pc[r] = "head" /\ pc'[r] = "write" /\ ~SetHead(r)
      /\ UNCHANGED <<store, trash, op, root, made>>
  BY DEF TruncateHead, SetHead, TypeOK
<1>2. ObjectsOK(r)
  BY DEF StoreInv
<1>3. File(op[r].node) \in store \/ op[r].kind = "push"
  BY <1>1, <1>2 DEF ObjectsOK, Handling, Pushing, Purging
<1>4. ObjectsOK(r)' /\ TrashRestorable'
  BY <1>1, <1>2, <1>3 DEF ObjectsOK, StoreInv, TrashRestorable
<1>5. QED
  BY <1>1, <1>4, QuietStore DEF Purging, Pushing

\* The head that is set is on the line of the one it replaces, and whole.
LEMMA SetHeadStore ==
    ASSUME FullInv, NEW r \in Requests, Moved(r), SetHead(r)
    PROVE  StoreInv'
<1>. TypeInv /\ TypeOK /\ LinesOK /\ StoreInv /\ Alone(r) /\ Kept
  BY DEF FullInv, SerialTypeInv, TypeInv, Moved
<1>1. /\ pc[r] = "write" /\ UNCHANGED <<snaps, store, trash>>
      /\ HeadOutside = parent[r] /\ HeadOutside' = made[r]
  BY DEF SetHead, Moved
<1>2. PICK i \in 1 .. Len(snaps), j \in 0 .. Len(snaps) : i = made[r] /\ j = parent[r]
  BY <1>1, NewHead
<1>3. /\ i \in 0 .. Len(snaps) /\ Line(i) = Append(Line(j), i) /\ TreeOf(i) = root[r]
      /\ {Snap(i)} \cup Objects(root[r]) \subseteq store
  BY <1>1, <1>2, NewHead DEF StoreInv, ObjectsOK
<1>4. Held(i) \subseteq Held(j) \cup {Snap(i)} \cup Objects(TreeOf(i))
  BY <1>3, HeldOfNewHead
<1>5. Held(i) \subseteq store'
  BY <1>1, <1>2, <1>3, <1>4 DEF StoreInv, HeldThere
<1>6. HeldThere'
  BY <1>1, <1>2, <1>3, <1>5, HeldStays
<1>7. ObjectsOK(r)' /\ pc'[r] \in {"idle", "trash"}
  <2>1. CASE op[r].kind \in {"delete", "restore"}
    <3>1. pc'[r] = "trash" /\ UNCHANGED op
      BY <2>1 DEF SetHead, TypeOK
    <3>2. File(op[r].node) \in store
      BY <1>1, <2>1 DEF StoreInv, ObjectsOK, Handling, Pushing, Purging
    <3>3. QED
      BY <1>1, <3>1, <3>2 DEF ObjectsOK
  <2>2. CASE op[r].kind \notin {"delete", "restore"}
    <3>1. pc'[r] = "idle"
      BY <2>2, EndOf DEF SetHead
    <3>2. QED
      BY <3>1 DEF ObjectsOK, Handling
  <2>3. QED
    BY <2>1, <2>2
<1>8. PurgesQuiet'
  <2>1. \A q \in Requests : ~Purging(q)'
    BY <1>7 DEF Alone, Others, Same, Handling, Pushing, Purging
  <2>2. QED
    BY <2>1 DEF PurgesQuiet
<1>9. \A q \in Requests \ {r} : ObjectsOK(q)'
  BY <1>1 DEF StoreInv, Alone, Others, Same, Handling, Pushing, ObjectsOK, Purging
<1>10. TrashRestorable'
  BY <1>1 DEF StoreInv, TrashRestorable
<1>11. QED
  BY <1>6, <1>7, <1>8, <1>9, <1>10 DEF StoreInv

LEMMA UpdateTrashStore ==
    ASSUME FullInv, NEW r \in Requests, Moved(r), UpdateTrash(r)
    PROVE  StoreInv'
<1>. TypeInv /\ TypeOK /\ StoreInv /\ Kept
  BY DEF FullInv, SerialTypeInv, TypeInv, Moved
<1>1. /\ pc[r] = "trash" /\ End(r) /\ UNCHANGED store /\ trash' \subseteq trash \cup {RowOf(r)}
      /\ op[r].kind # "push"
  BY DEF UpdateTrash, TypeInv, RequestOK
<1>2. File(RowOf(r).node) \in store
  BY <1>1 DEF StoreInv, ObjectsOK, Handling, Pushing, Purging, RowOf
<1>3. TrashRestorable'
  BY <1>1, <1>2 DEF StoreInv, TrashRestorable
<1>4. pc'[r] = "idle"
  BY <1>1, EndOf
<1>5. QED
  BY <1>1, <1>3, <1>4, EndStore

LEMMA CollectStore ==
    ASSUME Quiet, FullInv, NEW r \in Requests, Moved(r), StartPurge(r) \/ ListTrash(r) \/ MarkLive(r)
    PROVE  StoreInv'
<1>. TypeInv /\ TypeOK /\ LinesOK /\ StoreInv /\ Kept
  BY DEF FullInv, SerialTypeInv, TypeInv, Moved
<1>1. pc[r] \in {"idle", "keep", "mark"} /\ ~SetHead(r) /\ UNCHANGED <<head, snaps, store>> /\ trash' \subseteq trash
  BY DEF StartPurge, ListTrash, MarkLive, SetHead
<1>2. \A q \in Requests : ~Pushing(q)
  <2>1. CASE StartPurge(r)
    BY <2>1 DEF StartPurge, Quiet
  <2>2. CASE ~StartPurge(r)
    <3>1. Purging(r)
      BY <2>2 DEF ListTrash, MarkLive, Purging
    <3>2. QED
      BY <3>1 DEF StoreInv, PurgesQuiet
  <2>3. QED
    BY <2>1, <2>2
<1>3. TrashRestorable'
  BY <1>1 DEF StoreInv, TrashRestorable
<1>4. HeadOutside = head /\ head \in 0 .. Len(snaps)
  BY <1>1 DEF Moved, TypeOK
<1>5. Held(head) \subseteq Marked(head)
  BY <1>4, HeldIsMarked DEF StoreInv, HeldThere
<1>6. Held(head)' = Held(head)
  BY <1>1 DEF Held, HeldAt, Newest, Line, TreeOf
<1>7. Purging(r)' /\ ObjectsOK(r)'
  <2>1. CASE StartPurge(r)
    <3>1. pc'[r] = "keep"
      BY <2>1 DEF StartPurge, Begin, TypeOK
    <3>2. QED
      BY <3>1 DEF ObjectsOK, Purging
  <2>2. CASE ListTrash(r)
    <3>1. pc'[r] = "mark" /\ live'[r] = Keep(trash) /\ trash' = trash
      BY <2>2 DEF ListTrash, TypeOK
    <3>2. QED
      BY <3>1 DEF ObjectsOK, Purging, Keep
  <2>3. CASE MarkLive(r)
    <3>1. /\ pc'[r] = "sweep" /\ live'[r] = live[r] \cup Marked(head) /\ trash' = trash
          /\ Keep(trash) \subseteq live[r]
      BY <2>3 DEF MarkLive, TypeOK, StoreInv, ObjectsOK
    <3>2. QED
      BY <1>5, <1>6, <3>1 DEF ObjectsOK, Purging, Keep
  <2>4. QED
    BY <2>1, <2>2, <2>3
<1>8. ~Pushing(r)'
  BY <1>7 DEF Purging, Pushing
<1>9. QED
  BY <1>1, <1>2, <1>3, <1>7, <1>8, QuietStore

\* What is not marked may go: nothing held and nothing in the trash.
LEMMA SweptStore ==
    ASSUME FullInv, NEW r \in Requests, pc[r] = "sweep", Kept, store \cap live[r] \subseteq store',
           HeadOutside = head, HeadOutside' = head, UNCHANGED trash
    PROVE  HeldThere' /\ TrashRestorable'
<1>. TypeInv /\ TypeOK /\ StoreInv
  BY DEF FullInv, SerialTypeInv, TypeInv
<1>1. Keep(trash) \subseteq live[r] /\ Held(head) \subseteq live[r]
  BY DEF StoreInv, ObjectsOK
<1>2. TrashRestorable'
  BY <1>1 DEF StoreInv, TrashRestorable, Keep
<1>3. head \in 0 .. Len(snaps) /\ Held(head) \subseteq store'
  BY <1>1 DEF StoreInv, HeldThere, TypeOK
<1>4. QED
  BY <1>2, <1>3, HeldStays

LEMMA SweepStore ==
    ASSUME FullInv, NEW r \in Requests, Moved(r), Sweep(r)
    PROVE  StoreInv'
<1>. TypeInv /\ TypeOK /\ StoreInv /\ Kept /\ Alone(r)
  BY DEF FullInv, SerialTypeInv, TypeInv, Moved
<1>1. pc[r] = "sweep" /\ ~SetHead(r) /\ UNCHANGED trash /\ store' = store \cap live[r] /\ pc'[r] = "idle"
  BY EndOf DEF Sweep, SetHead
<1>2. HeldThere' /\ TrashRestorable'
  BY <1>1, SweptStore DEF Moved
<1>3. \A q \in Requests : ~Pushing(q)
  BY <1>1 DEF StoreInv, PurgesQuiet, Purging
<1>4. \A q \in Requests : ObjectsOK(q)' /\ ~Purging(q)'
  BY <1>1, <1>3 DEF Alone, Others, Same, Handling, Pushing, ObjectsOK, Purging
<1>5. QED
  BY <1>2, <1>4 DEF StoreInv, PurgesQuiet

\* A crash leaves the store as it was, or as a sweep had left it by then; HEAD
\* as it was, or empty.
LEMMA CrashStore ==
    ASSUME FullInv, Crash
    PROVE  StoreInv'
<1>. TypeInv /\ SerialInv /\ TypeOK /\ StoreInv
  BY DEF FullInv, SerialTypeInv, TypeInv
<1>1. /\ UNCHANGED <<head, snaps, trash>> /\ store' \subseteq store /\ HeadOutside' = head
      /\ \A r \in Requests : pc'[r] = "idle"
  BY CrashTyped, CrashOutside
<1>2. Kept /\ head \in 0 .. Len(snaps)
  BY <1>1 DEF Kept, TypeOK
<1>3. HeldThere' /\ TrashRestorable'
  <2>1. CASE store' = store
    <3>1. Held(head) \subseteq store'
      <4>1. CASE head = NoHead
        <5>1. Len(Line(head)) = 0
          BY <4>1 DEF Line
        <5>2. QED
          BY <5>1 DEF Held, Newest
      <4>2. CASE head # NoHead
        <5>1. HeadOutside = head
          BY <4>2 DEF SerialInv, HeadKnown, HeadOutside
        <5>2. QED
          BY <2>1, <5>1 DEF StoreInv, HeldThere
      <4>3. QED
        BY <4>1, <4>2
    <3>2. TrashRestorable'
      BY <1>1, <2>1 DEF StoreInv, TrashRestorable
    <3>3. QED
      BY <1>1, <1>2, <3>1, <3>2, HeldStays
  <2>2. CASE store' # store
    <3>1. PICK r \in Requests : pc[r] = "sweep" /\ store \cap live[r] \subseteq store'
      BY <2>2 DEF Crash
    <3>2. \A q \in Requests : pc[q] # "write"
      BY <3>1 DEF SerialInv, OneAtATime, Handling, Pushing
    <3>3. HeadOutside = head
      BY <3>2 DEF HeadOutside
    <3>4. QED
      BY <1>1, <1>2, <3>1, <3>3, SweptStore
  <2>3. QED
    BY <2>1, <2>2
<1>4. PurgesQuiet' /\ \A q \in Requests : ObjectsOK(q)'
  BY <1>1 DEF PurgesQuiet, Purging, ObjectsOK, Handling
<1>5. QED
  BY <1>3, <1>4 DEF StoreInv

LEMMA StutterStore ==
    ASSUME FullInv, UNCHANGED vars
    PROVE  StoreInv'
<1>. TypeInv /\ StoreInv
  BY DEF FullInv, SerialTypeInv
<1>1. /\ UNCHANGED <<head, snaps, store, trash, pc, op, root, made, missing, live>>
      /\ HeadOutside' = HeadOutside
  BY StutterOutside DEF vars, requests
<1>2. HeldThere'
  <2>1. PICK h \in 0 .. Len(snaps) : h = HeadOutside
    BY OutsideTyped
  <2>2. Kept /\ HeadOutside' = h /\ Held(h) \subseteq store'
    BY <1>1, <2>1 DEF Kept, StoreInv, HeldThere
  <2>3. QED
    BY <2>2, HeldStays
<1>3. PurgesQuiet' /\ TrashRestorable'
  BY <1>1 DEF StoreInv, PurgesQuiet, TrashRestorable, Purging, Pushing
<1>4. ASSUME NEW q \in Requests PROVE ObjectsOK(q)'
  <2>1. ObjectsOK(q) /\ Held(head)' = Held(head) /\ Keep(trash)' = Keep(trash)
    BY <1>1 DEF StoreInv, Held, HeldAt, Newest, Line, TreeOf, Keep
  <2>2. QED
    BY <1>1, <2>1 DEF ObjectsOK, Handling, Pushing, Purging
<1>5. QED
  BY <1>2, <1>3, <1>4 DEF StoreInv

LEMMA NextFull ==
    ASSUME Quiet
    PROVE  FullInv /\ [Next]_vars => FullInv'
<1>. SUFFICES ASSUME FullInv, [Next]_vars PROVE StoreInv'
  BY NextSerial DEF FullInv, Quiet
<1>1. ASSUME NEW r \in Requests, StepOf(r) PROVE StoreInv'
  <2>1. Moved(r)
    BY <1>1, StepMoves
  <2>2. CASE FileApi(r)
    BY <2>1, <2>2, StartStore, ReadBaseStore, CommitStore DEF FileApi
  <2>3. CASE Push(r)
    BY <2>1, <2>3, PushStore
  <2>4. CASE Publish(r)
    BY <2>1, <2>4, TruncateHeadStore, SetHeadStore, UpdateTrashStore DEF Publish
  <2>5. CASE Purge(r)
    BY <2>1, <2>5, CollectStore, SweepStore DEF Purge
  <2>6. QED
    BY <1>1, <2>2, <2>3, <2>4, <2>5 DEF StepOf
<1>2. QED
  BY <1>1, CrashStore, StutterStore DEF Next, StepOf

LEMMA InitFull == Init => FullInv
<1>. SUFFICES ASSUME Init PROVE StoreInv
  BY InitSerial DEF FullInv
<1>1. HeadOutside = NoHead /\ Line(NoHead) = <<>>
  BY DEF Init, HeadOutside, Line
<1>2. Newest(HeadOutside) = {}
  BY <1>1 DEF Newest
<1>3. HeldThere
  BY <1>2 DEF HeldThere, Held
<1>4. QED
  BY <1>3 DEF Init, StoreInv, PurgesQuiet, TrashRestorable, ObjectsOK, Purging, Handling

\* The newest History snapshots are always whole: no purge, whatever it races
\* with short of a push, collects an object they need (vault.rs, gc), even when
\* the server is killed while it writes HEAD.
THEOREM HistoryAlwaysReadable ==
    ASSUME Quiet
    PROVE  Spec => []HistoryReadable
<1>1. FullInv => HistoryReadable
  <2>. SUFFICES ASSUME FullInv, NEW n \in Newest(head)
       PROVE  HeldAt(head, n) \subseteq store
    BY DEF HistoryReadable, HeldAt
  <2>1. head # NoHead
    <3>1. ASSUME head = NoHead PROVE FALSE
      <4>1. Len(Line(head)) = 0
        BY <3>1 DEF Line
      <4>2. QED
        BY <4>1 DEF Newest
    <3>2. QED
      BY <3>1
  <2>2. HeadOutside = head
    BY <2>1 DEF FullInv, SerialTypeInv, SerialInv, HeadKnown, HeadOutside
  <2>3. QED
    BY <2>2 DEF FullInv, StoreInv, HeldThere, Held
<1>2. QED
  BY <1>1, InitFull, NextFull, PTL DEF Spec

\* What is in the trash can be restored until it is purged.
THEOREM TrashAlwaysRestores ==
    ASSUME Quiet
    PROVE  Spec => []TrashRestorable
<1>1. FullInv => TrashRestorable
  BY DEF FullInv, StoreInv
<1>2. QED
  BY <1>1, InitFull, NextFull, PTL DEF Spec

=============================================================================
