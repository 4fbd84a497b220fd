-------------------------- MODULE SyncDevicesProofs --------------------------
(***************************************************************************)
(* Theorems about SyncDevices, for every set of devices, paths and times   *)
(* and every bound.                                                        *)
(***************************************************************************)
EXTENDS SyncDevices, TLAPS

\* The decision table of merge_entry: when each decision is taken.
LEMMA MergeEntryTable ==
    ASSUME NEW b, NEW l, NEW r
    PROVE  /\ MergeEntry(b, l, r) \in Decisions
           /\ MergeEntry(b, l, r) \in {KeepBoth, TakeBoth} =>
                  l # NoNode /\ r # NoNode /\ l # r
           /\ MergeEntry(b, l, r) = Take => l = b \/ l = NoNode
           /\ MergeEntry(b, l, r) = Keep /\ l # r => l # b
<1>1. CASE l = r
  BY <1>1 DEF MergeEntry, Decisions, Keep, Take, KeepBoth, TakeBoth
<1>2. CASE l # r /\ b = l
  BY <1>2 DEF MergeEntry, Decisions, Keep, Take, KeepBoth, TakeBoth
<1>3. CASE l # r /\ b # l /\ b = r
  BY <1>3 DEF MergeEntry, Decisions, Keep, Take, KeepBoth, TakeBoth
<1>4. CASE l # r /\ b # l /\ b # r
  <2>1. MergeEntry(b, l, r) =
            IF r = NoNode THEN Keep
            ELSE IF l = NoNode THEN Take
            ELSE IF LocalWins(l, r) THEN KeepBoth ELSE TakeBoth
    BY <1>4 DEF MergeEntry
  <2>2. QED
    BY <1>4, <2>1 DEF Decisions, Keep, Take, KeepBoth, TakeBoth
<1>5. QED
  BY <1>1, <1>2, <1>3, <1>4

\* A merge that does not end with the server's version found a local change.
LEMMA MergedNodeDiffers ==
    ASSUME NEW b, NEW l, NEW r, MergedNode(b, l, r) # r
    PROVE  l # b
<1>1. MergeEntry(b, l, r) \in {Keep, KeepBoth} /\ l # r
  BY DEF MergedNode
<1>2. CASE MergeEntry(b, l, r) = Keep
  BY <1>1, <1>2, MergeEntryTable
<1>3. CASE MergeEntry(b, l, r) = KeepBoth
  BY <1>1, <1>3 DEF MergeEntry, Keep, Take, KeepBoth, TakeBoth
<1>4. QED
  BY <1>1, <1>2, <1>3

-----------------------------------------------------------------------------
LEMMA EmptyTreeIsATree == EmptyTree \in Tree
  BY DEF EmptyTree, Tree

LEMMA TreeAtIsATree ==
    ASSUME TypeOK, NEW i \in 0 .. Len(log)
    PROVE  TreeAt(i) \in Tree
  BY EmptyTreeIsATree DEF TypeOK, TreeAt

\* What merge_entry may do to a disk keeps it a disk.
LEMMA LoserSavedIsATree ==
    ASSUME TypeOK, NEW d \in Devices, NEW p \in Path,
           NEW t \in WithLoserSaved(d, p, Decide(d, p))
    PROVE  t \in Tree
<1>. DEFINE l == local[d][p]
            r == TreeAt(seen[d])[p]
<1>1. seen[d] \in 0 .. Len(log) /\ disk[d] \in Tree
  BY DEF TypeOK
<1>2. r \in Node \cup {NoNode} /\ disk[d][p] \in Node \cup {NoNode}
  BY <1>1, TreeAtIsATree DEF Tree
<1>3. ASSUME NEW n \in Node, t \in SaveCopy(disk[d], d, p, n.content)
      PROVE  t \in Tree
  <2>1. PICK s \in Times : t = [disk[d] EXCEPT ![ConflictPath(p, d, s)] =
                                      [content |-> n.content, mtime |-> s]]
    BY <1>3 DEF SaveCopy
  <2>2. [content |-> n.content, mtime |-> s] \in Node
    BY DEF Node
  <2>3. QED
    BY <1>1, <2>1, <2>2, PathAssumption DEF Tree
<1>4. CASE Decide(d, p) = KeepBoth
  <2>1. r \in Node
    BY <1>2, <1>4, MergeEntryTable DEF Decide
  <2>2. t \in SaveCopy(disk[d], d, p, r.content)
    BY <1>4 DEF WithLoserSaved, KeepBoth, TakeBoth
  <2>3. QED
    BY <2>1, <2>2, <1>3
<1>5. CASE Decide(d, p) = TakeBoth /\ disk[d][p] # NoNode
  <2>1. t \in SaveCopy(disk[d], d, p, disk[d][p].content)
    BY <1>5 DEF WithLoserSaved, KeepBoth, TakeBoth
  <2>2. QED
    BY <2>1, <1>2, <1>3, <1>5
<1>6. CASE ~(Decide(d, p) = KeepBoth) /\ ~(Decide(d, p) = TakeBoth /\ disk[d][p] # NoNode)
  BY <1>1, <1>6 DEF WithLoserSaved
<1>7. QED
  BY <1>4, <1>5, <1>6

-----------------------------------------------------------------------------
LEMMA FirstTreesAreTrees == FirstTrees \subseteq Tree
  BY NoNodeAssumption DEF FirstTrees, Tree, Node, Content

LEMMA CacheOfType ==
    ASSUME NEW files \in Tree, NEW tree \in Tree
    PROVE  CacheOf(files, tree) \in [Path -> [sig : Node, node : Node] \cup {NoEntry}]
<1>1. \A p \in Path : files[p] \in Node \cup {NoNode} /\ tree[p] \in Node \cup {NoNode}
  BY DEF Tree
<1>2. QED
  BY <1>1 DEF CacheOf

LEMMA InitTypeOK == Init => TypeOK
<1>. SUFFICES ASSUME Init PROVE TypeOK
  OBVIOUS
<1>1. PICK t \in FirstTrees :
        /\ log = IF t = EmptyTree THEN <<>> ELSE <<t>>
        /\ disk = [d \in Devices |-> t] /\ base = [d \in Devices |-> t]
        /\ cache = [d \in Devices |-> CacheOf(t, t)]
        /\ wanted = ContentOf(t)
  BY DEF Init
<1>2. t \in Tree
  BY FirstTreesAreTrees
<1>3. ContentOf(t) \subseteq Content
  BY <1>2 DEF ContentOf, Present, Tree, Node
<1>4. CacheOf(t, t) \in [Path -> [sig : Node, node : Node] \cup {NoEntry}]
  BY <1>2, CacheOfType
<1>5. log \in Seq(Tree) /\ Len(log) \in Nat
  BY <1>1, <1>2
<1>6. QED
  BY <1>1, <1>2, <1>3, <1>4, <1>5, EmptyTreeIsATree, BoundsAssumption DEF Init, TypeOK

\* Going back to rest keeps the transient variables typed.
LEMMA RestType ==
    ASSUME TypeOK, NEW d \in Devices, Rest(d)
    PROVE  /\ pc' \in [Devices -> {"idle", "retry", "scanned", "merging", "caching", "finishing"}]
           /\ attempt' \in [Devices -> 0 .. MaxAttempts]
           /\ seen' \in [Devices -> Nat]
           /\ \A e \in Devices : seen'[e] <= Len(log)
           /\ local' \in [Devices -> Tree]
           /\ todo' \in [Devices -> SUBSET Path]
           /\ merged' \in [Devices -> Tree]
  BY EmptyTreeIsATree, BoundsAssumption DEF Rest, TypeOK

\* Appending a commit keeps the log typed and every head that was read valid.
LEMMA AppendType ==
    ASSUME TypeOK, NEW d \in Devices, log' = Append(log, merged[d])
    PROVE  log' \in Seq(Tree) /\ Len(log') = Len(log) + 1
  BY DEF TypeOK

LEMMA UserTouchesType ==
    ASSUME TypeOK, NEW d \in Devices, NEW p \in Path, NEW new \in SUBSET Content,
           UserMayAct(d), UserTouches(d, p, new), disk' \in [Devices -> Tree]
    PROVE  TypeOK'
<1>1. edits' \in 0 .. MaxEdits
  BY BoundsAssumption DEF UserMayAct, UserTouches, TypeOK
<1>2. QED
  BY <1>1 DEF UserTouches, TypeOK, transient

LEMMA FaultType ==
    ASSUME TypeOK, Fault
    PROVE  faults' \in 0 .. MaxFaults
  BY BoundsAssumption DEF Fault, TypeOK

\* TypeOK is preserved by every step.
LEMMA NextTypeOK == TypeOK /\ AttemptsCounted /\ [Next]_vars => TypeOK'
<1>. SUFFICES ASSUME TypeOK, AttemptsCounted, [Next]_vars PROVE TypeOK'
  OBVIOUS
<1>1. ASSUME NEW d \in Devices, Edit(d) PROVE TypeOK'
  <2>1. PICK p \in Names, t \in Times :
          /\ UserMayAct(d)
          /\ disk' = [disk EXCEPT ![d][p] = [content |-> edits + 1, mtime |-> t]]
          /\ UserTouches(d, p, {edits + 1})
    BY <1>1 DEF Edit
  <2>2. edits + 1 \in Content /\ p \in Path
    BY <2>1, PathAssumption, BoundsAssumption DEF UserMayAct, TypeOK, Content
  <2>3. [content |-> edits + 1, mtime |-> t] \in Node
    BY <2>2 DEF Node
  <2>4. disk' \in [Devices -> Tree]
    BY <2>1, <2>2, <2>3 DEF TypeOK, Tree
  <2>5. QED
    BY <2>1, <2>2, <2>4, UserTouchesType
<1>2. ASSUME NEW d \in Devices, Delete(d) PROVE TypeOK'
  <2>1. PICK p \in Path :
          /\ UserMayAct(d)
          /\ disk' = [disk EXCEPT ![d][p] = NoNode]
          /\ UserTouches(d, p, {})
    BY <1>2 DEF Delete
  <2>2. disk' \in [Devices -> Tree]
    BY <2>1 DEF TypeOK, Tree
  <2>3. QED
    BY <2>1, <2>2, UserTouchesType
<1>3. ASSUME NEW d \in Devices, Scan(d) PROVE TypeOK'
  <2>1. [p \in Path |-> ScanPath(d, p)] \in Tree
    BY DEF ScanPath, TypeOK, Tree
  <2>2. attempt[d] + 1 \in 0 .. MaxAttempts
    BY <1>3, BoundsAssumption DEF Scan, TypeOK, AttemptsCounted
  <2>3. QED
    BY <1>3, <2>1, <2>2 DEF Scan, TypeOK, aux
<1>4. ASSUME NEW d \in Devices, FetchHead(d) PROVE TypeOK'
  <2>1. Present(base[d]) \cup Present(local[d]) \cup Present(HeadTree) \in SUBSET Path
    BY DEF Present
  <2>2. QED
    BY <1>4, <2>1, EmptyTreeIsATree DEF FetchHead, TypeOK, aux
<1>5. ASSUME NEW d \in Devices, MergePath(d) PROVE TypeOK'
  <2>0. PICK p \in todo[d] : \E t \in WithLoserSaved(d, p, Decide(d, p)) :
          /\ disk' = [disk EXCEPT ![d] = IF Takes(Decide(d, p))
                        THEN [t EXCEPT ![p] = Materialised(TreeAt(seen[d])[p])] ELSE t]
          /\ merged' = [merged EXCEPT ![d][p] = IF Takes(Decide(d, p))
                        THEN TreeAt(seen[d])[p] ELSE local[d][p]]
          /\ todo' = [todo EXCEPT ![d] = @ \ {p}]
          /\ UNCHANGED <<log, cache, base, pc, attempt, seen, local, aux>>
    BY <1>5 DEF MergePath
  <2>1. PICK t \in WithLoserSaved(d, p, Decide(d, p)) :
          /\ disk' = [disk EXCEPT ![d] = IF Takes(Decide(d, p))
                        THEN [t EXCEPT ![p] = Materialised(TreeAt(seen[d])[p])] ELSE t]
          /\ merged' = [merged EXCEPT ![d][p] = IF Takes(Decide(d, p))
                        THEN TreeAt(seen[d])[p] ELSE local[d][p]]
          /\ todo' = [todo EXCEPT ![d] = @ \ {p}]
          /\ UNCHANGED <<log, cache, base, pc, attempt, seen, local, aux>>
    BY <2>0
  <2>2. p \in Path /\ seen[d] \in 0 .. Len(log)
    BY DEF TypeOK
  <2>3. t \in Tree /\ TreeAt(seen[d])[p] \in Node \cup {NoNode}
    BY <2>2, TreeAtIsATree, LoserSavedIsATree DEF Tree
  <2>4. disk' \in [Devices -> Tree]
    BY <2>1, <2>2, <2>3 DEF TypeOK, Tree, Materialised
  <2>5. merged' \in [Devices -> Tree]
    BY <2>1, <2>2, <2>3 DEF TypeOK, Tree
  <2>6. QED
    BY <2>1, <2>2, <2>4, <2>5 DEF TypeOK, aux
<1>6. ASSUME NEW d \in Devices, Settle(d) PROVE TypeOK'
  BY <1>6 DEF Settle, TypeOK, aux
<1>7. ASSUME NEW d \in Devices, CommitAccepted(d) PROVE TypeOK'
  BY <1>7, AppendType DEF CommitAccepted, TypeOK, aux
<1>8. ASSUME NEW d \in Devices, CommitConflict(d) PROVE TypeOK'
  <2>1. CASE MayRetry(d)
    <3>1. /\ pc' = [pc EXCEPT ![d] = "retry"]
          /\ local' = [local EXCEPT ![d] = EmptyTree]
          /\ merged' = [merged EXCEPT ![d] = EmptyTree]
          /\ seen' = [seen EXCEPT ![d] = 0]
          /\ UNCHANGED <<log, disk, cache, base, attempt, todo, aux>>
      BY <1>8, <2>1 DEF CommitConflict
    <3>2. local' \in [Devices -> Tree] /\ merged' \in [Devices -> Tree]
      BY <3>1, EmptyTreeIsATree DEF TypeOK
    <3>3. seen' \in [Devices -> Nat] /\ \A e \in Devices : seen'[e] <= Len(log)
      BY <3>1 DEF TypeOK
    <3>4. QED
      BY <3>1, <3>2, <3>3 DEF TypeOK, aux
  <2>2. CASE ~MayRetry(d)
    BY <1>8, <2>2, RestType DEF CommitConflict, TypeOK, aux
  <2>3. QED
    BY <2>1, <2>2
<1>9. ASSUME NEW d \in Devices, RebuildCache(d) PROVE TypeOK'
  <2>1. disk[d] \in Tree /\ AgreedTree(d) \in Tree
    BY DEF TypeOK, AgreedTree
  <2>2. CacheOf(disk[d], AgreedTree(d)) \in [Path -> [sig : Node, node : Node] \cup {NoEntry}]
    BY <2>1, CacheOfType
  <2>3. QED
    BY <1>9, <2>2 DEF RebuildCache, TypeOK, aux
<1>10. ASSUME NEW d \in Devices, SetLastRoot(d) PROVE TypeOK'
  BY <1>10, RestType DEF SetLastRoot, AgreedTree, TypeOK
<1>11. ASSUME NEW d \in Devices, Abort(d) PROVE TypeOK'
  BY <1>11, RestType, FaultType DEF Abort, TypeOK
<1>12. ASSUME NEW d \in Devices, AbortInMerge(d) PROVE TypeOK'
  <2>0. PICK p \in todo[d] : \E t \in WithLoserSaved(d, p, Decide(d, p)) :
          \/ disk' = [disk EXCEPT ![d] = t]
          \/ \E s \in Times : disk' =
                [disk EXCEPT ![d] = [t EXCEPT ![p] = [content |-> Torn, mtime |-> s]]]
    BY <1>12 DEF AbortInMerge
  <2>1. PICK t \in WithLoserSaved(d, p, Decide(d, p)) :
          \/ disk' = [disk EXCEPT ![d] = t]
          \/ \E s \in Times : disk' =
                [disk EXCEPT ![d] = [t EXCEPT ![p] = [content |-> Torn, mtime |-> s]]]
    BY <2>0
  <2>2. p \in Path /\ t \in Tree
    BY LoserSavedIsATree DEF TypeOK
  <2>3. \A s \in Times : [content |-> Torn, mtime |-> s] \in Node
    BY DEF Node, Content
  <2>4. disk' \in [Devices -> Tree]
    <3>1. CASE disk' = [disk EXCEPT ![d] = t]
      BY <2>2, <3>1 DEF TypeOK
    <3>2. ASSUME NEW s \in Times,
                 disk' = [disk EXCEPT ![d] = [t EXCEPT ![p] = [content |-> Torn, mtime |-> s]]]
          PROVE  disk' \in [Devices -> Tree]
      <4>1. [t EXCEPT ![p] = [content |-> Torn, mtime |-> s]] \in Tree
        BY <2>2, <2>3 DEF Tree
      <4>2. QED
        BY <3>2, <4>1 DEF TypeOK
    <3>3. QED
      BY <2>1, <3>1, <3>2
  <2>5. QED
    BY <1>12, <2>4, RestType, FaultType DEF AbortInMerge, TypeOK
<1>13. ASSUME NEW d \in Devices, CommitUnanswered(d) PROVE TypeOK'
  BY <1>13, RestType, FaultType, AppendType DEF CommitUnanswered, TypeOK
<1>14. CASE UNCHANGED vars
  BY <1>14 DEF vars, transient, aux, TypeOK
<1>15. QED
  BY <1>1, <1>2, <1>3, <1>4, <1>5, <1>6, <1>7, <1>8, <1>9, <1>10, <1>11, <1>12,
     <1>13, <1>14 DEF Next, SyncStep

-----------------------------------------------------------------------------
(***************************************************************************)
(* The other parts of the inductive invariant.  What the steps leave alone *)
(* is settled once: an action of one device changes nothing of another.    *)
(***************************************************************************)
LEMMA InitIInv == Init => IInv
<1>. SUFFICES ASSUME Init PROVE IInv
  OBVIOUS
<1>1. PICK t \in FirstTrees :
        /\ log = IF t = EmptyTree THEN <<>> ELSE <<t>>
        /\ base = [d \in Devices |-> t]
        /\ cache = [d \in Devices |-> CacheOf(t, t)]
  BY DEF Init
<1>2. /\ \A d \in Devices : pc[d] = "idle" /\ attempt[d] = 0
  BY DEF Init
<1>3. BaseWasCommitted
  <2>1. CASE t = EmptyTree
    BY <1>1, <2>1 DEF BaseWasCommitted, TreeAt
  <2>2. CASE t # EmptyTree
    <3>1. Len(log) = 1 /\ TreeAt(1) = t
      BY <1>1, <2>2 DEF TreeAt
    <3>2. QED
      BY <1>1, <3>1 DEF BaseWasCommitted
  <2>3. QED
    BY <2>1, <2>2
<1>4. CacheExact
  BY <1>1, NoEntryAssumption DEF CacheExact, CacheOf
<1>5. QED
  BY <1>2, <1>3, <1>4, InitTypeOK DEF IInv, AttemptsCounted, AgreedWasCommitted,
     MergedSoFar, ScannedOnDisk, MergedOnDisk

\* Only the two commits change the log.
LEMMA LogGrows ==
    ASSUME TypeOK, [Next]_vars
    PROVE  log' = log \/ \E d \in Devices : log' = Append(log, merged[d])
  BY DEF Next, SyncStep, vars, transient, aux, Edit, Delete, UserTouches, Scan, FetchHead,
     MergePath, Settle, CommitAccepted, CommitConflict, RebuildCache, SetLastRoot,
     Abort, AbortInMerge, CommitUnanswered

\* A commit leaves every earlier tree of the log where it was.
LEMMA LogPrefix ==
    ASSUME TypeOK, [Next]_vars
    PROVE  /\ Len(log') \in Nat /\ Len(log) <= Len(log')
           /\ \A i \in 0 .. Len(log) : TreeAt(i)' = TreeAt(i)
<1>1. CASE log' = log
  BY <1>1 DEF TypeOK, TreeAt
<1>2. CASE \E d \in Devices : log' = Append(log, merged[d])
  <2>1. PICK d \in Devices : log' = Append(log, merged[d])
    BY <1>2
  <2>2. Len(log') = Len(log) + 1 /\ \A i \in 1 .. Len(log) : log'[i] = log[i]
    BY <2>1 DEF TypeOK
  <2>3. QED
    BY <2>2 DEF TreeAt, TypeOK
<1>3. QED
  BY <1>1, <1>2, LogGrows

LEMMA NextAttempts == TypeOK /\ AttemptsCounted /\ [Next]_vars => AttemptsCounted'
<1>. SUFFICES ASSUME TypeOK, AttemptsCounted, [Next]_vars PROVE AttemptsCounted'
  OBVIOUS
<1>1. ASSUME NEW d \in Devices, Rest(d) PROVE AttemptsCounted'
  BY <1>1 DEF Rest, TypeOK, AttemptsCounted
<1>2. ASSUME NEW d \in Devices, UNCHANGED <<pc, attempt>> PROVE AttemptsCounted'
  BY <1>2 DEF AttemptsCounted
<1>3. ASSUME NEW d \in Devices, Edit(d) \/ Delete(d) PROVE AttemptsCounted'
  BY <1>3 DEF Edit, Delete, UserTouches, transient, AttemptsCounted
<1>4. ASSUME NEW d \in Devices, SyncStep(d) PROVE AttemptsCounted'
  <2>1. CASE Scan(d)
    BY <2>1 DEF Scan, TypeOK, AttemptsCounted
  <2>2. CASE FetchHead(d) \/ Settle(d) \/ CommitAccepted(d) \/ RebuildCache(d)
    BY <2>2 DEF FetchHead, Settle, CommitAccepted, RebuildCache, TypeOK, AttemptsCounted
  <2>3. CASE MergePath(d)
    BY <2>3, <1>2 DEF MergePath
  <2>4. CASE CommitConflict(d)
    <3>1. CASE MayRetry(d)
      BY <2>4, <3>1 DEF CommitConflict, MayRetry, TypeOK, AttemptsCounted
    <3>2. CASE ~MayRetry(d)
      BY <2>4, <3>2, <1>1 DEF CommitConflict
    <3>3. QED
      BY <3>1, <3>2
  <2>5. CASE SetLastRoot(d)
    BY <2>5, <1>1 DEF SetLastRoot
  <2>6. QED
    BY <1>4, <2>1, <2>2, <2>3, <2>4, <2>5 DEF SyncStep
<1>5. ASSUME NEW d \in Devices, Abort(d) \/ AbortInMerge(d) \/ CommitUnanswered(d)
      PROVE  AttemptsCounted'
  BY <1>5, <1>1 DEF Abort, AbortInMerge, CommitUnanswered
<1>6. CASE UNCHANGED vars
  BY <1>6 DEF vars, transient, AttemptsCounted
<1>7. QED
  BY <1>3, <1>4, <1>5, <1>6 DEF Next

\* What is recorded as agreed, and then as base, is a tree of the log.
LEMMA NextCommitted ==
    TypeOK /\ BaseWasCommitted /\ AgreedWasCommitted /\ [Next]_vars
        => BaseWasCommitted' /\ AgreedWasCommitted'
<1>. SUFFICES ASSUME TypeOK, BaseWasCommitted, AgreedWasCommitted, [Next]_vars
     PROVE  BaseWasCommitted' /\ AgreedWasCommitted'
  OBVIOUS
<1>. DEFINE Logged(t) == \E i \in 0 .. Len(log) : t = TreeAt(i)
            LoggedNext(t) == \E i \in 0 .. Len(log') : t = TreeAt(i)'
<1>1. \A t : Logged(t) => LoggedNext(t)
  BY LogPrefix DEF TypeOK
<1>2. \A d \in Devices : LoggedNext(base[d])
  BY <1>1 DEF BaseWasCommitted
<1>3. \A d \in Devices : pc[d] \in {"caching", "finishing"} => LoggedNext(merged[d])
  BY <1>1 DEF AgreedWasCommitted
<1>. HIDE DEF Logged, LoggedNext
<1>4. ASSUME \A d \in Devices : LoggedNext(base'[d]),
             \A d \in Devices : pc'[d] \in {"caching", "finishing"} => LoggedNext(merged'[d])
      PROVE  BaseWasCommitted' /\ AgreedWasCommitted'
  BY <1>4 DEF BaseWasCommitted, AgreedWasCommitted, LoggedNext
<1>5. ASSUME NEW d \in Devices, Rest(d), UNCHANGED base
      PROVE  BaseWasCommitted' /\ AgreedWasCommitted'
  BY <1>2, <1>3, <1>4, <1>5 DEF Rest, TypeOK
<1>6. ASSUME UNCHANGED <<base, pc, merged>>
      PROVE  BaseWasCommitted' /\ AgreedWasCommitted'
  BY <1>2, <1>3, <1>4, <1>6
<1>7. ASSUME NEW d \in Devices, Edit(d) \/ Delete(d)
      PROVE  BaseWasCommitted' /\ AgreedWasCommitted'
  BY <1>7, <1>6 DEF Edit, Delete, UserTouches, transient
<1>8. ASSUME NEW d \in Devices, SyncStep(d)
      PROVE  BaseWasCommitted' /\ AgreedWasCommitted'
  <2>1. CASE Scan(d) \/ FetchHead(d)
    BY <2>1, <1>2, <1>3, <1>4 DEF Scan, FetchHead, TypeOK
  <2>2. CASE MergePath(d)
    <3>1. pc[d] = "merging" /\ UNCHANGED <<base, pc>>
          /\ \A e \in Devices \ {d} : merged'[e] = merged[e]
      BY <2>2 DEF MergePath, TypeOK
    <3>2. QED
      BY <3>1, <1>2, <1>3, <1>4
  <2>3. CASE Settle(d)
    <3>1. LoggedNext(merged[d])
      <4>1. Logged(merged[d])
        BY <2>3 DEF Settle, Logged, TypeOK
      <4>2. QED
        BY <4>1, <1>1
    <3>2. QED
      BY <2>3, <3>1, <1>2, <1>3, <1>4 DEF Settle, TypeOK
  <2>4. CASE CommitAccepted(d)
    <3>1. LoggedNext(merged[d])
      <4>1. log' = Append(log, merged[d])
        BY <2>4 DEF CommitAccepted
      <4>2. Len(log') \in 0 .. Len(log') /\ merged[d] = TreeAt(Len(log))'
        BY <4>1 DEF TreeAt, TypeOK
      <4>3. QED
        BY <4>2 DEF LoggedNext
    <3>2. QED
      BY <2>4, <3>1, <1>2, <1>3, <1>4 DEF CommitAccepted, TypeOK
  <2>5. CASE CommitConflict(d)
    <3>1. CASE MayRetry(d)
      BY <2>5, <3>1, <1>2, <1>3, <1>4 DEF CommitConflict, TypeOK
    <3>2. CASE ~MayRetry(d)
      BY <2>5, <3>2, <1>5 DEF CommitConflict
    <3>3. QED
      BY <3>1, <3>2
  <2>6. CASE RebuildCache(d)
    BY <2>6, <1>2, <1>3, <1>4 DEF RebuildCache, TypeOK
  <2>7. CASE SetLastRoot(d)
    <3>1. base' = [base EXCEPT ![d] = merged[d]] /\ LoggedNext(merged[d])
      BY <2>7, <1>3 DEF SetLastRoot, AgreedTree
    <3>2. QED
      BY <2>7, <3>1, <1>2, <1>3, <1>4 DEF SetLastRoot, Rest, TypeOK
  <2>8. QED
    BY <1>8, <2>1, <2>2, <2>3, <2>4, <2>5, <2>6, <2>7 DEF SyncStep
<1>9. ASSUME NEW d \in Devices, Abort(d) \/ AbortInMerge(d) \/ CommitUnanswered(d)
      PROVE  BaseWasCommitted' /\ AgreedWasCommitted'
  BY <1>9, <1>5 DEF Abort, AbortInMerge, CommitUnanswered
<1>10. CASE UNCHANGED vars
  BY <1>10, <1>6 DEF vars, transient
<1>11. QED
  BY <1>7, <1>8, <1>9, <1>10 DEF Next

-----------------------------------------------------------------------------
\* The merge has decided every path outside todo as the table says.
LEMMA NextMerged == TypeOK /\ MergedSoFar /\ [Next]_vars => MergedSoFar'
<1>. SUFFICES ASSUME TypeOK, MergedSoFar, [Next]_vars,
                     NEW e \in Devices, pc'[e] = "merging", NEW q \in Path \ todo'[e]
     PROVE  merged'[e][q] = MergedNode(base'[e][q], local'[e][q], TreeAt(seen[e])'[q])
  BY DEF MergedSoFar
<1>1. ASSUME pc[e] = "merging", q \notin todo[e], merged'[e][q] = merged[e][q],
             base'[e] = base[e], local'[e] = local[e], seen'[e] = seen[e]
      PROVE  merged'[e][q] = MergedNode(base'[e][q], local'[e][q], TreeAt(seen[e])'[q])
  <2>1. TreeAt(seen[e])' = TreeAt(seen[e])
    BY <1>1, LogPrefix DEF TypeOK, TreeAt
  <2>2. merged[e][q] = MergedNode(base[e][q], local[e][q], TreeAt(seen[e])[q])
    BY <1>1 DEF MergedSoFar
  <2>3. QED
    BY <1>1, <2>1, <2>2
<1>2. ASSUME NEW d \in Devices, Rest(d), UNCHANGED base
      PROVE  merged'[e][q] = MergedNode(base'[e][q], local'[e][q], TreeAt(seen[e])'[q])
  BY <1>1, <1>2 DEF Rest, TypeOK
<1>3. ASSUME UNCHANGED <<base, transient>>
      PROVE  merged'[e][q] = MergedNode(base'[e][q], local'[e][q], TreeAt(seen[e])'[q])
  BY <1>1, <1>3 DEF transient
<1>4. ASSUME NEW d \in Devices, Edit(d) \/ Delete(d)
      PROVE  merged'[e][q] = MergedNode(base'[e][q], local'[e][q], TreeAt(seen[e])'[q])
  BY <1>4, <1>3 DEF Edit, Delete, UserTouches
<1>5. ASSUME NEW d \in Devices, SyncStep(d)
      PROVE  merged'[e][q] = MergedNode(base'[e][q], local'[e][q], TreeAt(seen[e])'[q])
  <2>1. CASE Scan(d)
    BY <2>1, <1>1 DEF Scan, TypeOK
  <2>2. CASE FetchHead(d)
    <3>1. CASE e = d
      <4>1. /\ merged'[d] = EmptyTree /\ seen'[d] = Len(log) /\ log' = log
            /\ todo'[d] = Present(base[d]) \cup Present(local[d]) \cup Present(HeadTree)
            /\ UNCHANGED <<base, local>>
        BY <2>2 DEF FetchHead, TypeOK
      <4>2. base[d][q] = NoNode /\ local[d][q] = NoNode /\ HeadTree[q] = NoNode
        BY <3>1, <4>1 DEF Present
      <4>3. TreeAt(seen[d])' = HeadTree
        BY <4>1 DEF TreeAt, HeadTree
      <4>4. merged'[d][q] = NoNode
        BY <4>1 DEF EmptyTree
      <4>5. QED
        BY <3>1, <4>1, <4>2, <4>3, <4>4 DEF MergedNode
    <3>2. CASE e # d
      BY <2>2, <3>2, <1>1 DEF FetchHead, TypeOK
    <3>3. QED
      BY <3>1, <3>2
  <2>3. CASE MergePath(d)
    <3>1. PICK p \in todo[d] :
            /\ pc[d] = "merging"
            /\ merged' = [merged EXCEPT ![d][p] = IF Takes(Decide(d, p))
                                THEN TreeAt(seen[d])[p] ELSE local[d][p]]
            /\ todo' = [todo EXCEPT ![d] = @ \ {p}]
            /\ UNCHANGED <<log, base, pc, seen, local>>
      BY <2>3 DEF MergePath
    <3>2. CASE e = d /\ q = p
      <4>1. merged'[d][p] = IF Takes(Decide(d, p)) THEN TreeAt(seen[d])[p] ELSE local[d][p]
        BY <3>1, <3>2 DEF TypeOK, Tree
      <4>2. TreeAt(seen[d])' = TreeAt(seen[d])
        BY <3>1 DEF TreeAt
      <4>3. Decide(d, p) \in Decisions
        BY MergeEntryTable DEF Decide
      <4>4. QED
        BY <3>1, <3>2, <4>1, <4>2, <4>3
           DEF MergedNode, Decide, Takes, Decisions, Keep, Take, KeepBoth, TakeBoth
    <3>3. CASE ~(e = d /\ q = p)
      BY <3>1, <3>3, <1>1 DEF TypeOK, Tree
    <3>4. QED
      BY <3>2, <3>3
  <2>4. CASE Settle(d) \/ CommitAccepted(d) \/ RebuildCache(d)
    BY <2>4, <1>1 DEF Settle, CommitAccepted, RebuildCache, TypeOK
  <2>5. CASE CommitConflict(d)
    <3>1. CASE MayRetry(d)
      BY <2>5, <3>1, <1>1 DEF CommitConflict, TypeOK
    <3>2. CASE ~MayRetry(d)
      BY <2>5, <3>2, <1>2 DEF CommitConflict
    <3>3. QED
      BY <3>1, <3>2
  <2>6. CASE SetLastRoot(d)
    BY <2>6, <1>1 DEF SetLastRoot, Rest, TypeOK
  <2>7. QED
    BY <1>5, <2>1, <2>2, <2>3, <2>4, <2>5, <2>6 DEF SyncStep
<1>6. ASSUME NEW d \in Devices, Abort(d) \/ AbortInMerge(d) \/ CommitUnanswered(d)
      PROVE  merged'[e][q] = MergedNode(base'[e][q], local'[e][q], TreeAt(seen[e])'[q])
  BY <1>6, <1>2 DEF Abort, AbortInMerge, CommitUnanswered
<1>7. CASE UNCHANGED vars
  BY <1>7, <1>3 DEF vars
<1>8. QED
  BY <1>4, <1>5, <1>6, <1>7 DEF Next

-----------------------------------------------------------------------------
(***************************************************************************)
(* The disk while no user interferes with a sync.                          *)
(***************************************************************************)
\* Saving a loser writes one file, at a path that held none.
LEMMA LoserSavedElsewhere ==
    ASSUME TypeOK, NEW d \in Devices, NEW p \in Path,
           NEW t \in WithLoserSaved(d, p, Decide(d, p)), NEW q \in Path,
           disk[d][q] # NoNode
    PROVE  t[q] = disk[d][q]
<1>1. disk[d] \in Tree
  BY DEF TypeOK
<1>2. ASSUME NEW c, t \in SaveCopy(disk[d], d, p, c)
      PROVE  t[q] = disk[d][q]
  <2>1. PICK s \in Times : /\ Unused(ConflictPath(p, d, s))
                           /\ t = [disk[d] EXCEPT ![ConflictPath(p, d, s)] =
                                      [content |-> c, mtime |-> s]]
    BY <1>2 DEF SaveCopy
  <2>2. disk[d][ConflictPath(p, d, s)] = NoNode
    BY <2>1 DEF Unused
  <2>3. QED
    BY <1>1, <2>1, <2>2 DEF Tree
<1>3. CASE Decide(d, p) = KeepBoth
  BY <1>2, <1>3 DEF WithLoserSaved, KeepBoth, TakeBoth
<1>4. CASE Decide(d, p) = TakeBoth /\ disk[d][p] # NoNode
  BY <1>2, <1>4 DEF WithLoserSaved, KeepBoth, TakeBoth
<1>5. CASE ~(Decide(d, p) = KeepBoth) /\ ~(Decide(d, p) = TakeBoth /\ disk[d][p] # NoNode)
  BY <1>5 DEF WithLoserSaved
<1>6. QED
  BY <1>3, <1>4, <1>5

\* With an exact cache the scan returns what chunking every file would.
LEMMA ScanIsHonest ==
    ASSUME TypeOK, CacheExact, QuietSyncs, NEW d \in Devices, NEW p \in Path
    PROVE  ScanPath(d, p) = disk[d][p]
  BY DEF CacheExact, ScanPath

DiskInv == ScannedOnDisk /\ MergedOnDisk /\ CacheExact

LEMMA NextDisk == TypeOK /\ DiskInv /\ [Next]_vars => DiskInv'
<1>. SUFFICES ASSUME TypeOK, DiskInv, QuietSyncs, [Next]_vars,
                     NEW e \in Devices, NEW q \in Path
     PROVE  /\ /\ pc'[e] = "scanned" \/ (pc'[e] = "merging" /\ q \in todo'[e])
               /\ local'[e][q] # NoNode
               => disk'[e][q] = local'[e][q]
            /\ /\ pc'[e] \in {"merging", "caching", "finishing"}
               /\ merged'[e][q] # NoNode
               => disk'[e][q] = merged'[e][q]
            /\ cache'[e][q] # NoEntry => cache'[e][q].sig = cache'[e][q].node
  BY DEF DiskInv, ScannedOnDisk, MergedOnDisk, CacheExact
<1>. DEFINE Goal ==
       /\ /\ pc'[e] = "scanned" \/ (pc'[e] = "merging" /\ q \in todo'[e])
          /\ local'[e][q] # NoNode
          => disk'[e][q] = local'[e][q]
       /\ /\ pc'[e] \in {"merging", "caching", "finishing"}
          /\ merged'[e][q] # NoNode
          => disk'[e][q] = merged'[e][q]
       /\ cache'[e][q] # NoEntry => cache'[e][q].sig = cache'[e][q].node
<1>1. ASSUME UNCHANGED <<cache, transient>>, disk'[e] = disk[e]
      PROVE  Goal
  BY <1>1 DEF transient, DiskInv, ScannedOnDisk, MergedOnDisk, CacheExact
<1>2. ASSUME pc[e] = "idle", UNCHANGED <<cache, transient>>
      PROVE  Goal
  BY <1>2 DEF transient, DiskInv, CacheExact
<1>3. ASSUME NEW d \in Devices, Rest(d), UNCHANGED cache, \A x \in Devices \ {d} : disk'[x] = disk[x]
      PROVE  Goal
  BY <1>3 DEF Rest, TypeOK, DiskInv, ScannedOnDisk, MergedOnDisk, CacheExact
<1>4. ASSUME NEW d \in Devices, Edit(d) \/ Delete(d)
      PROVE  Goal
  <2>1. pc[d] = "idle" /\ UNCHANGED <<cache, transient>>
        /\ \A x \in Devices \ {d} : disk'[x] = disk[x]
    BY <1>4 DEF Edit, Delete, UserMayAct, UserTouches, TypeOK
  <2>2. QED
    BY <2>1, <1>1, <1>2
<1>5. ASSUME NEW d \in Devices, SyncStep(d)
      PROVE  Goal
  <2>1. CASE Scan(d)
    <3>1. disk[d][q] = ScanPath(d, q)
      BY ScanIsHonest DEF DiskInv
    <3>2. QED
      BY <2>1, <3>1 DEF Scan, TypeOK, DiskInv, ScannedOnDisk, MergedOnDisk, CacheExact
  <2>2. CASE FetchHead(d)
    <3>1. merged'[d][q] = NoNode
      BY <2>2 DEF FetchHead, TypeOK, EmptyTree
    <3>2. QED
      BY <2>2, <3>1 DEF FetchHead, TypeOK, DiskInv, ScannedOnDisk, MergedOnDisk, CacheExact
  <2>3. CASE MergePath(d)
    <3>1. PICK p \in todo[d] : \E t \in WithLoserSaved(d, p, Decide(d, p)) :
            /\ disk' = [disk EXCEPT ![d] = IF Takes(Decide(d, p))
                          THEN [t EXCEPT ![p] = Materialised(TreeAt(seen[d])[p])] ELSE t]
            /\ merged' = [merged EXCEPT ![d][p] = IF Takes(Decide(d, p))
                          THEN TreeAt(seen[d])[p] ELSE local[d][p]]
            /\ todo' = [todo EXCEPT ![d] = @ \ {p}]
            /\ pc[d] = "merging"
            /\ UNCHANGED <<log, cache, base, pc, attempt, seen, local, aux>>
      BY <2>3 DEF MergePath
    <3>2. PICK t \in WithLoserSaved(d, p, Decide(d, p)) :
            disk' = [disk EXCEPT ![d] = IF Takes(Decide(d, p))
                          THEN [t EXCEPT ![p] = Materialised(TreeAt(seen[d])[p])] ELSE t]
      BY <3>1
    <3>3. p \in Path /\ t \in Tree
      BY LoserSavedIsATree DEF TypeOK
    <3>4. CASE e # d
      BY <3>1, <3>2, <3>4 DEF TypeOK, DiskInv, ScannedOnDisk, MergedOnDisk, CacheExact
    <3>5. CASE e = d /\ q = p /\ Takes(Decide(d, p))
      <4>1. disk'[d][p] = TreeAt(seen[d])[p] /\ merged'[d][p] = TreeAt(seen[d])[p]
        BY <3>1, <3>2, <3>3, <3>5 DEF TypeOK, Tree, Materialised
      <4>2. p \notin todo'[d] /\ cache'[d][p] = cache[d][p]
        BY <3>1 DEF TypeOK
      <4>3. QED
        BY <3>1, <3>5, <4>1, <4>2 DEF DiskInv, CacheExact
    <3>6. CASE e = d /\ q = p /\ ~Takes(Decide(d, p))
      <4>1. disk'[d][p] = t[p] /\ merged'[d][p] = local[d][p]
        BY <3>1, <3>2, <3>3, <3>6 DEF TypeOK, Tree
      <4>2. local[d][p] # NoNode => t[p] = local[d][p]
        BY <3>1, <3>3, LoserSavedElsewhere DEF DiskInv, ScannedOnDisk
      <4>3. p \notin todo'[d] /\ cache'[d][p] = cache[d][p]
        BY <3>1 DEF TypeOK
      <4>4. QED
        BY <3>1, <3>6, <4>1, <4>2, <4>3 DEF DiskInv, CacheExact
    <3>7. CASE e = d /\ q # p
      <4>1. disk'[d][q] = t[q] /\ merged'[d][q] = merged[d][q]
        BY <3>1, <3>2, <3>3, <3>7 DEF TypeOK, Tree
      <4>2. disk[d][q] # NoNode => disk'[d][q] = disk[d][q]
        BY <4>1, <3>3, LoserSavedElsewhere
      <4>3. todo'[d] = todo[d] \ {p}
        BY <3>1 DEF TypeOK
      <4>4. QED
        BY <3>1, <3>7, <4>1, <4>2, <4>3 DEF DiskInv, ScannedOnDisk, MergedOnDisk, CacheExact
    <3>8. QED
      BY <3>4, <3>5, <3>6, <3>7
  <2>4. CASE Settle(d) \/ CommitAccepted(d)
    <3>1. /\ pc[d] = "merging" /\ pc' = [pc EXCEPT ![d] = "caching"]
          /\ UNCHANGED <<disk, cache, local, todo, merged>>
      BY <2>4 DEF Settle, CommitAccepted
    <3>2. CASE e = d
      <4>1. pc'[e] = "caching"
        BY <3>1, <3>2 DEF TypeOK
      <4>2. QED
        BY <3>1, <3>2, <4>1 DEF DiskInv, MergedOnDisk, CacheExact
    <3>3. CASE e # d
      <4>1. pc'[e] = pc[e]
        BY <3>1, <3>3 DEF TypeOK
      <4>2. QED
        BY <3>1, <4>1 DEF DiskInv, ScannedOnDisk, MergedOnDisk, CacheExact
    <3>4. QED
      BY <3>2, <3>3
  <2>5. CASE CommitConflict(d)
    <3>1. CASE MayRetry(d)
      <4>1. /\ pc' = [pc EXCEPT ![d] = "retry"]
            /\ local' = [local EXCEPT ![d] = EmptyTree]
            /\ merged' = [merged EXCEPT ![d] = EmptyTree]
            /\ UNCHANGED <<disk, cache, todo>>
        BY <2>5, <3>1 DEF CommitConflict
      <4>2. CASE e = d
        <5>1. pc'[e] = "retry"
          BY <4>1, <4>2 DEF TypeOK
        <5>2. QED
          BY <4>1, <5>1 DEF DiskInv, CacheExact
      <4>3. CASE e # d
        <5>1. pc'[e] = pc[e] /\ local'[e] = local[e] /\ merged'[e] = merged[e]
          BY <4>1, <4>3 DEF TypeOK
        <5>2. QED
          BY <4>1, <5>1 DEF DiskInv, ScannedOnDisk, MergedOnDisk, CacheExact
      <4>4. QED
        BY <4>2, <4>3
    <3>2. CASE ~MayRetry(d)
      BY <2>5, <3>2, <1>3 DEF CommitConflict
    <3>3. QED
      BY <3>1, <3>2
  <2>6. CASE RebuildCache(d)
    <3>1. cache'[d][q] # NoEntry => cache'[d][q].sig = cache'[d][q].node
      <4>1. cache'[d][q] = IF merged[d][q] = NoNode \/ disk[d][q] = NoNode THEN NoEntry
                           ELSE [sig |-> disk[d][q], node |-> merged[d][q]]
        BY <2>6 DEF RebuildCache, CacheOf, AgreedTree, TypeOK
      <4>2. merged[d][q] # NoNode => disk[d][q] = merged[d][q]
        BY <2>6 DEF RebuildCache, DiskInv, MergedOnDisk
      <4>3. QED
        BY <4>1, <4>2
    <3>2. QED
      BY <2>6, <3>1 DEF RebuildCache, TypeOK, DiskInv, ScannedOnDisk, MergedOnDisk, CacheExact
  <2>7. CASE SetLastRoot(d)
    BY <2>7, <1>3 DEF SetLastRoot
  <2>8. QED
    BY <1>5, <2>1, <2>2, <2>3, <2>4, <2>5, <2>6, <2>7 DEF SyncStep
<1>6. ASSUME NEW d \in Devices, Abort(d) \/ AbortInMerge(d) \/ CommitUnanswered(d)
      PROVE  Goal
  <2>1. Rest(d) /\ UNCHANGED cache /\ \A x \in Devices \ {d} : disk'[x] = disk[x]
    BY <1>6 DEF Abort, AbortInMerge, CommitUnanswered, TypeOK
  <2>2. QED
    BY <2>1, <1>3
<1>7. CASE UNCHANGED vars
  BY <1>7, <1>1 DEF vars
<1>8. QED
  BY <1>4, <1>5, <1>6, <1>7 DEF Next

-----------------------------------------------------------------------------
LEMMA NextIInv == IInv /\ [Next]_vars => IInv'
  BY NextTypeOK, NextAttempts, NextCommitted, NextMerged, NextDisk DEF IInv, DiskInv

LEMMA SpecIInv == Spec => []IInv
  BY InitIInv, NextIInv, PTL DEF Spec

\* Every reachable state is typed: in particular no sync makes more than
\* MAX_ATTEMPTS attempts, and no device remembers a head the vault never had.
THEOREM TypeCorrect == Spec => []TypeOK
<1>1. IInv => TypeOK
  BY DEF IInv
<1>2. QED
  BY <1>1, SpecIInv, PTL

\* The base of every merge is a tree the vault accepted, after any sequence of
\* lost races, lost answers, failures and restarts (sync.rs, rebuild_cache).
THEOREM BaseAlwaysCommitted == Spec => []BaseWasCommitted
<1>1. IInv => BaseWasCommitted
  BY DEF IInv
<1>2. QED
  BY <1>1, SpecIInv, PTL

\* While no user touches a device during its own sync, a cache hit returns the
\* node chunking would: the claim index.rs makes, with the premise it needs.
THEOREM CacheAlwaysHonest ==
    ASSUME QuietSyncs
    PROVE  Spec => []CacheHonest
<1>1. IInv => CacheHonest
  BY DEF IInv, CacheExact, CacheHonest
<1>2. QED
  BY <1>1, SpecIInv, PTL

\* No commit reverts a path its device had not changed since its base: the
\* decision table of merge_entry and the comparison of heads together.
THEOREM CommitsNeverRevert == Spec => CommitNeverReverts
<1>1. IInv /\ [Next]_vars => [CommitRespectsHead]_vars
  <2>. SUFFICES ASSUME IInv, [Next]_vars, log' # log
       PROVE  \E d \in Devices : Commits(d) /\ \A p \in Path :
                log'[Len(log')][p] # HeadTree[p] => local[d][p] # base[d][p]
    BY DEF CommitRespectsHead
  <2>1. PICK d \in Devices : CommitAccepted(d) \/ CommitUnanswered(d)
    BY DEF Next, SyncStep, vars, transient, aux, Edit, Delete, UserTouches, Scan, FetchHead,
       MergePath, Settle, CommitAccepted, CommitConflict, RebuildCache, SetLastRoot,
       Abort, AbortInMerge
  <2>2. /\ pc[d] = "merging" /\ todo[d] = {} /\ seen[d] = Len(log)
        /\ log' = Append(log, merged[d])
    BY <2>1 DEF CommitAccepted, CommitUnanswered, HeadUnmoved
  <2>3. Commits(d)
    BY <2>1, <2>2 DEF CommitAccepted, CommitUnanswered, Rest, Commits, IInv, TypeOK
  <2>4. log'[Len(log')] = merged[d] /\ TreeAt(seen[d]) = HeadTree
    BY <2>2 DEF IInv, TypeOK, HeadTree
  <2>5. \A p \in Path : merged[d][p] = MergedNode(base[d][p], local[d][p], HeadTree[p])
    BY <2>2, <2>4 DEF IInv, MergedSoFar
  <2>6. ASSUME NEW p \in Path, log'[Len(log')][p] # HeadTree[p]
        PROVE  local[d][p] # base[d][p]
    BY <2>4, <2>5, <2>6, MergedNodeDiffers
  <2>7. QED
    BY <2>3, <2>6
<1>2. QED
  BY <1>1, SpecIInv, PTL DEF Spec, CommitNeverReverts

-----------------------------------------------------------------------------
(***************************************************************************)
(* Where the contents that users want are.  A content is at home at a path *)
(* when nobody has replaced it there behind its user's back: it is the     *)
(* version of the newest tree and of every tree since the first that had   *)
(* it, or it has not been committed there and a device holds it.           *)
(***************************************************************************)
Holds(t, p, v) == t[p] # NoNode /\ t[p].content = v

\* Every commit since the first with v at p has it; a device whose base has it
\* has not changed it.
Settled(v, p) ==
    /\ Holds(HeadTree, p, v)
    /\ \A i, j \in 0 .. Len(log) : i =< j /\ Holds(TreeAt(i), p, v) => TreeAt(j)[p] = HeadTree[p]
    /\ \A d \in Devices : Holds(base[d], p, v) =>
          /\ disk[d][p] = base[d][p]
          /\ pc[d] = "merging" => local[d][p] = base[d][p]

OnlyOn(v, p, d) ==
    /\ Holds(disk[d], p, v)
    /\ \A i \in 0 .. Len(log) : ~Holds(TreeAt(i), p, v)

AtHome(v) == \E p \in Path : Settled(v, p) \/ \E d \in Devices : OnlyOn(v, p, d)

WantedAtHome == \A v \in wanted : AtHome(v)

\* A version of the head that a running merge has decided against is in a copy.
LosersKept == \A d \in Devices, p \in Path :
    /\ pc[d] = "merging" /\ seen[d] = Len(log) /\ p \notin todo[d]
    /\ Decide(d, p) = KeepBoth /\ HeadTree[p].content \in wanted
    => \E q \in Path : OnlyOn(HeadTree[p].content, q, d)

\* What is still to be merged is as the scan found it, and is a name of one of
\* the three trees.
ScannedExactly == \A d \in Devices :
    /\ pc[d] = "scanned" => disk[d] = local[d]
    /\ pc[d] = "merging" => \A p \in todo[d] :
          /\ disk[d][p] = local[d][p]
          /\ \/ base[d][p] # NoNode \/ local[d][p] # NoNode
             \/ TreeAt(seen[d])[p] # NoNode

\* The base of a merge is no newer than the head it merges.
BaseSeen == \A d \in Devices : pc[d] = "merging" => \E i \in 0 .. seen[d] : base[d] = TreeAt(i)

\* Nothing holds a content that was not written yet.
Old(t) == \A p \in Path : t[p] # NoNode => t[p].content =< edits
OnlyOld ==
    /\ \A d \in Devices : Old(disk[d]) /\ Old(local[d]) /\ Old(merged[d])
    /\ \A i \in 0 .. Len(log) : Old(TreeAt(i))

QuietInv == ScannedExactly /\ BaseSeen /\ OnlyOld
HomeInv  == WantedAtHome /\ LosersKept

-----------------------------------------------------------------------------
LEMMA Contents == TypeOK => \A t \in Tree, p \in Path : t[p] # NoNode => t[p] \in Node /\ t[p].content \in Int
  BY BoundsAssumption DEF Tree, Node, Content, Torn, Original

\* What save_conflict_copy may have done before the winner is written.
LEMMA LoserSavedCases ==
    ASSUME TypeOK, NEW d \in Devices, NEW p \in Path,
           NEW t \in WithLoserSaved(d, p, Decide(d, p))
    PROVE  \/ /\ t = disk[d] /\ Decide(d, p) # KeepBoth
              /\ Decide(d, p) = TakeBoth => disk[d][p] = NoNode
           \/ \E q \in Path, s \in Times, c \in Content :
                /\ Unused(q) /\ t = [disk[d] EXCEPT ![q] = [content |-> c, mtime |-> s]]
                /\ \/ Decide(d, p) = KeepBoth /\ c = TreeAt(seen[d])[p].content
                   \/ Decide(d, p) = TakeBoth /\ disk[d][p] # NoNode /\ c = disk[d][p].content
<1>. DEFINE r == TreeAt(seen[d])[p]
<1>1. seen[d] \in 0 .. Len(log) /\ disk[d] \in Tree
  BY DEF TypeOK
<1>2. r \in Node \cup {NoNode} /\ disk[d][p] \in Node \cup {NoNode}
  BY <1>1, TreeAtIsATree DEF Tree
<1>3. ASSUME NEW n \in Node, t \in SaveCopy(disk[d], d, p, n.content)
      PROVE  \E q \in Path, s \in Times, c \in Content :
                Unused(q) /\ t = [disk[d] EXCEPT ![q] = [content |-> c, mtime |-> s]] /\ c = n.content
  <2>1. PICK s \in Times : /\ Unused(ConflictPath(p, d, s))
                           /\ t = [disk[d] EXCEPT ![ConflictPath(p, d, s)] =
                                      [content |-> n.content, mtime |-> s]]
    BY <1>3 DEF SaveCopy
  <2>2. ConflictPath(p, d, s) \in Path /\ n.content \in Content
    BY PathAssumption DEF Node
  <2>3. QED
    BY <2>1, <2>2
<1>4. CASE Decide(d, p) = KeepBoth
  <2>1. r \in Node
    BY <1>2, <1>4, MergeEntryTable DEF Decide
  <2>2. t \in SaveCopy(disk[d], d, p, r.content)
    BY <1>4 DEF WithLoserSaved, KeepBoth, TakeBoth
  <2>3. QED
    BY <2>1, <2>2, <1>3, <1>4
<1>5. CASE Decide(d, p) = TakeBoth /\ disk[d][p] # NoNode
  <2>1. t \in SaveCopy(disk[d], d, p, disk[d][p].content)
    BY <1>5 DEF WithLoserSaved, KeepBoth, TakeBoth
  <2>2. QED
    BY <2>1, <1>2, <1>3, <1>5
<1>6. CASE ~(Decide(d, p) = KeepBoth) /\ ~(Decide(d, p) = TakeBoth /\ disk[d][p] # NoNode)
  BY <1>6 DEF WithLoserSaved
<1>7. QED
  BY <1>4, <1>5, <1>6

\* A path without a name in any tree is in none of them.
LEMMA UnusedIsNowhere ==
    ASSUME IInv, NEW q \in Path, Unused(q)
    PROVE  /\ \A i \in 0 .. Len(log) : TreeAt(i)[q] = NoNode
           /\ \A d \in Devices : disk[d][q] = NoNode /\ local[d][q] = NoNode /\ base[d][q] = NoNode
<1>1. \A i \in 0 .. Len(log) : TreeAt(i)[q] = NoNode
  BY DEF Unused, TreeAt, EmptyTree, IInv, TypeOK
<1>2. \A d \in Devices : base[d][q] = NoNode
  BY <1>1 DEF IInv, BaseWasCommitted
<1>3. QED
  BY <1>1, <1>2 DEF Unused

\* What one file operation of a merge leaves on its disk, before and after the
\* winner is in place.
LEMMA MergeWrites ==
    ASSUME IInv, NEW d \in Devices, MergePath(d) \/ AbortInMerge(d)
    PROVE  /\ pc[d] = "merging" /\ log' = log /\ base' = base /\ wanted' = wanted /\ edits' = edits
           /\ \A e \in Devices \ {d} : disk'[e] = disk[e]
           /\ \E p \in todo[d] : \E t \in WithLoserSaved(d, p, Decide(d, p)) :
                /\ \A q \in Path \ {p} : disk'[d][q] = t[q]
                /\ \/ disk'[d][p] = t[p]
                   \/ Takes(Decide(d, p)) /\ disk'[d][p] = TreeAt(seen[d])[p]
                   \/ Takes(Decide(d, p)) /\ disk'[d][p] # NoNode /\ disk'[d][p].content = Torn
<1>1. CASE MergePath(d)
  <2>1. PICK p \in todo[d] : /\ pc[d] = "merging" /\ UNCHANGED <<log, base, aux>>
          /\ \E t \in WithLoserSaved(d, p, Decide(d, p)) :
              disk' = [disk EXCEPT ![d] = IF Takes(Decide(d, p))
                          THEN [t EXCEPT ![p] = Materialised(TreeAt(seen[d])[p])] ELSE t]
    BY <1>1 DEF MergePath
  <2>2. PICK t \in WithLoserSaved(d, p, Decide(d, p)) :
              disk' = [disk EXCEPT ![d] = IF Takes(Decide(d, p))
                          THEN [t EXCEPT ![p] = Materialised(TreeAt(seen[d])[p])] ELSE t]
    BY <2>1
  <2>3. t \in Tree /\ p \in Path
    BY LoserSavedIsATree DEF IInv, TypeOK
  <2>4. disk'[d] = IF Takes(Decide(d, p)) THEN [t EXCEPT ![p] = TreeAt(seen[d])[p]] ELSE t
    BY <2>2 DEF IInv, TypeOK, Materialised
  <2>5. /\ \A q \in Path \ {p} : disk'[d][q] = t[q]
        /\ disk'[d][p] = t[p] \/ (Takes(Decide(d, p)) /\ disk'[d][p] = TreeAt(seen[d])[p])
    BY <2>3, <2>4 DEF Tree
  <2>6. \A e \in Devices \ {d} : disk'[e] = disk[e]
    BY <2>2 DEF IInv, TypeOK
  <2>7. QED
    BY <2>1, <2>5, <2>6 DEF aux
<1>2. CASE AbortInMerge(d)
  <2>1. PICK p \in todo[d] : /\ pc[d] = "merging" /\ UNCHANGED <<log, base, edits, wanted>>
          /\ \E t \in WithLoserSaved(d, p, Decide(d, p)) :
              \/ disk' = [disk EXCEPT ![d] = t]
              \/ Takes(Decide(d, p)) /\ \E s \in Times : disk' =
                   [disk EXCEPT ![d] = [t EXCEPT ![p] = [content |-> Torn, mtime |-> s]]]
    BY <1>2 DEF AbortInMerge
  <2>2. PICK t \in WithLoserSaved(d, p, Decide(d, p)) :
              \/ disk' = [disk EXCEPT ![d] = t]
              \/ Takes(Decide(d, p)) /\ \E s \in Times : disk' =
                   [disk EXCEPT ![d] = [t EXCEPT ![p] = [content |-> Torn, mtime |-> s]]]
    BY <2>1
  <2>3. t \in Tree /\ p \in Path
    BY LoserSavedIsATree DEF IInv, TypeOK
  <2>4. \A s \in Times : [content |-> Torn, mtime |-> s] # NoNode
    BY NoNodeAssumption DEF Node, Content
  <2>5. /\ \A q \in Path \ {p} : disk'[d][q] = t[q]
        /\ \/ disk'[d][p] = t[p]
           \/ Takes(Decide(d, p)) /\ disk'[d][p] # NoNode /\ disk'[d][p].content = Torn
    <3>1. CASE disk' = [disk EXCEPT ![d] = t]
      BY <3>1 DEF IInv, TypeOK
    <3>2. ASSUME NEW s \in Times, Takes(Decide(d, p)),
                 disk' = [disk EXCEPT ![d] = [t EXCEPT ![p] = [content |-> Torn, mtime |-> s]]]
          PROVE  /\ \A q \in Path \ {p} : disk'[d][q] = t[q]
                 /\ Takes(Decide(d, p)) /\ disk'[d][p] # NoNode /\ disk'[d][p].content = Torn
      <4>1. /\ \A q \in Path \ {p} : disk'[d][q] = t[q]
            /\ disk'[d][p] = [content |-> Torn, mtime |-> s]
        BY <2>3, <3>2 DEF IInv, TypeOK, Tree
      <4>2. QED
        BY <2>4, <3>2, <4>1
    <3>3. QED
      BY <2>2, <3>1, <3>2
  <2>6. \A e \in Devices \ {d} : disk'[e] = disk[e]
    BY <2>2 DEF IInv, TypeOK
  <2>7. QED
    BY <2>1, <2>5, <2>6
<1>3. QED
  BY <1>1, <1>2

-----------------------------------------------------------------------------
(***************************************************************************)
(* A step is one of one device, and leaves the others as they are.         *)
(***************************************************************************)
StepOf(d) == Edit(d) \/ Delete(d) \/ SyncStep(d) \/ Abort(d) \/ AbortInMerge(d) \/ CommitUnanswered(d)

Same(d) == /\ disk'[d] = disk[d] /\ base'[d] = base[d] /\ pc'[d] = pc[d] /\ local'[d] = local[d]
           /\ todo'[d] = todo[d] /\ seen'[d] = seen[d] /\ merged'[d] = merged[d]

LEMMA RestIs ==
    ASSUME TypeOK, NEW d \in Devices, Rest(d)
    PROVE  /\ pc'[d] = "idle" /\ local'[d] = EmptyTree /\ merged'[d] = EmptyTree
           /\ \A e \in Devices \ {d} : /\ pc'[e] = pc[e] /\ local'[e] = local[e] /\ todo'[e] = todo[e]
                                       /\ seen'[e] = seen[e] /\ merged'[e] = merged[e]
  BY DEF Rest, TypeOK

LEMMA OthersStay ==
    ASSUME IInv, NEW d \in Devices, NEW e \in Devices \ {d}, StepOf(d)
    PROVE  Same(e)
<1>. TypeOK
  BY DEF IInv
<1>1. CASE Edit(d) \/ Delete(d)
  BY <1>1 DEF Edit, Delete, UserTouches, transient, Same, TypeOK
<1>2. CASE Scan(d) \/ FetchHead(d) \/ Settle(d) \/ CommitAccepted(d) \/ RebuildCache(d)
  BY <1>2 DEF Scan, FetchHead, Settle, CommitAccepted, RebuildCache, Same, TypeOK
<1>3. CASE MergePath(d)
  <2>1. disk'[e] = disk[e] /\ base' = base
    BY <1>3, MergeWrites
  <2>2. QED
    BY <1>3, <2>1 DEF MergePath, Same, TypeOK
<1>4. CASE CommitConflict(d)
  <2>1. CASE MayRetry(d)
    BY <1>4, <2>1 DEF CommitConflict, Same, TypeOK
  <2>2. CASE ~MayRetry(d)
    BY <1>4, <2>2, RestIs DEF CommitConflict, Same
  <2>3. QED
    BY <2>1, <2>2
<1>5. CASE SetLastRoot(d)
  <2>1. base'[e] = base[e]
    BY <1>5 DEF SetLastRoot, TypeOK
  <2>2. QED
    BY <1>5, <2>1, RestIs DEF SetLastRoot, Same
<1>6. CASE Abort(d) \/ CommitUnanswered(d)
  BY <1>6, RestIs DEF Abort, CommitUnanswered, Same
<1>7. CASE AbortInMerge(d)
  <2>1. disk'[e] = disk[e] /\ base' = base
    BY <1>7, MergeWrites
  <2>2. QED
    BY <1>7, <2>1, RestIs DEF AbortInMerge, Same
<1>8. QED
  BY <1>1, <1>2, <1>3, <1>4, <1>5, <1>6, <1>7 DEF StepOf, SyncStep

\* What is still to be merged is not where a copy goes.
LEMMA CopiesAreElsewhere ==
    ASSUME IInv, ScannedExactly, NEW d \in Devices, pc[d] = "merging",
           NEW p \in todo[d], NEW t \in WithLoserSaved(d, p, Decide(d, p)),
           NEW q \in todo[d]
    PROVE  t[q] = disk[d][q]
<1>1. disk[d] \in Tree /\ p \in Path /\ q \in Path /\ seen[d] \in 0 .. Len(log) /\ TypeOK
  BY DEF IInv, TypeOK
<1>2. ~Unused(q)
  <2>1. base[d][q] # NoNode \/ local[d][q] # NoNode \/ TreeAt(seen[d])[q] # NoNode
    BY DEF ScannedExactly
  <2>2. QED
    BY <1>1, <2>1, UnusedIsNowhere
<1>3. CASE t = disk[d]
  BY <1>3
<1>4. ASSUME NEW x \in Path, NEW s \in Times, NEW c \in Content, Unused(x),
             t = [disk[d] EXCEPT ![x] = [content |-> c, mtime |-> s]]
      PROVE  t[q] = disk[d][q]
  BY <1>1, <1>2, <1>4 DEF Tree
<1>5. QED
  BY <1>1, <1>3, <1>4, LoserSavedCases

LEMMA NextScannedExactly ==
    ASSUME QuietSyncs, IInv, ScannedExactly, NEW d \in Devices, StepOf(d)
    PROVE  ScannedExactly'
<1>. SUFFICES ASSUME NEW e \in Devices
     PROVE  /\ pc'[e] = "scanned" => disk'[e] = local'[e]
            /\ pc'[e] = "merging" => \A p \in todo'[e] :
                  /\ disk'[e][p] = local'[e][p]
                  /\ \/ base'[e][p] # NoNode \/ local'[e][p] # NoNode
                     \/ TreeAt(seen[e])'[p] # NoNode
  BY DEF ScannedExactly
<1>. DEFINE Goal == /\ pc'[e] = "scanned" => disk'[e] = local'[e]
                    /\ pc'[e] = "merging" => \A p \in todo'[e] :
                          /\ disk'[e][p] = local'[e][p]
                          /\ \/ base'[e][p] # NoNode \/ local'[e][p] # NoNode
                             \/ TreeAt(seen[e])'[p] # NoNode
<1>0. TypeOK /\ [Next]_vars
  BY DEF IInv, StepOf, Next
<1>1. seen'[e] = seen[e] => TreeAt(seen[e])' = TreeAt(seen[e])
  BY <1>0, LogPrefix DEF TypeOK, TreeAt
<1>2. ASSUME Same(e) PROVE Goal
  BY <1>1, <1>2 DEF Same, ScannedExactly
<1>3. CASE e # d
  BY <1>2, <1>3, OthersStay
<1>4. CASE e = d
  <2>1. CASE Edit(d) \/ Delete(d)
    <3>1. pc[d] = "idle" /\ pc' = pc
      BY <2>1 DEF Edit, Delete, UserMayAct, UserTouches, transient
    <3>2. QED
      BY <1>4, <3>1
  <2>2. CASE Scan(d)
    <3>1. pc'[d] = "scanned" /\ disk' = disk /\ local'[d] = [p \in Path |-> ScanPath(d, p)]
      BY <1>0, <2>2 DEF Scan, TypeOK
    <3>2. \A p \in Path : ScanPath(d, p) = disk[d][p]
      BY <1>0, ScanIsHonest DEF IInv
    <3>3. disk[d] = local'[d]
      BY <1>0, <3>1, <3>2 DEF TypeOK, Tree
    <3>4. QED
      BY <1>4, <3>1, <3>3
  <2>3. CASE FetchHead(d)
    <3>1. /\ pc[d] = "scanned" /\ pc'[d] = "merging" /\ UNCHANGED <<disk, base, local, log>>
          /\ todo'[d] = Present(base[d]) \cup Present(local[d]) \cup Present(HeadTree)
          /\ seen'[d] = Len(log)
      BY <1>0, <2>3 DEF FetchHead, TypeOK
    <3>2. TreeAt(seen[d])' = HeadTree
      BY <3>1 DEF TreeAt, HeadTree
    <3>3. disk[d] = local[d]
      BY <3>1 DEF ScannedExactly
    <3>4. QED
      BY <1>4, <3>1, <3>2, <3>3 DEF Present
  <2>4. CASE MergePath(d)
    <3>1. /\ pc[d] = "merging" /\ pc' = pc /\ base' = base /\ local' = local /\ seen' = seen
          /\ todo'[d] \subseteq todo[d]
      BY <1>0, <2>4 DEF MergePath, TypeOK
    <3>2. PICK p \in todo[d] :
             /\ todo'[d] = todo[d] \ {p}
             /\ \E t \in WithLoserSaved(d, p, Decide(d, p)) :
                  disk' = [disk EXCEPT ![d] = IF Takes(Decide(d, p))
                              THEN [t EXCEPT ![p] = Materialised(TreeAt(seen[d])[p])] ELSE t]
      BY <1>0, <2>4 DEF MergePath, TypeOK
    <3>3. PICK t \in WithLoserSaved(d, p, Decide(d, p)) :
                  disk' = [disk EXCEPT ![d] = IF Takes(Decide(d, p))
                              THEN [t EXCEPT ![p] = Materialised(TreeAt(seen[d])[p])] ELSE t]
      BY <3>2
    <3>4. p \in Path /\ t \in Tree
      BY <1>0, LoserSavedIsATree DEF TypeOK
    <3>5. \A q \in Path \ {p} : disk'[d][q] = t[q]
      BY <1>0, <3>3, <3>4 DEF TypeOK, Tree
    <3>6. ASSUME NEW q \in todo'[d] PROVE disk'[d][q] = local'[d][q]
      <4>1. q \in todo[d] /\ q \in Path \ {p}
        BY <1>0, <3>2 DEF TypeOK
      <4>2. t[q] = disk[d][q]
        BY <3>1, <4>1, CopiesAreElsewhere
      <4>3. QED
        BY <3>1, <3>5, <4>1, <4>2 DEF ScannedExactly
    <3>7. QED
      BY <1>1, <1>4, <3>1, <3>6 DEF ScannedExactly
  <2>5. CASE Settle(d) \/ CommitAccepted(d) \/ RebuildCache(d)
    BY <1>0, <1>4, <2>5 DEF Settle, CommitAccepted, RebuildCache, TypeOK
  <2>6. CASE CommitConflict(d)
    <3>1. CASE MayRetry(d)
      BY <1>0, <1>4, <2>6, <3>1 DEF CommitConflict, TypeOK
    <3>2. CASE ~MayRetry(d)
      BY <1>0, <1>4, <2>6, <3>2, RestIs DEF CommitConflict
    <3>3. QED
      BY <3>1, <3>2
  <2>7. CASE SetLastRoot(d) \/ Abort(d) \/ AbortInMerge(d) \/ CommitUnanswered(d)
    BY <1>0, <1>4, <2>7, RestIs DEF SetLastRoot, Abort, AbortInMerge, CommitUnanswered
  <2>8. QED
    BY <2>1, <2>2, <2>3, <2>4, <2>5, <2>6, <2>7 DEF StepOf, SyncStep
<1>5. QED
  BY <1>3, <1>4

LEMMA NextBaseSeen ==
    ASSUME IInv, BaseSeen, NEW d \in Devices, StepOf(d)
    PROVE  BaseSeen'
<1>. SUFFICES ASSUME NEW e \in Devices, pc'[e] = "merging"
     PROVE  \E i \in 0 .. seen'[e] : base'[e] = TreeAt(i)'
  BY DEF BaseSeen
<1>0. TypeOK /\ [Next]_vars
  BY DEF IInv, StepOf, Next
<1>1. \A i \in 0 .. Len(log) : TreeAt(i)' = TreeAt(i)
  BY <1>0, LogPrefix
<1>2. ASSUME pc[e] = "merging", seen'[e] = seen[e], base'[e] = base[e]
      PROVE  \E i \in 0 .. seen'[e] : base'[e] = TreeAt(i)'
  <2>1. PICK i \in 0 .. seen[e] : base[e] = TreeAt(i)
    BY <1>2 DEF BaseSeen
  <2>2. i \in 0 .. Len(log)
    BY <1>0 DEF TypeOK
  <2>3. QED
    BY <1>1, <1>2, <2>1, <2>2
<1>3. CASE e # d
  BY <1>2, <1>3, OthersStay DEF Same
<1>4. CASE e = d /\ FetchHead(d)
  <2>1. seen'[d] = Len(log) /\ base' = base
    BY <1>0, <1>4 DEF FetchHead, TypeOK
  <2>2. PICK i \in 0 .. Len(log) : base[d] = TreeAt(i)
    BY DEF IInv, BaseWasCommitted
  <2>3. QED
    BY <1>1, <1>4, <2>1, <2>2
<1>5. CASE e = d /\ (MergePath(d) \/ Edit(d) \/ Delete(d))
  BY <1>2, <1>5 DEF MergePath, Edit, Delete, UserTouches, transient
<1>6. CASE e = d /\ (Scan(d) \/ Settle(d) \/ CommitAccepted(d) \/ RebuildCache(d))
  BY <1>0, <1>6 DEF Scan, Settle, CommitAccepted, RebuildCache, TypeOK
<1>7. CASE e = d /\ CommitConflict(d)
  <2>1. CASE MayRetry(d)
    BY <1>0, <1>7, <2>1 DEF CommitConflict, TypeOK
  <2>2. CASE ~MayRetry(d)
    BY <1>0, <1>7, <2>2, RestIs DEF CommitConflict
  <2>3. QED
    BY <2>1, <2>2
<1>8. CASE e = d /\ (SetLastRoot(d) \/ Abort(d) \/ AbortInMerge(d) \/ CommitUnanswered(d))
  BY <1>0, <1>8, RestIs DEF SetLastRoot, Abort, AbortInMerge, CommitUnanswered
<1>9. QED
  BY <1>3, <1>4, <1>5, <1>6, <1>7, <1>8 DEF StepOf, SyncStep

LEMMA NextOnlyOld ==
    ASSUME QuietSyncs, IInv, OnlyOld, NEW d \in Devices, StepOf(d)
    PROVE  OnlyOld'
<1>. DEFINE N(n) == n # NoNode => n.content =< edits'
<1>. TypeOK /\ [Next]_vars
  BY DEF IInv, StepOf, Next
<1>1. edits \in Int /\ edits' \in Int /\ edits =< edits' /\ Torn =< edits'
  <2>1. edits \in Nat
    BY BoundsAssumption DEF TypeOK
  <2>2. edits' = edits \/ edits' = edits + 1
    BY DEF StepOf, SyncStep, Edit, Delete, UserTouches, Scan, FetchHead, MergePath, Settle,
       CommitAccepted, CommitConflict, RebuildCache, SetLastRoot, Abort, AbortInMerge,
       CommitUnanswered, aux
  <2>3. QED
    BY <2>1, <2>2 DEF Torn
<1>2. ASSUME NEW t \in Tree, NEW p \in Path, Old(t)
      PROVE  N(t[p])
  <2>1. t[p] # NoNode => t[p].content \in Int /\ t[p].content =< edits
    BY <1>2, Contents DEF Old
  <2>2. QED
    BY <1>1, <2>1
<1>3. /\ \A e \in Devices, p \in Path : N(disk[e][p]) /\ N(local[e][p]) /\ N(merged[e][p])
      /\ \A i \in 0 .. Len(log), p \in Path : N(TreeAt(i)[p])
  BY <1>2, TreeAtIsATree DEF TypeOK, OnlyOld
<1>4. N(NoNode) /\ \A p \in Path : N(EmptyTree[p])
  BY DEF EmptyTree
<1>5. \A e \in Devices : seen[e] \in 0 .. Len(log) /\ todo[e] \subseteq Path
  BY DEF TypeOK
<1>6. ASSUME NEW e \in Devices \ {d}, NEW p \in Path
      PROVE  N(disk'[e][p]) /\ N(local'[e][p]) /\ N(merged'[e][p])
  BY <1>3, OthersStay DEF Same
<1>7. ASSUME NEW p \in Path PROVE N(disk'[d][p])
  <2>1. CASE Edit(d)
    <3>1. PICK x \in Names, t \in Times :
             /\ disk' = [disk EXCEPT ![d][x] = [content |-> edits + 1, mtime |-> t]]
             /\ edits' = edits + 1
      BY <2>1 DEF Edit, UserTouches
    <3>2. disk'[d][p] = IF p = x THEN [content |-> edits + 1, mtime |-> t] ELSE disk[d][p]
      BY <3>1, PathAssumption DEF TypeOK, Tree
    <3>3. QED
      BY <1>1, <1>3, <3>1, <3>2
  <2>2. CASE Delete(d)
    <3>1. PICK x \in Path : disk' = [disk EXCEPT ![d][x] = NoNode]
      BY <2>2 DEF Delete
    <3>2. disk'[d][p] = IF p = x THEN NoNode ELSE disk[d][p]
      BY <3>1 DEF TypeOK, Tree
    <3>3. QED
      BY <1>3, <1>4, <3>2
  <2>3. CASE MergePath(d) \/ AbortInMerge(d)
    <3>1. PICK x \in todo[d] : \E t \in WithLoserSaved(d, x, Decide(d, x)) :
             /\ \A q \in Path \ {x} : disk'[d][q] = t[q]
             /\ \/ disk'[d][x] = t[x]
                \/ disk'[d][x] = TreeAt(seen[d])[x]
                \/ disk'[d][x].content = Torn
      BY <2>3, MergeWrites
    <3>2. PICK t \in WithLoserSaved(d, x, Decide(d, x)) :
             /\ \A q \in Path \ {x} : disk'[d][q] = t[q]
             /\ \/ disk'[d][x] = t[x]
                \/ disk'[d][x] = TreeAt(seen[d])[x]
                \/ disk'[d][x].content = Torn
      BY <3>1
    <3>3. x \in Path
      BY <1>5
    <3>4. ASSUME NEW q \in Path PROVE N(t[q])
      <4>1. CASE t = disk[d]
        BY <1>3, <4>1
      <4>2. ASSUME NEW y \in Path, NEW s \in Times, NEW c \in Content,
                   t = [disk[d] EXCEPT ![y] = [content |-> c, mtime |-> s]],
                   \/ Decide(d, x) = KeepBoth /\ c = TreeAt(seen[d])[x].content
                   \/ disk[d][x] # NoNode /\ c = disk[d][x].content
            PROVE  N(t[q])
        <5>1. c =< edits'
          <6>1. Decide(d, x) = KeepBoth => TreeAt(seen[d])[x] # NoNode
            BY MergeEntryTable DEF Decide
          <6>2. QED
            BY <1>3, <1>5, <3>3, <4>2, <6>1
        <5>2. t[q] = IF q = y THEN [content |-> c, mtime |-> s] ELSE disk[d][q]
          BY <4>2 DEF TypeOK, Tree
        <5>3. QED
          BY <1>3, <5>1, <5>2
      <4>3. QED
        BY <3>3, <4>1, <4>2, LoserSavedCases
    <3>5. QED
      BY <1>1, <1>3, <1>5, <3>2, <3>3, <3>4
  <2>4. CASE ~(Edit(d) \/ Delete(d) \/ MergePath(d) \/ AbortInMerge(d))
    <3>1. disk' = disk
      BY <2>4 DEF StepOf, SyncStep, Scan, FetchHead, Settle, CommitAccepted, CommitConflict,
         RebuildCache, SetLastRoot, Abort, CommitUnanswered
    <3>2. QED
      BY <1>3, <3>1
  <2>5. QED
    BY <2>1, <2>2, <2>3, <2>4
<1>8. ASSUME NEW p \in Path PROVE N(local'[d][p])
  <2>1. CASE Scan(d)
    <3>1. local'[d][p] = ScanPath(d, p)
      BY <2>1 DEF Scan, TypeOK
    <3>2. ScanPath(d, p) = disk[d][p]
      BY ScanIsHonest DEF IInv
    <3>3. QED
      BY <1>3, <3>1, <3>2
  <2>2. CASE Edit(d) \/ Delete(d) \/ FetchHead(d) \/ MergePath(d) \/ Settle(d) \/ CommitAccepted(d) \/ RebuildCache(d)
    <3>1. local' = local
      BY <2>2 DEF Edit, Delete, UserTouches, transient, FetchHead, MergePath, Settle, CommitAccepted, RebuildCache
    <3>2. QED
      BY <1>3, <3>1
  <2>3. CASE CommitConflict(d) \/ SetLastRoot(d) \/ Abort(d) \/ AbortInMerge(d) \/ CommitUnanswered(d)
    <3>1. local'[d] = EmptyTree
      BY <2>3, RestIs DEF CommitConflict, SetLastRoot, Abort, AbortInMerge, CommitUnanswered, TypeOK
    <3>2. QED
      BY <1>4, <3>1
  <2>4. QED
    BY <2>1, <2>2, <2>3 DEF StepOf, SyncStep
<1>9. ASSUME NEW p \in Path PROVE N(merged'[d][p])
  <2>1. CASE MergePath(d)
    <3>1. PICK x \in todo[d] : merged' = [merged EXCEPT ![d][x] =
                 IF Takes(Decide(d, x)) THEN TreeAt(seen[d])[x] ELSE local[d][x]]
      BY <2>1 DEF MergePath
    <3>2. merged'[d][p] \in {merged[d][p], TreeAt(seen[d])[p], local[d][p]}
      BY <1>5, <3>1 DEF TypeOK, Tree
    <3>3. QED
      BY <1>3, <1>5, <3>2
  <2>2. CASE Edit(d) \/ Delete(d) \/ Scan(d) \/ Settle(d) \/ CommitAccepted(d) \/ RebuildCache(d)
    <3>1. merged' = merged
      BY <2>2 DEF Edit, Delete, UserTouches, transient, Scan, Settle, CommitAccepted, RebuildCache
    <3>2. QED
      BY <1>3, <3>1
  <2>3. CASE FetchHead(d) \/ CommitConflict(d) \/ SetLastRoot(d) \/ Abort(d) \/ AbortInMerge(d) \/ CommitUnanswered(d)
    <3>1. merged'[d] = EmptyTree
      BY <2>3, RestIs DEF FetchHead, CommitConflict, SetLastRoot, Abort, AbortInMerge, CommitUnanswered, TypeOK
    <3>2. QED
      BY <1>4, <3>1
  <2>4. QED
    BY <2>1, <2>2, <2>3 DEF StepOf, SyncStep
<1>10. ASSUME NEW i \in 0 .. Len(log'), NEW p \in Path PROVE N(TreeAt(i)'[p])
  <2>1. CASE log' = log
    BY <1>3, <1>10, <2>1 DEF TreeAt
  <2>2. CASE log' = Append(log, merged[d])
    <3>1. CASE i \in 0 .. Len(log)
      BY <1>3, <3>1, LogPrefix
    <3>2. CASE i = Len(log) + 1
      <4>1. TreeAt(i)' = merged[d]
        BY <2>2, <3>2 DEF TypeOK, TreeAt
      <4>2. QED
        BY <1>3, <4>1
    <3>3. QED
      BY <1>10, <2>2, <3>1, <3>2, AppendType DEF TypeOK
  <2>3. QED
    BY <2>1, <2>2 DEF StepOf, SyncStep, Edit, Delete, UserTouches, Scan, FetchHead, MergePath, Settle,
       CommitAccepted, CommitConflict, RebuildCache, SetLastRoot, Abort, AbortInMerge,
       CommitUnanswered
<1>11. QED
  BY <1>6, <1>7, <1>8, <1>9, <1>10 DEF OnlyOld, Old

\* A user takes a content away only by touching the path that holds it.
LEMMA UsersTouchTheirOwn ==
    ASSUME IInv, OnlyOld, NEW d \in Devices, Edit(d) \/ Delete(d)
    PROVE  /\ log' = log /\ base' = base /\ pc' = pc /\ local' = local
           /\ todo' = todo /\ seen' = seen /\ merged' = merged
           /\ \A v \in wanted' \cap wanted, p \in Path :
                 Holds(disk[d], p, v) => disk'[d][p] = disk[d][p]
<1>. TypeOK
  BY DEF IInv
<1>1. PICK x \in Path :
        /\ \E n : disk' = [disk EXCEPT ![d][x] = n]
        /\ wanted' = (wanted \ (IF disk[d][x] = NoNode THEN {} ELSE {disk[d][x].content}))
                         \cup (wanted' \cap {edits + 1})
  <2>1. CASE Edit(d)
    BY <2>1, PathAssumption DEF Edit, UserTouches
  <2>2. CASE Delete(d)
    BY <2>2 DEF Delete, UserTouches
  <2>3. QED
    BY <2>1, <2>2
<1>2. ASSUME NEW v \in wanted' \cap wanted, NEW p \in Path, Holds(disk[d], p, v)
      PROVE  disk'[d][p] = disk[d][p]
  <2>1. v # edits + 1
    <3>1. v =< edits /\ v \in Int
      BY <1>2, Contents DEF OnlyOld, Old, Holds, TypeOK
    <3>2. QED
      BY <3>1, BoundsAssumption DEF TypeOK
  <2>2. p # x
    BY <1>1, <1>2, <2>1 DEF Holds
  <2>3. QED
    BY <1>1, <2>2 DEF TypeOK, Tree
<1>3. QED
  BY <1>2 DEF Edit, Delete, UserTouches, transient

\* Steps of a sync other than its file operations leave the disk alone.
LEMMA DiskStays ==
    ASSUME NEW d \in Devices, StepOf(d), ~(Edit(d) \/ Delete(d) \/ MergePath(d) \/ AbortInMerge(d))
    PROVE  disk' = disk /\ wanted' = wanted /\ edits' = edits
  BY DEF StepOf, SyncStep, Scan, FetchHead, Settle, CommitAccepted, CommitConflict,
         RebuildCache, SetLastRoot, Abort, CommitUnanswered, aux

LEMMA SameLog ==
    ASSUME log' = log
    PROVE  HeadTree' = HeadTree /\ Len(log') = Len(log) /\ \A i : TreeAt(i)' = TreeAt(i)
  BY DEF HeadTree, TreeAt

\* A content that is settled stays so until the next commit, or until its user
\* takes it away.
LEMMA SettledStays ==
    ASSUME QuietSyncs, IInv, QuietInv, NEW d \in Devices, StepOf(d), log' = log,
           NEW v \in wanted \cap wanted', NEW p \in Path, Settled(v, p)
    PROVE  Settled(v, p)'
<1>. TypeOK /\ [Next]_vars /\ OnlyOld /\ ScannedExactly /\ BaseSeen
  BY DEF IInv, QuietInv, StepOf, Next
<1>. DEFINE Good(e) == Holds(base'[e], p, v) =>
               /\ disk'[e][p] = base'[e][p]
               /\ pc'[e] = "merging" => local'[e][p] = base'[e][p]
<1>1. ASSUME NEW e \in Devices, base'[e] = base[e], disk'[e][p] = disk[e][p],
             pc'[e] # "merging" \/ (pc'[e] = pc[e] /\ local'[e][p] = local[e][p])
      PROVE  Good(e)
  BY <1>1 DEF Settled
<1>2. ASSUME NEW e \in Devices \ {d} PROVE Good(e)
  BY <1>1, <1>2, OthersStay DEF Same
<1>3. Good(d)
  <2>1. CASE Edit(d) \/ Delete(d)
    <3>1. CASE Holds(base[d], p, v)
      <4>1. Holds(disk[d], p, v)
        BY <3>1 DEF Settled, Holds
      <4>2. QED
        BY <2>1, <4>1, <1>1, UsersTouchTheirOwn
    <3>2. CASE ~Holds(base[d], p, v)
      BY <2>1, <3>2, UsersTouchTheirOwn
    <3>3. QED
      BY <3>1, <3>2
  <2>2. CASE Scan(d) \/ Settle(d) \/ RebuildCache(d) \/ CommitAccepted(d) \/ CommitConflict(d)
                \/ Abort(d) \/ CommitUnanswered(d)
    <3>1. pc'[d] # "merging"
      BY <2>2 DEF Scan, Settle, RebuildCache, CommitAccepted, CommitConflict, Abort, CommitUnanswered, Rest, TypeOK
    <3>2. base' = base /\ disk' = disk
      BY <2>2 DEF Scan, Settle, RebuildCache, CommitAccepted, CommitConflict, Abort, CommitUnanswered
    <3>3. QED
      BY <1>1, <3>1, <3>2
  <2>3. CASE FetchHead(d)
    <3>1. base' = base /\ disk' = disk /\ local' = local /\ local[d] = disk[d]
      BY <2>3 DEF FetchHead, ScannedExactly
    <3>2. QED
      BY <3>1 DEF Settled
  <2>4. CASE MergePath(d) \/ AbortInMerge(d)
    <3>1. pc[d] = "merging" /\ base' = base
      BY <2>4, MergeWrites
    <3>2. pc'[d] # "merging" \/ (pc'[d] = pc[d] /\ local'[d] = local[d])
      BY <2>4, RestIs DEF MergePath, AbortInMerge
    <3>3. CASE ~Holds(base[d], p, v)
      BY <3>1, <3>3
    <3>4. CASE Holds(base[d], p, v)
      <4>1. disk[d][p] = base[d][p] /\ local[d][p] = base[d][p]
        BY <3>1, <3>4 DEF Settled
      <4>2. TreeAt(seen[d])[p] = base[d][p]
        <5>1. PICK i \in 0 .. seen[d] : base[d] = TreeAt(i)
          BY <3>1 DEF BaseSeen
        <5>2. seen[d] \in 0 .. Len(log) /\ i \in 0 .. Len(log) /\ i =< seen[d]
          BY DEF TypeOK
        <5>3. QED
          BY <3>4, <5>1, <5>2 DEF Settled
      <4>3. PICK x \in todo[d] : \E t \in WithLoserSaved(d, x, Decide(d, x)) :
               /\ \A q \in Path \ {x} : disk'[d][q] = t[q]
               /\ disk'[d][x] = t[x] \/ Takes(Decide(d, x))
        BY <2>4, MergeWrites
      <4>4. PICK t \in WithLoserSaved(d, x, Decide(d, x)) :
               /\ \A q \in Path \ {x} : disk'[d][q] = t[q]
               /\ disk'[d][x] = t[x] \/ Takes(Decide(d, x))
        BY <4>3
      <4>5. x \in Path /\ disk[d][p] # NoNode
        BY <3>4, <4>1 DEF Holds, TypeOK
      <4>6. t[p] = disk[d][p]
        BY <4>5, LoserSavedElsewhere
      <4>7. x = p => ~Takes(Decide(d, x))
        BY <4>1, <4>2 DEF Takes, Decide, MergeEntry, Keep, Take, TakeBoth
      <4>8. disk'[d][p] = disk[d][p]
        BY <4>4, <4>6, <4>7
      <4>9. QED
        BY <1>1, <3>1, <3>2, <4>8
    <3>5. QED
      BY <3>3, <3>4
  <2>5. CASE SetLastRoot(d)
    <3>1. pc[d] = "finishing" /\ base'[d] = merged[d] /\ disk' = disk /\ pc'[d] = "idle"
      BY <2>5, RestIs DEF SetLastRoot, AgreedTree, TypeOK
    <3>2. merged[d][p] # NoNode => disk[d][p] = merged[d][p]
      BY <3>1 DEF IInv, MergedOnDisk
    <3>3. QED
      BY <3>1, <3>2 DEF Holds
  <2>6. QED
    BY <2>1, <2>2, <2>3, <2>4, <2>5 DEF StepOf, SyncStep
<1>4. \A e \in Devices : Good(e)
  BY <1>2, <1>3
<1>5. QED
  BY <1>4, SameLog DEF Settled, Holds

\* A content only a device has stays on it, maybe as a conflict copy.
LEMMA OnlyOnStays ==
    ASSUME QuietSyncs, IInv, QuietInv, NEW d \in Devices, StepOf(d), log' = log,
           NEW v \in wanted \cap wanted', NEW p \in Path, NEW e \in Devices, OnlyOn(v, p, e)
    PROVE  \E q \in Path : OnlyOn(v, q, e)'
<1>. TypeOK /\ [Next]_vars /\ OnlyOld /\ ScannedExactly
  BY DEF IInv, QuietInv, StepOf, Next
<1>1. ASSUME disk'[e][p] = disk[e][p] PROVE OnlyOn(v, p, e)'
  BY <1>1, SameLog DEF OnlyOn, Holds
<1>2. CASE e # d
  BY <1>1, <1>2, OthersStay DEF Same
<1>3. CASE e = d /\ (Edit(d) \/ Delete(d))
  BY <1>1, <1>3, UsersTouchTheirOwn DEF OnlyOn
<1>4. CASE e = d /\ (MergePath(d) \/ AbortInMerge(d))
  <2>0. pc[d] = "merging"
    BY <1>4, MergeWrites
  <2>1. PICK x \in todo[d] : \E t \in WithLoserSaved(d, x, Decide(d, x)) :
           /\ \A q \in Path \ {x} : disk'[d][q] = t[q]
           /\ disk'[d][x] = t[x] \/ Takes(Decide(d, x))
    BY <1>4, MergeWrites
  <2>2. PICK t \in WithLoserSaved(d, x, Decide(d, x)) :
           /\ \A q \in Path \ {x} : disk'[d][q] = t[q]
           /\ disk'[d][x] = t[x] \/ Takes(Decide(d, x))
    BY <2>1
  <2>3. x \in Path /\ disk[d][p] # NoNode /\ seen[d] \in 0 .. Len(log)
    BY <1>4 DEF OnlyOn, Holds, TypeOK
  <2>4. t[p] = disk[d][p]
    BY <2>3, LoserSavedElsewhere
  <2>5. CASE x # p \/ ~Takes(Decide(d, x))
    BY <1>1, <1>4, <2>2, <2>4, <2>5
  <2>6. CASE x = p /\ Takes(Decide(d, x))
    <3>1. local[d][p] = disk[d][p]
      BY <2>0, <2>6 DEF ScannedExactly
    <3>2. base[d][p] # local[d][p]
      BY <1>4, <3>1 DEF OnlyOn, Holds, IInv, BaseWasCommitted
    <3>3. Decide(d, p) = TakeBoth
      BY <2>3, <2>6, <3>1, <3>2, MergeEntryTable DEF Decide, Takes
    <3>4. PICK q \in Path, s \in Times, c \in Content :
              /\ Unused(q) /\ t = [disk[d] EXCEPT ![q] = [content |-> c, mtime |-> s]]
              /\ c = disk[d][p].content
      BY <2>3, <2>6, <3>3, LoserSavedCases DEF KeepBoth, TakeBoth
    <3>5. disk'[d][q] = [content |-> v, mtime |-> s]
      <4>1. q # p
        BY <2>3, <3>4 DEF Unused
      <4>2. t[q] = [content |-> v, mtime |-> s]
        BY <1>4, <3>4 DEF OnlyOn, Holds, TypeOK, Tree
      <4>3. QED
        BY <2>2, <2>6, <4>1, <4>2
    <3>6. [content |-> v, mtime |-> s] # NoNode
      BY NoNodeAssumption DEF Node, TypeOK
    <3>7. \A i \in 0 .. Len(log) : TreeAt(i)[q] = NoNode
      BY <3>4, UnusedIsNowhere
    <3>8. OnlyOn(v, q, e)'
      BY <1>4, <3>5, <3>6, <3>7, SameLog DEF OnlyOn, Holds
    <3>9. QED
      BY <3>8
  <2>7. QED
    BY <2>5, <2>6
<1>5. CASE e = d /\ ~(Edit(d) \/ Delete(d) \/ MergePath(d) \/ AbortInMerge(d))
  BY <1>1, <1>5, DiskStays
<1>6. QED
  BY <1>2, <1>3, <1>4, <1>5

\* A commit puts in the newest tree what only its device had, or leaves it where
\* it is; what it takes out of the newest tree, its merge has left in a copy.
LEMMA CommitKeepsHome ==
    ASSUME QuietSyncs, IInv, LosersKept, NEW d \in Devices,
           CommitAccepted(d) \/ CommitUnanswered(d),
           NEW v \in wanted, AtHome(v)
    PROVE  AtHome(v)'
<1>. TypeOK /\ [Next]_vars
  BY DEF IInv, Next, SyncStep
<1>1. /\ pc[d] = "merging" /\ todo[d] = {} /\ seen[d] = Len(log)
      /\ log' = Append(log, merged[d]) /\ disk' = disk /\ base' = base
      /\ pc'[d] # "merging"
      /\ \A e \in Devices \ {d} : pc'[e] = pc[e] /\ local'[e] = local[e]
  <2>1. CASE CommitAccepted(d)
    BY <2>1 DEF CommitAccepted, HeadUnmoved, TypeOK
  <2>2. CASE CommitUnanswered(d)
    BY <2>2, RestIs DEF CommitUnanswered, HeadUnmoved
  <2>3. QED
    BY <2>1, <2>2
<1>. PICK n : n = Len(log) + 1
  OBVIOUS
<1>2. /\ Len(log) \in Nat /\ Len(log') = n
      /\ HeadTree' = merged[d] /\ TreeAt(n)' = merged[d]
      /\ \A i \in 0 .. Len(log) : TreeAt(i)' = TreeAt(i)
      /\ TreeAt(seen[d]) = HeadTree
  <2>1. Len(log) \in Nat /\ Len(log') = Len(log) + 1 /\ log'[Len(log) + 1] = merged[d]
    BY <1>1 DEF TypeOK
  <2>2. \A i \in 0 .. Len(log) : TreeAt(i)' = TreeAt(i)
    BY LogPrefix
  <2>3. HeadTree' = merged[d] /\ TreeAt(n)' = merged[d]
    BY <2>1 DEF HeadTree, TreeAt
  <2>4. QED
    BY <1>1, <2>1, <2>2, <2>3 DEF HeadTree
<1>3. /\ \A i \in 0 .. Len(log') : i \in 0 .. Len(log) \/ i = n
      /\ \A i, j \in 0 .. Len(log') : i =< j /\ j \in 0 .. Len(log) => i \in 0 .. Len(log)
      /\ \A i, j \in 0 .. Len(log') : i =< j /\ i = n => j = n
  BY <1>2
<1>4. ASSUME NEW p \in Path, NEW e \in Devices, OnlyOn(v, p, e) PROVE AtHome(v)'
  <2>1. \A i \in 0 .. Len(log) : ~Holds(TreeAt(i)', p, v)
    BY <1>2, <1>4 DEF OnlyOn
  <2>2. CASE Holds(merged[d], p, v)
    <3>1. \A i, j \in 0 .. Len(log') : i =< j /\ Holds(TreeAt(i)', p, v) => TreeAt(j)'[p] = HeadTree'[p]
      <4>. SUFFICES ASSUME NEW i \in 0 .. Len(log'), NEW j \in 0 .. Len(log'),
                           i =< j, Holds(TreeAt(i)', p, v)
           PROVE  TreeAt(j)'[p] = HeadTree'[p]
        OBVIOUS
      <4>1. i = n
        BY <1>3, <2>1
      <4>2. j = n
        BY <1>3, <4>1
      <4>3. QED
        BY <1>2, <4>2
    <3>2. \A x \in Devices : ~Holds(base'[x], p, v)
      BY <1>1, <1>4 DEF IInv, BaseWasCommitted, OnlyOn
    <3>3. Settled(v, p)'
      BY <1>2, <2>2, <3>1, <3>2 DEF Settled, Holds
    <3>4. QED
      BY <3>3 DEF AtHome
  <2>3. CASE ~Holds(merged[d], p, v)
    <3>1. \A i \in 0 .. Len(log') : ~Holds(TreeAt(i)', p, v)
      <4>1. ASSUME NEW i \in 0 .. Len(log'), i = n PROVE ~Holds(TreeAt(i)', p, v)
        BY <1>2, <2>3, <4>1
      <4>2. QED
        BY <1>3, <2>1, <4>1
    <3>3. OnlyOn(v, p, e)'
      BY <1>1, <1>4, <3>1 DEF OnlyOn, Holds
    <3>4. QED
      BY <3>3 DEF AtHome
  <2>4. QED
    BY <2>2, <2>3
<1>5. ASSUME NEW p \in Path, Settled(v, p) PROVE AtHome(v)'
  <2>. DEFINE r == HeadTree[p]
  <2>1. merged[d][p] = MergedNode(base[d][p], local[d][p], r)
    BY <1>1, <1>2 DEF IInv, MergedSoFar
  <2>2. r # NoNode /\ r.content = v
    BY <1>5 DEF Settled, Holds
  <2>3. CASE merged[d][p] = r
    <3>1. \A i, j \in 0 .. Len(log') : i =< j /\ Holds(TreeAt(i)', p, v) => TreeAt(j)'[p] = HeadTree'[p]
      <4>. SUFFICES ASSUME NEW i \in 0 .. Len(log'), NEW j \in 0 .. Len(log'),
                           i =< j, Holds(TreeAt(i)', p, v)
           PROVE  TreeAt(j)'[p] = HeadTree'[p]
        OBVIOUS
      <4>1. CASE j = n
        BY <1>2, <4>1
      <4>2. CASE j \in 0 .. Len(log)
        <5>1. i \in 0 .. Len(log)
          BY <1>3, <4>2
        <5>2. TreeAt(i)' = TreeAt(i) /\ TreeAt(j)' = TreeAt(j)
          BY <1>2, <4>2, <5>1
        <5>3. TreeAt(j)[p] = r
          BY <1>5, <4>2, <5>1, <5>2 DEF Settled
        <5>4. QED
          BY <1>2, <2>3, <5>2, <5>3
      <4>3. QED
        BY <1>3, <4>1, <4>2
    <3>2. \A e \in Devices : Holds(base'[e], p, v) =>
             /\ disk'[e][p] = base'[e][p]
             /\ pc'[e] = "merging" => local'[e][p] = base'[e][p]
      BY <1>1, <1>5 DEF Settled
    <3>3. Settled(v, p)'
      BY <1>2, <2>2, <2>3, <3>1, <3>2 DEF Settled, Holds
    <3>4. QED
      BY <3>3 DEF AtHome
  <2>4. CASE merged[d][p] # r
    <3>1. Decide(d, p) \in {Keep, KeepBoth} /\ local[d][p] # r
      BY <1>2, <2>1, <2>4 DEF MergedNode, Decide
    <3>2. base[d][p] # r
      <4>1. ASSUME base[d][p] = r PROVE FALSE
        <5>1. Holds(base[d], p, v)
          BY <2>2, <4>1 DEF Holds
        <5>2. QED
          BY <1>1, <1>5, <3>1, <4>1, <5>1 DEF Settled
      <4>2. QED
        BY <4>1
    <3>3. Decide(d, p) = KeepBoth
      BY <1>2, <2>2, <3>1, <3>2 DEF Decide, MergeEntry, Keep, Take, KeepBoth, TakeBoth
    <3>4. PICK q \in Path : OnlyOn(v, q, d)
      BY <1>1, <2>2, <3>3 DEF LosersKept
    <3>5. QED
      BY <1>4, <3>4
  <2>5. QED
    BY <2>3, <2>4
<1>6. QED
  BY <1>4, <1>5 DEF AtHome

\* A new content is on the disk of the device where its user wrote it, only.
LEMMA NewIsAtHome ==
    ASSUME IInv, OnlyOld, NEW d \in Devices, StepOf(d), NEW v \in wanted', v \notin wanted
    PROVE  AtHome(v)' /\ log' = log /\ v = edits + 1
<1>. TypeOK /\ edits \in Int
  BY BoundsAssumption DEF IInv, TypeOK
<1>1. CASE Edit(d)
  <2>1. PICK x \in Names, s \in Times :
           /\ disk' = [disk EXCEPT ![d][x] = [content |-> edits + 1, mtime |-> s]]
           /\ UserMayAct(d) /\ UserTouches(d, x, {edits + 1})
    BY <1>1 DEF Edit
  <2>2. v = edits + 1 /\ log' = log /\ edits + 1 \in Content
    BY <2>1, BoundsAssumption DEF UserTouches, UserMayAct, TypeOK, Content
  <2>3. [content |-> v, mtime |-> s] # NoNode /\ x \in Path
    BY <2>2, NoNodeAssumption, PathAssumption DEF Node
  <2>4. Holds(disk'[d], x, v)
    BY <2>1, <2>2, <2>3 DEF Holds, TypeOK, Tree
  <2>5. \A i \in 0 .. Len(log) : ~Holds(TreeAt(i), x, v)
    BY <2>2, <2>3, TreeAtIsATree, Contents DEF OnlyOld, Old, Holds
  <2>6. OnlyOn(v, x, d)'
    BY <2>2, <2>4, <2>5, SameLog DEF OnlyOn, Holds
  <2>7. QED
    BY <2>2, <2>3, <2>6 DEF AtHome
<1>2. CASE ~Edit(d)
  BY <1>2 DEF StepOf, SyncStep, Delete, UserTouches, Scan, FetchHead, MergePath, Settle, CommitAccepted,
       CommitConflict, RebuildCache, SetLastRoot, Abort, AbortInMerge, CommitUnanswered, aux
<1>3. QED
  BY <1>1, <1>2

LEMMA NextWantedAtHome ==
    ASSUME QuietSyncs, IInv, QuietInv, HomeInv, NEW d \in Devices, StepOf(d)
    PROVE  WantedAtHome'
<1>. SUFFICES ASSUME NEW v \in wanted' PROVE AtHome(v)'
  BY DEF WantedAtHome
<1>. OnlyOld
  BY DEF QuietInv
<1>1. CASE v \notin wanted
  BY <1>1, NewIsAtHome
<1>2. CASE v \in wanted /\ log' = log
  <2>1. AtHome(v)
    BY <1>2 DEF HomeInv, WantedAtHome
  <2>2. ASSUME NEW p \in Path, Settled(v, p) PROVE AtHome(v)'
    BY <1>2, <2>2, SettledStays DEF AtHome
  <2>3. ASSUME NEW p \in Path, NEW e \in Devices, OnlyOn(v, p, e) PROVE AtHome(v)'
    <3>1. PICK q \in Path : OnlyOn(v, q, e)'
      BY <1>2, <2>3, OnlyOnStays
    <3>2. QED
      BY <3>1 DEF AtHome
  <2>4. QED
    BY <2>1, <2>2, <2>3 DEF AtHome
<1>3. CASE v \in wanted /\ log' # log
  <2>1. CommitAccepted(d) \/ CommitUnanswered(d)
    BY <1>3 DEF StepOf, SyncStep, Edit, Delete, UserTouches, Scan, FetchHead, MergePath, Settle,
       CommitConflict, RebuildCache, SetLastRoot, Abort, AbortInMerge
  <2>2. QED
    BY <1>3, <2>1, CommitKeepsHome DEF HomeInv, WantedAtHome
<1>4. QED
  BY <1>1, <1>2, <1>3

LEMMA NextLosersKept ==
    ASSUME QuietSyncs, IInv, QuietInv, HomeInv, NEW d \in Devices, StepOf(d)
    PROVE  LosersKept'
<1>. SUFFICES ASSUME NEW e \in Devices, NEW p \in Path,
                     pc'[e] = "merging", seen'[e] = Len(log'), p \notin todo'[e],
                     Decide(e, p)' = KeepBoth, HeadTree'[p].content \in wanted'
     PROVE  (\E q \in Path : OnlyOn(HeadTree[p].content, q, e))'
  BY DEF LosersKept
<1>0. TypeOK /\ [Next]_vars /\ OnlyOld /\ ScannedExactly /\ seen[e] \in 0 .. Len(log)
  BY DEF IInv, QuietInv, StepOf, Next, TypeOK
<1>1. log' = log
  <2>1. CASE CommitAccepted(d) \/ CommitUnanswered(d)
    <3>1. pc'[d] # "merging" /\ log' = Append(log, merged[d])
      BY <1>0, <2>1, RestIs DEF CommitAccepted, CommitUnanswered, TypeOK
    <3>2. seen'[e] = seen[e] /\ Len(log) \in Nat /\ Len(log') = Len(log) + 1
      BY <1>0, <3>1, OthersStay, AppendType DEF Same, TypeOK
    <3>3. seen[e] = Len(log) + 1
      BY <3>2
    <3>4. QED
      BY <1>0, <3>2, <3>3
  <2>2. CASE ~(CommitAccepted(d) \/ CommitUnanswered(d))
    BY <2>2 DEF StepOf, SyncStep, Edit, Delete, UserTouches, Scan, FetchHead, MergePath, Settle,
       CommitConflict, RebuildCache, SetLastRoot, Abort, AbortInMerge
  <2>3. QED
    BY <2>1, <2>2
<1>2. HeadTree' = HeadTree /\ Len(log') = Len(log) /\ \A i : TreeAt(i)' = TreeAt(i)
  BY <1>1, SameLog
<1>3. TreeAt(seen[e])' = HeadTree
  BY <1>1 DEF TreeAt, HeadTree
<1>. PICK v : v = HeadTree[p].content
  OBVIOUS
<1>. SUFFICES \E q \in Path : OnlyOn(v, q, e)'
  BY <1>2 DEF OnlyOn, Holds
<1>4. HeadTree[p] # NoNode /\ v \in wanted'
  BY <1>2, <1>3, MergeEntryTable DEF Decide
<1>5. v \in wanted
  <2>1. v =< edits /\ v \in Int /\ edits \in Int
    <3>1. HeadTree = TreeAt(Len(log)) /\ Len(log) \in 0 .. Len(log)
      BY <1>0 DEF HeadTree, TypeOK
    <3>2. HeadTree \in Tree /\ Old(HeadTree)
      BY <1>0, <3>1, TreeAtIsATree DEF OnlyOld
    <3>3. v =< edits /\ v \in Int
      BY <1>0, <1>4, <3>2, Contents DEF Old
    <3>4. edits \in Int
      BY <1>0, BoundsAssumption DEF TypeOK
    <3>5. QED
      BY <3>3, <3>4
  <2>2. QED
    BY <1>0, <1>4, <2>1, NewIsAtHome
<1>6. ASSUME pc[e] = "merging", seen[e] = Len(log), p \notin todo[e],
             base'[e] = base[e], local'[e] = local[e]
      PROVE  \E q \in Path : OnlyOn(v, q, e)'
  <2>1. Decide(e, p) = KeepBoth
    BY <1>2, <1>3, <1>6 DEF Decide, HeadTree
  <2>2. PICK q \in Path : OnlyOn(v, q, e)
    BY <1>5, <1>6, <2>1 DEF HomeInv, LosersKept
  <2>3. QED
    BY <1>1, <1>4, <1>5, <2>2, OnlyOnStays
<1>7. CASE e # d
  BY <1>2, <1>6, <1>7, OthersStay DEF Same
<1>8. CASE e = d /\ FetchHead(d)
  <2>1. /\ base'[d][p] = NoNode /\ local'[d][p] = NoNode
    BY <1>0, <1>8 DEF FetchHead, Present, TypeOK
  <2>2. QED
    BY <1>8, <2>1, MergeEntryTable DEF Decide
<1>9. CASE e = d /\ MergePath(d)
  <2>1. PICK x \in todo[d] :
           /\ pc[d] = "merging" /\ base' = base /\ local' = local /\ seen' = seen
           /\ todo'[d] = todo[d] \ {x}
           /\ \E t \in WithLoserSaved(d, x, Decide(d, x)) :
                disk' = [disk EXCEPT ![d] = IF Takes(Decide(d, x))
                            THEN [t EXCEPT ![x] = Materialised(TreeAt(seen[d])[x])] ELSE t]
    BY <1>0, <1>9 DEF MergePath, TypeOK
  <2>2. CASE p \notin todo[d]
    BY <1>2, <1>6, <1>9, <2>1, <2>2
  <2>3. CASE p = x
    <3>1. TreeAt(seen[d]) = HeadTree /\ Decide(d, x) = KeepBoth
      BY <1>2, <1>3, <1>9, <2>1, <2>3 DEF Decide
    <3>2. PICK t \in WithLoserSaved(d, x, Decide(d, x)) : disk'[d] = t
      BY <1>0, <2>1, <3>1 DEF Takes, Take, TakeBoth, KeepBoth, TypeOK
    <3>3. PICK q \in Path, s \in Times, c \in Content :
              Unused(q) /\ t = [disk[d] EXCEPT ![q] = [content |-> c, mtime |-> s]] /\ c = v
      BY <1>0, <1>9, <2>3, <3>1, LoserSavedCases DEF TakeBoth, KeepBoth
    <3>4. disk'[d][q] = [content |-> v, mtime |-> s] /\ [content |-> v, mtime |-> s] # NoNode
      BY <1>0, <3>2, <3>3, NoNodeAssumption DEF TypeOK, Tree, Node
    <3>5. \A i \in 0 .. Len(log) : TreeAt(i)[q] = NoNode
      BY <3>3, UnusedIsNowhere
    <3>6. OnlyOn(v, q, d)'
      BY <1>2, <3>4, <3>5 DEF OnlyOn, Holds
    <3>7. QED
      BY <1>2, <1>9, <3>6
  <2>4. QED
    BY <1>9, <2>1, <2>2, <2>3
<1>10. CASE e = d /\ (Edit(d) \/ Delete(d))
  BY <1>0, <1>2, <1>6, <1>10, UsersTouchTheirOwn
<1>11. CASE e = d /\ ~(Edit(d) \/ Delete(d) \/ MergePath(d) \/ FetchHead(d))
  <2>1. pc'[d] # "merging"
    <3>1. CASE Scan(d) \/ Settle(d) \/ CommitAccepted(d) \/ RebuildCache(d)
      BY <1>0, <3>1 DEF Scan, Settle, CommitAccepted, RebuildCache, TypeOK
    <3>2. CASE CommitConflict(d)
      BY <1>0, <3>2, RestIs DEF CommitConflict, TypeOK
    <3>3. CASE SetLastRoot(d) \/ Abort(d) \/ AbortInMerge(d) \/ CommitUnanswered(d)
      BY <1>0, <3>3, RestIs DEF SetLastRoot, Abort, AbortInMerge, CommitUnanswered
    <3>4. QED
      BY <1>11, <3>1, <3>2, <3>3 DEF StepOf, SyncStep
  <2>2. QED
    BY <1>11, <2>1
<1>12. QED
  BY <1>7, <1>8, <1>9, <1>10, <1>11

-----------------------------------------------------------------------------
SurviveInv == IInv /\ QuietInv /\ HomeInv

LEMMA InitSurvive == Init => QuietInv /\ HomeInv
<1>. SUFFICES ASSUME Init PROVE QuietInv /\ HomeInv
  OBVIOUS
<1>1. PICK t \in FirstTrees :
        /\ log = IF t = EmptyTree THEN <<>> ELSE <<t>>
        /\ disk = [d \in Devices |-> t] /\ base = [d \in Devices |-> t]
        /\ local = [d \in Devices |-> EmptyTree] /\ merged = [d \in Devices |-> EmptyTree]
        /\ pc = [d \in Devices |-> "idle"]
        /\ wanted = ContentOf(t) /\ edits = 0
  BY DEF Init
<1>2. \A p \in Path : t[p] # NoNode => t[p].content = Original
  BY NoNodeAssumption, <1>1 DEF FirstTrees
<1>3. HeadTree = t /\ \A i \in 0 .. Len(log) : TreeAt(i) \in {t, EmptyTree}
  BY <1>1 DEF HeadTree, TreeAt
<1>4. \A p \in Path : EmptyTree[p] = NoNode
  BY DEF EmptyTree
<1>5. ScannedExactly /\ BaseSeen /\ LosersKept
  BY <1>1 DEF ScannedExactly, BaseSeen, LosersKept
<1>6. Old(t) /\ Old(EmptyTree)
  BY <1>1, <1>2, <1>4 DEF Old, Original
<1>7. OnlyOld
  BY <1>1, <1>3, <1>6 DEF OnlyOld
<1>8. ASSUME NEW v \in wanted PROVE AtHome(v)
  <2>1. PICK p \in Path : t[p] # NoNode /\ t[p].content = v
    BY <1>1 DEF ContentOf, Present
  <2>2. Len(log) \in {0, 1} /\ TreeAt(Len(log)) = t
    BY <1>1, <1>3 DEF HeadTree
  <2>3. \A i, j \in 0 .. Len(log) : i =< j /\ Holds(TreeAt(i), p, v) => TreeAt(j)[p] = HeadTree[p]
    <3>. SUFFICES ASSUME NEW i \in 0 .. Len(log), NEW j \in 0 .. Len(log), i =< j, Holds(TreeAt(i), p, v)
         PROVE  TreeAt(j)[p] = HeadTree[p]
      OBVIOUS
    <3>1. CASE j = Len(log)
      BY <1>3, <2>2, <3>1
    <3>2. CASE j # Len(log)
      BY <1>4, <2>2, <3>2 DEF TreeAt, Holds
    <3>3. QED
      BY <3>1, <3>2
  <2>4. Settled(v, p)
    BY <1>1, <1>3, <2>1, <2>3 DEF Settled, Holds
  <2>5. QED
    BY <2>4 DEF AtHome
<1>9. QED
  BY <1>5, <1>7, <1>8 DEF QuietInv, HomeInv, WantedAtHome

LEMMA NextSurvive ==
    ASSUME QuietSyncs
    PROVE  SurviveInv /\ [Next]_vars => SurviveInv'
<1>. SUFFICES ASSUME SurviveInv, [Next]_vars PROVE SurviveInv'
  OBVIOUS
<1>1. IInv'
  BY NextIInv DEF SurviveInv
<1>2. CASE UNCHANGED vars
  <2>1. UNCHANGED <<log, disk, base, pc, seen, local, todo, merged, edits, wanted>>
    BY <1>2 DEF vars, transient, aux
  <2>2. \A i : TreeAt(i)' = TreeAt(i)
    BY <2>1, SameLog
  <2>3. QuietInv'
    BY <2>1, <2>2 DEF SurviveInv, QuietInv, ScannedExactly, BaseSeen, OnlyOld, Old, TreeAt
  <2>4. HomeInv'
    BY <2>1, <2>2 DEF SurviveInv, HomeInv, WantedAtHome, AtHome, Settled, OnlyOn, Holds, LosersKept, Decide,
                TreeAt, HeadTree
  <2>5. QED
    BY <1>1, <2>3, <2>4 DEF SurviveInv
<1>3. ASSUME NEW d \in Devices, StepOf(d) PROVE SurviveInv'
  BY <1>1, <1>3, NextScannedExactly, NextBaseSeen, NextOnlyOld, NextWantedAtHome, NextLosersKept
     DEF SurviveInv, QuietInv, HomeInv
<1>4. QED
  BY <1>2, <1>3 DEF Next, StepOf

\* README: "A losing edit is never discarded". While no user touches a device
\* during its own sync, every content a user wrote and none has taken away is
\* on a device or in the newest tree, through every race of commits, lost
\* answer, torn write and restart.
THEOREM EditsAlwaysSurvive ==
    ASSUME QuietSyncs
    PROVE  Spec => []EditsSurvive
<1>1. SurviveInv => EditsSurvive
  <2>. SUFFICES ASSUME SurviveInv, NEW v \in wanted
       PROVE  \/ \E d \in Devices : v \in ContentOf(disk[d])
              \/ v \in ContentOf(HeadTree)
    BY DEF EditsSurvive
  <2>1. AtHome(v)
    BY DEF SurviveInv, HomeInv, WantedAtHome
  <2>2. QED
    BY <2>1 DEF AtHome, Settled, OnlyOn, Holds, ContentOf, Present
<1>2. Init => SurviveInv
  BY InitIInv, InitSurvive DEF SurviveInv
<1>3. QED
  BY <1>1, <1>2, NextSurvive, PTL DEF Spec

-----------------------------------------------------------------------------
(***************************************************************************)
(* The devices are clients of VaultLog: each step is a step of the log     *)
(* under the mapping of Log, or none.                                      *)
(***************************************************************************)
HasSeen(d) == IF pc[d] = "merging" THEN seen[d] ELSE -1
AllSeen    == [d \in Devices |-> HasSeen(d)]

\* A step of a device that leaves the log alone, and is not merging after it
\* or was before and is with the same head, is a client's starting over.
LEMMA LeavesTheLog ==
    ASSUME IInv, NEW d \in Devices, StepOf(d), log' = log,
           pc'[d] # "merging" \/ (pc'[d] = pc[d] /\ seen'[d] = seen[d])
    PROVE  [Log!ClientNext]_Log!vars
<1>1. \A e \in Devices \ {d} : HasSeen(e)' = HasSeen(e)
  BY OthersStay DEF HasSeen, Same
<1>2. CASE pc'[d] # "merging"
  <2>1. AllSeen' = [e \in Devices |-> IF e \in {d} THEN -1 ELSE AllSeen[e]]
    BY <1>1, <1>2 DEF AllSeen, HasSeen
  <2>2. Log!StartOver
    BY <2>1 DEF Log!StartOver, AllSeen, HasSeen
  <2>3. QED
    BY <2>2 DEF Log!ClientNext
<1>3. CASE pc'[d] = pc[d] /\ seen'[d] = seen[d]
  <2>1. AllSeen' = AllSeen
    BY <1>1, <1>3 DEF AllSeen, HasSeen
  <2>2. QED
    BY <2>1 DEF Log!vars, AllSeen, HasSeen
<1>4. QED
  BY <1>2, <1>3

LEMMA ReadsTheLog ==
    ASSUME IInv, NEW d \in Devices, FetchHead(d)
    PROVE  Log!ClientNext
<1>1. \A e \in Devices \ {d} : HasSeen(e)' = HasSeen(e)
  BY OthersStay DEF HasSeen, Same, StepOf, SyncStep
<1>2. HasSeen(d)' = Len(log) /\ log' = log
  BY DEF FetchHead, HasSeen, IInv, TypeOK
<1>3. AllSeen' = [AllSeen EXCEPT ![d] = Len(log)]
  BY <1>1, <1>2 DEF AllSeen
<1>4. Log!Read(d)
  BY <1>2, <1>3 DEF Log!Read, AllSeen, HasSeen
<1>5. QED
  BY <1>4 DEF Log!ClientNext

LEMMA ExtendsTheLog ==
    ASSUME IInv, NEW d \in Devices, CommitAccepted(d) \/ CommitUnanswered(d)
    PROVE  Log!ClientNext
<1>1. /\ pc[d] = "merging" /\ seen[d] = Len(log)
      /\ log' = Append(log, merged[d])
  BY DEF CommitAccepted, CommitUnanswered, HeadUnmoved
<1>2. pc'[d] # "merging"
  BY RestIs DEF CommitAccepted, CommitUnanswered, IInv, TypeOK
<1>3. \A e \in Devices \ {d} : HasSeen(e)' = HasSeen(e)
  BY OthersStay DEF HasSeen, Same, StepOf, SyncStep
<1>4. AllSeen' = [AllSeen EXCEPT ![d] = -1]
  BY <1>2, <1>3 DEF AllSeen, HasSeen
<1>5. Log!Extended
  <2>1. log \in Seq(Tree) /\ merged[d] \in Tree
    BY DEF IInv, TypeOK
  <2>2. Len(log') = Len(log) + 1 /\ log'[Len(log')] = merged[d] /\ log' # <<>>
    BY <1>1, <2>1
  <2>3. QED
    BY <1>1, <2>1, <2>2 DEF Log!Extended
<1>6. Log!Push(d)
  BY <1>1, <1>4, <1>5 DEF Log!Push, AllSeen, HasSeen
<1>7. QED
  BY <1>6 DEF Log!ClientNext

LEMMA StepKeepsTheLog ==
    ASSUME IInv, NEW d \in Devices, StepOf(d)
    PROVE  [Log!ClientNext]_Log!vars
<1>. TypeOK
  BY DEF IInv
<1>1. CASE FetchHead(d)
  BY <1>1, ReadsTheLog
<1>2. CASE CommitAccepted(d) \/ CommitUnanswered(d)
  BY <1>2, ExtendsTheLog
<1>3. CASE Edit(d) \/ Delete(d)
  <2>1. log' = log /\ pc' = pc /\ seen' = seen
    BY <1>3 DEF Edit, Delete, UserTouches, transient
  <2>2. QED
    BY <2>1, LeavesTheLog
<1>4. CASE MergePath(d)
  <2>1. log' = log /\ pc' = pc /\ seen' = seen
    BY <1>4 DEF MergePath
  <2>2. QED
    BY <2>1, LeavesTheLog
<1>5. CASE Scan(d) \/ Settle(d) \/ RebuildCache(d)
  <2>1. log' = log /\ pc'[d] # "merging"
    BY <1>5 DEF Scan, Settle, RebuildCache, TypeOK
  <2>2. QED
    BY <2>1, LeavesTheLog
<1>6. CASE CommitConflict(d)
  <2>1. log' = log
    BY <1>6 DEF CommitConflict
  <2>2. pc'[d] # "merging"
    <3>1. CASE MayRetry(d)
      BY <1>6, <3>1 DEF CommitConflict, TypeOK
    <3>2. CASE ~MayRetry(d)
      BY <1>6, <3>2, RestIs DEF CommitConflict
    <3>3. QED
      BY <3>1, <3>2
  <2>3. QED
    BY <2>1, <2>2, LeavesTheLog
<1>7. CASE SetLastRoot(d) \/ Abort(d) \/ AbortInMerge(d)
  <2>1. log' = log /\ Rest(d)
    BY <1>7 DEF SetLastRoot, Abort, AbortInMerge
  <2>2. pc'[d] # "merging"
    BY <2>1, RestIs
  <2>3. QED
    BY <2>1, <2>2, LeavesTheLog
<1>8. QED
  BY <1>1, <1>2, <1>3, <1>4, <1>5, <1>6, <1>7 DEF StepOf, SyncStep

\* The devices implement the clients of VaultLog, which VaultServer implements
\* from the other side (ServerImplementsLog): what one assumes of a vault the
\* other keeps. DESIGN.md, "Concurrency": a commit over a head that has moved
\* is answered with a conflict, and the device starts over from the new head.
\* ClientSpec has no step but a Push that extends the log, so every tree added
\* is the commit of a device that had read the head it replaces and not pushed,
\* failed or lost an answer since.
THEOREM DevicesFollowLog == Spec => KeepsTheLog
<1>1. Init => Log!Init
  <2>. SUFFICES ASSUME Init PROVE Log!Init
    OBVIOUS
  <2>1. TypeOK
    BY InitTypeOK
  <2>2. \A d \in Devices : HasSeen(d) = -1
    BY DEF Init, HasSeen
  <2>3. QED
    BY <2>1, <2>2 DEF Log!Init, HasSeen, TypeOK
<1>2. IInv /\ [Next]_vars => [Log!ClientNext]_Log!vars
  <2>. SUFFICES ASSUME IInv, [Next]_vars PROVE [Log!ClientNext]_Log!vars
    OBVIOUS
  <2>1. CASE UNCHANGED vars
    BY <2>1 DEF vars, transient, Log!vars
  <2>2. ASSUME NEW d \in Devices, StepOf(d) PROVE [Log!ClientNext]_Log!vars
    BY <2>2, StepKeepsTheLog
  <2>3. QED
    BY <2>1, <2>2 DEF Next, StepOf
<1>3. QED
  BY <1>1, <1>2, SpecIInv, PTL DEF Spec, KeepsTheLog, Log!ClientSpec

=============================================================================
