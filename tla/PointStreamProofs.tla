-------------------------- MODULE PointStreamProofs --------------------------
(***************************************************************************)
(* Proofs about the console stream, for a cache of any size, any traffic   *)
(* and any number of publications.                                         *)
(***************************************************************************)
EXTENDS PointStream, PointsProofs, SequenceTheorems

(***************************************************************************)
(* The inductive invariant                                                 *)
(***************************************************************************)

\* The point that the cache thread has merged and not yet done with.
InHand == thread.pc # "wait"

\* Contents grow along the path of a point: what waits in the queue is newer than
\* what has been merged, and the queue is in order of publication.
QueueInOrder ==
  /\ \A j \in DOMAIN queue : queue[j].val \in 1..publishes
  /\ \A j, k \in DOMAIN queue : j < k => queue[j].val < queue[k].val

Passed(v, qu, n) == v \in 0..n /\ \A j \in DOMAIN qu : v < qu[j].val

MergedIsOlder ==
  /\ \A i \in Ids : Passed(view[i], queue, publishes)
  /\ \A q \in Visible(cache) : Passed(q.val, queue, publishes)
  /\ InHand => Passed(thread.p.val, queue, publishes)

\* The point in hand is the newest of all that was merged, and the cache has no
\* other value of its identity.
HandIsNewest ==
  InHand =>
    /\ \A i \in Ids : view[i] <= thread.p.val
    /\ \A q \in Visible(cache) : q.val <= thread.p.val
    /\ \A q \in Visible(cache) : Id(q) = Id(thread.p) => q = thread.p

\* The host is never ahead of the cache.
HostBehindCache == \A q \in Visible(cache) : view[Id(q)] <= q.val

\* A dump has brought the host up to date with the slots that it has passed.
DumpedSoFar ==
  \A j \in Slots : j < shell /\ Named(cache[j]) /\ Known(cache[j])
                     => view[Id(cache[j])] = cache[j].val

\* A host in sync lacks nothing but the point that is about to be streamed.
SyncedButForHand ==
  synced => /\ streaming
            /\ \A q \in Visible(cache) : view[Id(q)] = q.val \/ (InHand /\ q = thread.p)

IInv ==
  /\ TypeOK
  /\ Unique(cache)
  /\ QueueInOrder
  /\ MergedIsOlder
  /\ HandIsNewest
  /\ HostBehindCache
  /\ DumpedSoFar
  /\ SyncedButForHand

\* Without a step of the cache, the queue, the hand or the view, nothing changes.
LEMMA Undisturbed ==
  ASSUME IInv, UNCHANGED <<cache, queue, thread, publishes, view>>
  PROVE  /\ Unique(cache)' /\ QueueInOrder' /\ MergedIsOlder' /\ HandIsNewest'
         /\ HostBehindCache'
BY DEF IInv, QueueInOrder, MergedIsOlder, Passed, HandIsNewest, InHand, HostBehindCache

\* What is readable of the cache has an identity that the host knows.
LEMMA VisibleTyped ==
  ASSUME NEW a \in [Slots -> Point], NEW q \in Visible(a)
  PROVE  q \in Point /\ Named(q) /\ Known(q) /\ Id(q) \in Ids /\ q.val \in Values
BY DEF Visible, Point, Named, Id, Ids

(***************************************************************************)
(* Each step preserves it                                                  *)
(***************************************************************************)

\* A point is published behind those that wait, and is newer than all.
LEMMA PublishKeeps ==
  ASSUME IInv, NEW p \in Traffic, Publish(p)
  PROVE  IInv'
<1> DEFINE new == [p EXCEPT !.val = publishes + 1]
<1>1. /\ publishes \in Nat /\ publishes' = publishes + 1
      /\ publishes' \in 0..MaxPublishes /\ publishes' \in Values
  BY StreamAssumption DEF Publish, IInv, TypeOK
<1>2. new \in Point /\ new.val = publishes'
  BY <1>1, StreamAssumption DEF Point
<1>3. /\ queue \in Seq(Point) /\ queue' \in Seq(Point)
      /\ Len(queue') = Len(queue) + 1 /\ Len(queue) \in Nat
      /\ DOMAIN queue = 1..Len(queue) /\ DOMAIN queue' = 1..Len(queue')
      /\ \A j \in 1..Len(queue) : queue'[j] = queue[j]
      /\ queue'[Len(queue) + 1] = new
  BY <1>2, AppendProperties, LenProperties DEF Publish, IInv, TypeOK
<1>4. TypeOK'
  BY <1>1, <1>3 DEF Publish, IInv, TypeOK
<1> HIDE DEF new
<1>5. QueueInOrder'
  <2>1. \A j \in DOMAIN queue' : \/ j \in DOMAIN queue /\ queue'[j] = queue[j]
                                 \/ j = Len(queue) + 1 /\ queue'[j].val = publishes'
    <3>1. \A j \in DOMAIN queue' : j \in 1..Len(queue) \/ j = Len(queue) + 1
      BY <1>3
    <3>2. QED
      BY <1>2, <1>3, <3>1
  <2>2. \A j \in DOMAIN queue' : queue'[j].val \in 1..publishes'
    BY <1>1, <2>1 DEF IInv, QueueInOrder
  <2>3. ASSUME NEW j \in DOMAIN queue', NEW k \in DOMAIN queue', j < k
        PROVE  queue'[j].val < queue'[k].val
    BY <1>1, <1>3, <2>1, <2>3 DEF IInv, QueueInOrder
  <2>4. QED
    BY <2>2, <2>3 DEF QueueInOrder
<1>6. ASSUME NEW v, Passed(v, queue, publishes) PROVE Passed(v, queue', publishes')
  <2>1. v \in 0..publishes /\ \A j \in 1..Len(queue) : v < queue[j].val
    BY <1>3, <1>6 DEF Passed
  <2>2. v < publishes' /\ v \in 0..publishes'
    BY <1>1, <2>1
  <2>3. ASSUME NEW j \in DOMAIN queue' PROVE v < queue'[j].val
    <3>1. j \in 1..Len(queue) \/ j = Len(queue) + 1
      BY <1>3
    <3>2. QED
      BY <1>2, <1>3, <2>1, <2>2, <3>1
  <2>4. QED
    BY <2>2, <2>3 DEF Passed
<1>7. MergedIsOlder'
  BY <1>6 DEF MergedIsOlder, IInv, Publish, InHand
<1>8. Unique(cache)' /\ HandIsNewest' /\ HostBehindCache' /\ DumpedSoFar' /\ SyncedButForHand'
  BY DEF IInv, Publish, HandIsNewest, InHand, HostBehindCache, DumpedSoFar, SyncedButForHand
<1>9. QED
  BY <1>4, <1>5, <1>7, <1>8 DEF IInv

\* The cache thread takes the oldest point that waits, which is newer than all
\* that the cache and the host have.
LEMMA CacheMergeKeeps ==
  ASSUME IInv, CacheMerge
  PROVE  IInv'
<1> DEFINE p == Head(queue)
           q == Normalised(p)
<1>1. /\ Size \in Nat /\ Slots = 1..Size /\ cache \in [1..Size -> Point] /\ Unique(cache)
      /\ cache' = Merged(cache, p) /\ view' = view /\ publishes' = publishes
      /\ thread' = [pc |-> "merged", p |-> q] /\ thread.pc = "wait" /\ shell = 0 /\ shell' = 0
  BY StreamAssumption DEF CacheMerge, Locked, IInv, TypeOK, Slots
<1>2. /\ queue \in Seq(Point) /\ queue # <<>> /\ p = queue[1] /\ p \in Point
      /\ queue' \in Seq(Point) /\ Len(queue) \in Nat \ {0} /\ Len(queue') = Len(queue) - 1
      /\ DOMAIN queue = 1..Len(queue) /\ DOMAIN queue' = 1..Len(queue')
      /\ \A j \in DOMAIN queue' : queue'[j] = queue[j + 1]
  BY HeadTailProperties, LenProperties, EmptySeq DEF CacheMerge, IInv, TypeOK
<1>3. q \in Point /\ q.val = p.val
  BY <1>2, NormalisedPoint DEF Normalised, Point
<1>4. cache' \in [1..Size -> Point] /\ Unique(cache')
  BY <1>1, <1>2, MergedUnique
<1>5. TypeOK'
  BY <1>1, <1>2, <1>3, <1>4 DEF CacheMerge, IInv, TypeOK
<1>6. \A j \in DOMAIN queue' : j + 1 \in DOMAIN queue /\ 1 \in DOMAIN queue /\ 1 < j + 1
  BY <1>2
<1>7. QueueInOrder'
  <2>1. \A j \in DOMAIN queue' : queue'[j].val \in 1..publishes'
    BY <1>1, <1>2, <1>6 DEF IInv, QueueInOrder
  <2>2. ASSUME NEW j \in DOMAIN queue', NEW k \in DOMAIN queue', j < k
        PROVE  queue'[j].val < queue'[k].val
    <3>1. j + 1 < k + 1
      BY <1>2, <2>2
    <3>2. QED
      BY <1>2, <1>6, <3>1 DEF IInv, QueueInOrder
  <2>3. QED
    BY <2>1, <2>2 DEF QueueInOrder
<1>8. ASSUME NEW v, Passed(v, queue, publishes) PROVE Passed(v, queue', publishes') /\ v < p.val /\ v \in Nat
  <2>1. 1 \in DOMAIN queue /\ v \in 0..publishes /\ publishes \in Nat
    BY <1>2, <1>8 DEF Passed, IInv, TypeOK
  <2>2. QED
    BY <1>1, <1>2, <1>6, <1>8, <2>1 DEF Passed
<1>9. Passed(q.val, queue', publishes')
  <2>1. 1 \in DOMAIN queue /\ publishes \in Nat
    BY <1>2 DEF IInv, TypeOK
  <2>2. p.val \in 1..publishes
    BY <1>2, <2>1 DEF IInv, QueueInOrder
  <2>3. \A j \in DOMAIN queue' : p.val < queue'[j].val
    BY <1>2, <1>6 DEF IInv, QueueInOrder
  <2>4. QED
    BY <1>1, <1>3, <2>1, <2>2, <2>3 DEF Passed
<1>10. \A r \in Visible(cache') : \/ r = q
                                  \/ r \in Visible(cache) /\ Id(r) # Id(q)
  BY <1>1, <1>2, VisibleAfterMerge
<1>11. p.val \in Nat
  BY <1>2 DEF IInv, QueueInOrder
<1>12. MergedIsOlder'
  <2>1. \A i \in Ids : Passed(view'[i], queue', publishes')
    BY <1>1, <1>8 DEF IInv, MergedIsOlder
  <2>2. \A r \in Visible(cache') : Passed(r.val, queue', publishes')
    BY <1>8, <1>9, <1>10 DEF IInv, MergedIsOlder
  <2>3. QED
    BY <1>1, <1>9, <2>1, <2>2 DEF MergedIsOlder
<1>13. HandIsNewest'
  <2>1. \A i \in Ids : view'[i] <= q.val
    BY <1>1, <1>3, <1>8, <1>11 DEF IInv, MergedIsOlder
  <2>2. \A r \in Visible(cache') : r.val <= q.val
    BY <1>3, <1>8, <1>10, <1>11 DEF IInv, MergedIsOlder
  <2>3. QED
    BY <1>1, <1>10, <2>1, <2>2 DEF HandIsNewest
<1>14. HostBehindCache'
  <2>1. \A r \in Visible(cache') : Id(r) \in Ids
    BY <1>1, <1>4, VisibleTyped
  <2>2. ASSUME NEW r \in Visible(cache') PROVE view'[Id(r)] <= r.val
    <3>1. CASE r = q
      BY <1>1, <1>3, <1>8, <1>11, <2>1, <3>1 DEF IInv, MergedIsOlder
    <3>2. CASE r \in Visible(cache)
      BY <1>1, <3>2 DEF IInv, HostBehindCache
    <3>3. QED
      BY <1>10, <3>1, <3>2
  <2>3. QED
    BY <2>2 DEF HostBehindCache
<1>15. DumpedSoFar'
  BY <1>1 DEF DumpedSoFar, Slots
<1>16. SyncedButForHand'
  <2>1. synced' = synced /\ streaming' = streaming
    BY DEF CacheMerge
  <2>2. thread'.p = q /\ InHand'
    BY <1>1 DEF InHand
  <2>3. ~InHand
    BY <1>1 DEF InHand
  <2>4. QED
    BY <1>1, <1>10, <2>1, <2>2, <2>3 DEF IInv, SyncedButForHand
<1>17. QED
  BY <1>4, <1>5, <1>7, <1>12, <1>13, <1>14, <1>15, <1>16 DEF IInv

\* The values that the invariant compares.
LEMMA Contents ==
  ASSUME TypeOK
  PROVE  /\ Values \subseteq Nat /\ Slots = 1..Size /\ cache \in [1..Size -> Point]
         /\ \A i \in Ids : view[i] \in Nat
         /\ thread.p \in Point /\ thread.p.val \in Nat
         /\ \A q \in Visible(cache) : q \in Point /\ q.val \in Nat /\ Id(q) \in Ids
<1>1. Values \subseteq Nat
  BY StreamAssumption
<1>2. \A r \in Point : r.val \in Values
  BY DEF Point
<1>3. \A q \in Visible(cache) : q \in Point /\ Id(q) \in Ids
  BY VisibleTyped DEF TypeOK
<1>4. QED
  BY <1>1, <1>2, <1>3 DEF TypeOK, Slots

\* Printing a point that nothing in the queue precedes, and of whose identity the
\* cache has no other value, leaves the host behind the queue and the cache, and
\* no slot that it knew is unknown to it afterwards.
LEMMA EmittedKeeps ==
  ASSUME IInv, NEW p \in Point, Emitted(p),
         Named(p) /\ Known(p) =>
           /\ Passed(p.val, queue, publishes)
           /\ \A q \in Visible(cache) : Id(q) = Id(p) => q = p
  PROVE  /\ view' \in [Ids -> Values]
         /\ \A i \in Ids : Passed(view'[i], queue, publishes)
         /\ \A i \in Ids : view'[i] = view[i] \/ (Named(p) /\ Known(p) /\ i = Id(p) /\ view'[i] = p.val)
         /\ \A q \in Visible(cache) : view'[Id(q)] \in {view[Id(q)], q.val}
         /\ \A q \in Visible(cache) : view'[Id(q)] <= q.val
         /\ Named(p) /\ Known(p) => view'[Id(p)] = p.val
<1>1. p.val \in Values /\ Id(p) \in (Types \cup {NoType}) \X (Keys \cup {BlankKey})
  BY DEF Point, Id
<1>2. Named(p) => Id(p) \in Ids
  BY DEF Point, Id, Ids, Named
<1>3. view \in [Ids -> Values]
  BY DEF IInv, TypeOK
<1>4. view' \in [Ids -> Values]
  BY <1>1, <1>3 DEF Emitted
<1>5. \A i \in Ids : view'[i] = view[i] \/ (Named(p) /\ Known(p) /\ i = Id(p) /\ view'[i] = p.val)
  BY DEF Emitted
<1>6. \A i \in Ids : Passed(view'[i], queue, publishes)
  BY <1>5 DEF IInv, MergedIsOlder
<1>7. \A q \in Visible(cache) : Id(q) \in Ids /\ q.val \in Nat
  BY Contents DEF IInv
<1>8. \A q \in Visible(cache) : view'[Id(q)] \in {view[Id(q)], q.val}
  BY <1>5, <1>7
<1>9. \A q \in Visible(cache) : view'[Id(q)] <= q.val
  BY <1>7, <1>8 DEF IInv, HostBehindCache
<1>10. Named(p) /\ Known(p) => view'[Id(p)] = p.val
  BY <1>2 DEF Emitted
<1>11. QED
  BY <1>4, <1>5, <1>6, <1>8, <1>9, <1>10

\* While streaming is on the thread goes on to print the point in hand.
LEMMA CheckStreamingKeeps ==
  ASSUME IInv, CheckStreaming
  PROVE  IInv'
<1>1. /\ UNCHANGED <<cache, queue, shell, streaming, publishes, view, synced>>
      /\ thread'.p = thread.p /\ InHand
      /\ InHand' <=> streaming
  BY DEF CheckStreaming, InHand, IInv, TypeOK
<1>2. TypeOK'
  BY <1>1 DEF CheckStreaming, IInv, TypeOK
<1>3. Unique(cache)' /\ QueueInOrder' /\ HostBehindCache' /\ DumpedSoFar'
  BY <1>1 DEF IInv, QueueInOrder, HostBehindCache, DumpedSoFar
<1>4. MergedIsOlder' /\ HandIsNewest'
  BY <1>1 DEF IInv, MergedIsOlder, HandIsNewest
<1>5. SyncedButForHand'
  BY <1>1 DEF IInv, SyncedButForHand
<1>6. QED
  BY <1>2, <1>3, <1>4, <1>5 DEF IInv

\* The point in hand is printed before the next one is merged.
LEMMA StreamEmitKeeps ==
  ASSUME IInv, StreamEmit
  PROVE  IInv'
<1> DEFINE p == thread.p
<1>1. /\ UNCHANGED <<cache, queue, shell, streaming, publishes, synced>>
      /\ InHand /\ ~InHand' /\ Emitted(p)
  BY DEF StreamEmit, InHand, IInv, TypeOK
<1>2. p \in Point
  BY Contents DEF IInv
<1>3. /\ Passed(p.val, queue, publishes)
      /\ \A q \in Visible(cache) : Id(q) = Id(p) => q = p
  BY <1>1 DEF IInv, MergedIsOlder, HandIsNewest
<1>4. /\ view' \in [Ids -> Values]
      /\ \A i \in Ids : Passed(view'[i], queue, publishes)
      /\ \A q \in Visible(cache) : view'[Id(q)] \in {view[Id(q)], q.val}
      /\ \A q \in Visible(cache) : view'[Id(q)] <= q.val
      /\ Named(p) /\ Known(p) => view'[Id(p)] = p.val
  BY <1>1, <1>2, <1>3, EmittedKeeps
<1> HIDE DEF p
<1>5. TypeOK'
  BY <1>1, <1>4 DEF StreamEmit, IInv, TypeOK
<1>6. Unique(cache)' /\ QueueInOrder' /\ HostBehindCache'
  BY <1>1, <1>4 DEF IInv, QueueInOrder, HostBehindCache
<1>7. MergedIsOlder' /\ HandIsNewest'
  BY <1>1, <1>4 DEF IInv, MergedIsOlder, HandIsNewest
<1>8. DumpedSoFar'
  <2>1. \A j \in Slots : Named(cache[j]) /\ Known(cache[j]) => cache[j] \in Visible(cache)
    BY DEF Visible, IInv, TypeOK
  <2>2. QED
    BY <1>1, <1>4, <2>1 DEF IInv, DumpedSoFar
<1>9. SyncedButForHand'
  <2>1. \A q \in Visible(cache) : Named(q) /\ Known(q)
    BY DEF Visible
  <2>2. ASSUME synced, NEW q \in Visible(cache) PROVE view'[Id(q)] = q.val
    <3>1. CASE q = p
      BY <1>4, <2>1, <3>1
    <3>2. CASE view[Id(q)] = q.val
      BY <1>4, <3>2
    <3>3. QED
      BY <2>2, <3>1, <3>2 DEF IInv, SyncedButForHand, p
  <2>3. QED
    BY <1>1, <2>2 DEF IInv, SyncedButForHand
<1>10. QED
  BY <1>5, <1>6, <1>7, <1>8, <1>9 DEF IInv

\* A dump prints what the cache has, which is not older than what the host has.
LEMMA DumpLineKeeps ==
  ASSUME IInv, DumpLine
  PROVE  IInv'
<1> DEFINE c == cache[shell]
<1>1. /\ UNCHANGED <<cache, queue, thread, streaming, publishes, synced>>
      /\ shell \in 1..Size /\ shell' = shell + 1 /\ Emitted(c)
      /\ InHand' = InHand
  BY DEF DumpLine, InHand, Slots
<1>2. /\ c \in Point /\ cache \in [1..Size -> Point] /\ Size \in Nat /\ Slots = 1..Size
      /\ Unique(cache)
  BY <1>1, Contents, StreamAssumption DEF IInv
<1>3. Named(c) /\ Known(c) => c \in Visible(cache)
  BY <1>1, <1>2 DEF Visible
<1>4. Named(c) /\ Known(c) =>
        /\ Passed(c.val, queue, publishes)
        /\ \A q \in Visible(cache) : Id(q) = Id(c) => q = c
  BY <1>2, <1>3, OneReadable DEF IInv, MergedIsOlder
<1>5. /\ view' \in [Ids -> Values]
      /\ \A i \in Ids : Passed(view'[i], queue, publishes)
      /\ \A i \in Ids : view'[i] = view[i] \/ (Named(c) /\ Known(c) /\ view'[i] = c.val)
      /\ \A q \in Visible(cache) : view'[Id(q)] \in {view[Id(q)], q.val}
      /\ \A q \in Visible(cache) : view'[Id(q)] <= q.val
      /\ Named(c) /\ Known(c) => view'[Id(c)] = c.val
  BY <1>1, <1>2, <1>4, EmittedKeeps
<1> HIDE DEF c
<1>6. TypeOK'
  BY <1>1, <1>2, <1>5 DEF IInv, TypeOK
<1>7. Unique(cache)' /\ QueueInOrder' /\ HostBehindCache'
  BY <1>1, <1>5 DEF IInv, QueueInOrder, HostBehindCache
<1>8. MergedIsOlder'
  BY <1>1, <1>5 DEF IInv, MergedIsOlder
<1>9. HandIsNewest'
  BY <1>1, <1>3, <1>5 DEF IInv, HandIsNewest
<1>10. DumpedSoFar'
  <2>1. \A j \in Slots : Named(cache[j]) /\ Known(cache[j]) => cache[j] \in Visible(cache)
    BY <1>2 DEF Visible
  <2>2. ASSUME NEW j \in Slots, j < shell + 1, Named(cache[j]), Known(cache[j])
        PROVE  view'[Id(cache[j])] = cache[j].val
    <3>1. CASE j = shell
      BY <1>5, <2>2, <3>1 DEF c
    <3>2. CASE j < shell
      BY <1>5, <2>1, <2>2, <3>2 DEF IInv, DumpedSoFar
    <3>3. QED
      BY <1>1, <1>2, <2>2, <3>1, <3>2
  <2>3. QED
    BY <1>1, <2>2 DEF DumpedSoFar
<1>11. SyncedButForHand'
  BY <1>1, <1>5 DEF IInv, SyncedButForHand
<1>12. QED
  BY <1>6, <1>7, <1>8, <1>9, <1>10, <1>11 DEF IInv

\* At the end of a dump the host has all that the cache has: the cache was locked.
LEMMA DumpEndKeeps ==
  ASSUME IInv, DumpEnd
  PROVE  IInv'
<1>1. /\ UNCHANGED <<cache, queue, thread, streaming, publishes, view>>
      /\ shell > Size /\ shell' = 0 /\ synced' = streaming /\ InHand' = InHand
  BY DEF DumpEnd, InHand
<1>2. Size \in Nat /\ shell \in Nat /\ Slots = 1..Size /\ cache \in [1..Size -> Point]
  BY Contents, StreamAssumption DEF IInv, TypeOK
<1>3. TypeOK'
  BY <1>1, <1>2 DEF IInv, TypeOK
<1>4. Unique(cache)' /\ QueueInOrder' /\ MergedIsOlder' /\ HandIsNewest' /\ HostBehindCache'
  BY <1>1, Undisturbed
<1>5. DumpedSoFar'
  BY <1>1, <1>2 DEF DumpedSoFar
<1>6. \A q \in Visible(cache) : view[Id(q)] = q.val
  BY <1>1, <1>2 DEF IInv, DumpedSoFar, Visible
<1>7. SyncedButForHand'
  BY <1>1, <1>6 DEF SyncedButForHand
<1>8. QED
  BY <1>3, <1>4, <1>5, <1>7 DEF IInv

\* The commands of the shell change what will be printed, not what was.
LEMMA CommandKeeps ==
  ASSUME IInv, StreamOn \/ StreamOff \/ DumpStart
  PROVE  IInv'
<1>1. /\ UNCHANGED <<cache, queue, thread, publishes, view>>
      /\ shell = 0 /\ shell' \in {0, 1} /\ InHand' = InHand
      /\ streaming' \in BOOLEAN /\ synced' \in BOOLEAN
      /\ synced' => streaming' /\ synced
  <2>1. /\ UNCHANGED <<cache, queue, thread, publishes, view>>
        /\ shell = 0 /\ shell' \in {0, 1}
    BY DEF StreamOn, StreamOff, DumpStart
  <2>2. streaming \in BOOLEAN /\ synced \in BOOLEAN /\ (synced => streaming)
    BY DEF IInv, TypeOK, SyncedButForHand
  <2>3. /\ streaming' \in BOOLEAN /\ synced' \in BOOLEAN
        /\ synced' => streaming' /\ synced
    <3>1. CASE StreamOn
      BY <2>2, <3>1, Zenon DEF StreamOn
    <3>2. CASE StreamOff
      BY <2>2, <3>2, Zenon DEF StreamOff
    <3>3. CASE DumpStart
      BY <2>2, <3>3, Zenon DEF DumpStart
    <3>4. QED
      BY <3>1, <3>2, <3>3
  <2>4. QED
    BY <2>1, <2>3 DEF InHand
<1>2. Size \in Nat \ {0} /\ Slots = 1..Size
  BY StreamAssumption DEF Slots
<1>3. TypeOK'
  BY <1>1, <1>2 DEF IInv, TypeOK
<1>4. Unique(cache)' /\ QueueInOrder' /\ MergedIsOlder' /\ HandIsNewest' /\ HostBehindCache'
  BY <1>1, Undisturbed
<1>5. DumpedSoFar'
  BY <1>1, <1>2 DEF DumpedSoFar
<1>6. SyncedButForHand'
  BY <1>1 DEF IInv, SyncedButForHand
<1>7. QED
  BY <1>3, <1>4, <1>5, <1>6 DEF IInv

\* A host that starts afresh knows nothing, and so nothing that is too new.
LEMMA HostRestartsKeeps ==
  ASSUME IInv, HostRestarts
  PROVE  IInv'
<1>1. /\ UNCHANGED <<cache, queue, thread, streaming, publishes>>
      /\ shell = 0 /\ shell' = 0 /\ ~synced' /\ synced' \in BOOLEAN /\ InHand' = InHand
      /\ view' \in [Ids -> {0}]
  BY DEF HostRestarts, InHand
<1>2. 0 \in Values /\ Size \in Nat /\ Slots = 1..Size
  BY StreamAssumption DEF Slots
<1>3. TypeOK'
  BY <1>1, <1>2 DEF IInv, TypeOK
<1>4. Unique(cache)' /\ QueueInOrder'
  BY <1>1 DEF IInv, QueueInOrder
<1>5. \A i \in Ids : Passed(view'[i], queue, publishes)
  <2>1. publishes \in Nat /\ DOMAIN queue \subseteq Nat
    BY DEF IInv, TypeOK
  <2>2. \A j \in DOMAIN queue : 0 < queue[j].val
    BY <2>1 DEF IInv, QueueInOrder
  <2>3. Passed(0, queue, publishes)
    BY <2>1, <2>2 DEF Passed
  <2>4. QED
    BY <1>1, <2>3
<1>6. MergedIsOlder'
  BY <1>1, <1>5 DEF IInv, MergedIsOlder
<1>7. HandIsNewest' /\ HostBehindCache'
  <2>1. /\ thread.p.val \in Nat
        /\ \A q \in Visible(cache) : q.val \in Nat /\ Id(q) \in Ids
    BY Contents DEF IInv
  <2>2. \A i \in Ids : view'[i] = 0
    BY <1>1
  <2>3. QED
    BY <1>1, <2>1, <2>2 DEF IInv, HandIsNewest, HostBehindCache
<1>8. DumpedSoFar' /\ SyncedButForHand'
  BY <1>1, <1>2 DEF DumpedSoFar, SyncedButForHand
<1>9. QED
  BY <1>3, <1>4, <1>6, <1>7, <1>8 DEF IInv

\* A zeroed cache shows nothing, and a host at first has nothing.
LEMMA InitGood == Init => IInv
<1> SUFFICES ASSUME Init PROVE IInv
  OBVIOUS
<1>1. /\ Size \in Nat /\ MaxPublishes \in Nat /\ Values = 0..MaxPublishes /\ 0 \in Values
      /\ Slots = 1..Size
  BY StreamAssumption DEF Slots
<1>2. Zero \in Values
  BY <1>1 DEF Zero
<1>3. Unused \in Point /\ ~Named(Unused)
  BY <1>2 DEF Unused, Point, Named, DataTypes
<1>4. \A i \in Slots : cache[i] = Unused
  BY DEF Init
<1>5. Visible(cache) = {} /\ DOMAIN cache = Slots
  BY <1>3, <1>4 DEF Init, Visible
<1>6. TypeOK
  <2>1. <<>> \in Seq(Point) /\ 0 \in 0..(Size + 1) /\ 0 \in 0..MaxPublishes
    BY <1>1
  <2>2. [pc |-> "wait", p |-> Unused] \in [pc : {"wait", "merged", "emit"}, p : Point]
    BY <1>3
  <2>3. QED
    BY <1>1, <1>3, <2>1, <2>2 DEF Init, TypeOK
<1>7. ~InHand /\ DOMAIN queue = {} /\ publishes = 0 /\ ~synced /\ shell = 0
  BY DEF Init, InHand
<1>8. Unique(cache)
  BY <1>3, <1>4, <1>5 DEF Unique
<1>9. MergedIsOlder
  BY <1>5, <1>7 DEF Init, MergedIsOlder, Passed
<1>10. QueueInOrder /\ HandIsNewest /\ HostBehindCache /\ SyncedButForHand
  BY <1>5, <1>7 DEF QueueInOrder, HandIsNewest, HostBehindCache, SyncedButForHand
<1>11. DumpedSoFar
  BY <1>3, <1>4 DEF DumpedSoFar
<1>12. QED
  BY <1>6, <1>8, <1>9, <1>10, <1>11 DEF IInv

LEMMA StepGood == IInv /\ [Next]_vars => IInv'
<1> SUFFICES ASSUME IInv, [Next]_vars PROVE IInv'
  OBVIOUS
<1>1. CASE \E p \in Traffic : Publish(p)
  BY <1>1, PublishKeeps
<1>2. CASE CacheMerge
  BY <1>2, CacheMergeKeeps
<1>3. CASE CheckStreaming
  BY <1>3, CheckStreamingKeeps
<1>4. CASE StreamEmit
  BY <1>4, StreamEmitKeeps
<1>5. CASE StreamOn \/ StreamOff \/ DumpStart
  BY <1>5, CommandKeeps
<1>6. CASE Shell
  BY <1>6, DumpLineKeeps, DumpEndKeeps DEF Shell
<1>7. CASE HostRestarts
  BY <1>7, HostRestartsKeeps
<1>8. CASE UNCHANGED vars
  <2>1. UNCHANGED <<cache, queue, thread, publishes, view>>
    BY <1>8 DEF vars
  <2>2. TypeOK' /\ DumpedSoFar' /\ SyncedButForHand'
    BY <1>8 DEF vars, IInv, TypeOK, DumpedSoFar, SyncedButForHand, InHand
  <2>3. QED
    BY <2>1, <2>2, Undisturbed DEF IInv
<1>9. QED
  BY <1>1, <1>2, <1>3, <1>4, <1>5, <1>6, <1>7, <1>8 DEF Next

(***************************************************************************)
(* The theorems                                                            *)
(***************************************************************************)

\* The order of contents along queue, hand, cache and host, in every state that
\* the threads and the host can reach.
THEOREM StreamInvariant == Spec => []IInv
BY InitGood, StepGood, PTL DEF Spec

\* The variables of the cache, the threads and the host keep their types.
THEOREM TypeCorrect == Spec => []TypeOK
<1>1. IInv => TypeOK
  BY DEF IInv
<1>2. QED
  BY <1>1, StreamInvariant, PTL

\* A host that has turned streaming on and then dumped has, whenever
\* point_cache_thread is between two points, every value the cache shows.
THEOREM HostInSync == Spec => []HostTracksCache
<1>1. IInv => HostTracksCache
  BY DEF IInv, SyncedButForHand, HostTracksCache, Caught, InHand
<1>2. QED
  BY <1>1, StreamInvariant, PTL

\* What a dump or the stream prints of an identity is not older than what was
\* printed of it before.
THEOREM NothingOldPrinted == Spec => HostNeverGoesBack
<1> DEFINE Forward == \A i \in Ids : view'[i] # 0 => view'[i] >= view[i]
<1>1. ASSUME IInv, [Next]_vars PROVE Forward
  <2>1. \A i \in Ids : view[i] \in Nat
    BY <1>1, Contents DEF IInv
  <2>2. CASE StreamEmit
    <3>1. thread.p.val \in Nat
      BY <1>1, Contents DEF IInv
    <3>2. \A i \in Ids : view[i] <= thread.p.val
      BY <1>1, <2>2 DEF StreamEmit, InHand, IInv, HandIsNewest
    <3>3. \A i \in Ids : view'[i] \in {view[i], thread.p.val}
      BY <2>2 DEF StreamEmit, Emitted
    <3>4. QED
      BY <2>1, <3>1, <3>2, <3>3
  <2>3. CASE DumpLine
    <3> DEFINE c == cache[shell]
    <3>1. \A i \in Ids : view'[i] = view[i] \/ (Named(c) /\ Known(c) /\ i = Id(c) /\ view'[i] = c.val)
      BY <2>3 DEF DumpLine, Emitted
    <3>2. Named(c) /\ Known(c) => c \in Visible(cache)
      BY <1>1, <2>3 DEF DumpLine, Visible, IInv, TypeOK
    <3>3. Named(c) /\ Known(c) => view[Id(c)] <= c.val /\ c.val \in Nat
      BY <1>1, <3>2, Contents DEF IInv, HostBehindCache
    <3> HIDE DEF c
    <3>4. QED
      BY <2>1, <3>1, <3>3
  <2>4. CASE HostRestarts
    BY <2>4 DEF HostRestarts
  <2>5. CASE view' = view
    BY <2>1, <2>5
  <2>6. StreamEmit \/ DumpLine \/ HostRestarts \/ view' = view
    BY <1>1 DEF Next, vars, Publish, CacheMerge, CheckStreaming, StreamOn, StreamOff,
                DumpStart, Shell, DumpEnd
  <2>7. QED
    BY <2>2, <2>3, <2>4, <2>5, <2>6
<1>2. IInv /\ [Next]_vars => [Forward]_vars
  BY <1>1
<1>3. QED
  BY <1>2, StreamInvariant, PTL DEF Spec, HostNeverGoesBack
=============================================================================
