-------------------------- MODULE PointFlowProofs --------------------------
(***************************************************************************)
(* Proofs about the path of a point from its publisher to the mirrors of   *)
(* the channel, for any publishers, identities, traffic and pool.          *)
(***************************************************************************)
EXTENDS PointFlow, PointsProofs, SequenceTheorems

(***************************************************************************)
(* The inductive invariant                                                 *)
(***************************************************************************)

\* Points are all there is before, on and behind the channel.
Carried ==
  /\ http \in [pc : {"idle", "lock", "merge", "publish"}, todo : Seq(Point)]
  /\ dev \in [Devices -> Seq(Point)]
  /\ bus \in [owner : Threads \cup {"none"}, pt : Point, left : Seq(Subscribers)]
  /\ queue \in [Subscribers -> Seq(Point)]
  /\ hand = <<>> \/ \E p \in Point : hand = <<p>>

\* Of the points in an array none of an identity is there twice, and none has a blank
\* key.
Kept(a) == Unique(a) /\ \A k \in DOMAIN a : Named(a[k]) => a[k].key \in Keys

Stored ==
  /\ web \in [1..WebSize -> Point] /\ Kept(web)
  /\ cache \in [1..CacheSize -> Point] /\ Kept(cache)
  /\ flash \in [Settings -> Point]

Counted ==
  /\ InUse <= Pool
  /\ offers \in 0..MaxOffers
  /\ newest \in [Ids -> Point]
  /\ missed \subseteq Subscribers \X Ids /\ unsaved \subseteq Settings
  /\ tick \in {"idle", "wait", "publish"}

\* The channel is taken by a thread that is publishing, and what it publishes is
\* the newest of its identity; the handler publishes what it has merged.
Published ==
  /\ bus.owner = "none" => bus = FreeBus
  /\ bus.owner # "none" =>
       Publishing(bus.owner) /\ newest[Id(Normalised(bus.pt))] = bus.pt
  /\ http.pc = "publish" => http.todo # <<>> /\ Head(http.todo).key # BlankKey

FlowInv == Carried /\ Stored /\ Counted /\ Published

(* What subscriber s has yet to merge, in order; where identity i is in it. *)
Places(q, i) == {k \in DOMAIN q : Id(Normalised(q[k])) = i}
LastIs(q, i, n) ==
  \A k \in Places(q, i) : (\A m \in Places(q, i) : m <= k) => q[k] = n

Expects(b, s, i) == Id(Normalised(b.pt)) = i /\ \E k \in DOMAIN b.left : b.left[k] = s

\* Subscriber s, with messages q to come and the identities D in step: unless a
\* message was lost or is still to be handed over, the last one to come is the
\* newest, and with none to come the identity is in step.
Mirror(q, b, ms, s, new, D) ==
  \A i \in Ids : <<s, i>> \notin ms /\ ~Expects(b, s, i) =>
    LastIs(q, i, new[i]) /\ (Places(q, i) = {} => i \in D)

Shows(a, i, n) ==
  Free(a) # {} => Shown(a, i) = {v \in {Normalised(n)} : Named(v) /\ Known(v)}
CacheInStep == {i \in Ids : Shows(cache, i, newest[i])}
WebInStep == {i \in Ids : MergedAhead(i) \/ Shows(web, i, newest[i])}
FlashInStep == {i \in Ids : Saved(i)}

Mirrors ==
  /\ Mirror(queue["cache"], bus, missed, "cache", newest, CacheInStep)
  /\ Mirror(queue["nvs"], bus, missed, "nvs", newest, FlashInStep)
  /\ Mirror(hand \o queue["web"], bus, missed, "web", newest, WebInStep)

(***************************************************************************)
(* Points and lists of points                                              *)
(***************************************************************************)

LEMMA PointNormalised ==
  ASSUME NEW p \in Point
  PROVE  /\ Normalised(p) \in Point /\ Normalised(p).key \in Keys
         /\ Normalised(p).key # BlankKey /\ Normalised(p).type = p.type
         /\ Id(Normalised(p)) \in Ids
         /\ p.key # BlankKey => Normalised(p) = p
         /\ p.key = BlankKey => Normalised(p).key = ZeroKey
<1>1. p.key \in Keys \cup {BlankKey} /\ ZeroKey \in Keys /\ BlankKey \notin Keys
  BY PointsAssumption DEF Point
<1>2. Normalised(p) \in Point /\ Normalised(p).type = p.type
      /\ Normalised(p).key = IF p.key = BlankKey THEN ZeroKey ELSE p.key
  BY <1>1 DEF Normalised, Point
<1>3. p.key # BlankKey => Normalised(p) = p
  BY DEF Normalised, Point
<1>4. QED
  BY <1>1, <1>2, <1>3 DEF Id, Ids, Point

\* Who publishes stamps each point afresh.
LEMMA FreshPoint ==
  ASSUME NEW f \in Traffic, NEW n \in Nat, n <= MaxOffers
  PROVE  Fresh(f, n) \in Point
BY FlowAssumption DEF Fresh, Point

\* A message put behind others is the last of its identity.
LEMMA AppendedIsLast ==
  ASSUME NEW q \in Seq(Point), NEW p \in Point, NEW i, NEW n
  PROVE  /\ Id(Normalised(p)) = i /\ p = n =>
              LastIs(Append(q, p), i, n) /\ Places(Append(q, p), i) # {}
         /\ Id(Normalised(p)) # i /\ LastIs(q, i, n) => LastIs(Append(q, p), i, n)
         /\ Id(Normalised(p)) # i => Places(Append(q, p), i) = Places(q, i)
<1> DEFINE r == Append(q, p)
           l == Len(q)
<1>1. /\ l \in Nat /\ DOMAIN q = 1..l /\ DOMAIN r = 1..(l + 1)
      /\ \A k \in 1..l : r[k] = q[k]
      /\ r[l + 1] = p
  <2>1. r \in Seq(Point) /\ Len(r) = l + 1 /\ \A k \in 1..l : r[k] = q[k]
        /\ r[l + 1] = p
    BY AppendProperties
  <2>2. QED
    BY <2>1, LenProperties
<1> HIDE DEF r, l
<1>2. CASE Id(Normalised(p)) = i
  <2>1. l + 1 \in Places(r, i) /\ \A k \in Places(r, i) : k \in 1..(l + 1)
    BY <1>1, <1>2 DEF Places
  <2>2. ASSUME NEW k \in Places(r, i), \A m \in Places(r, i) : m <= k PROVE k = l + 1
    BY <1>1, <2>1, <2>2
  <2>3. QED
    BY <1>1, <1>2, <2>1, <2>2 DEF LastIs, r
<1>3. CASE Id(Normalised(p)) # i
  <2>1. Places(r, i) = Places(q, i)
    BY <1>1, <1>3 DEF Places
  <2>2. \A k \in Places(q, i) : r[k] = q[k]
    BY <1>1 DEF Places
  <2>3. LastIs(q, i, n) => LastIs(r, i, n)
    BY <2>1, <2>2 DEF LastIs
  <2>4. QED
    BY <1>3, <2>1, <2>3 DEF r
<1>4. QED
  BY <1>2, <1>3

\* When the first message has been merged the last one is still the last, and if
\* none of its identity is left it was the last.
LEMMA TailKeepsLast ==
  ASSUME NEW q \in Seq(Point), q # <<>>, NEW i, NEW n, LastIs(q, i, n)
  PROVE  /\ LastIs(Tail(q), i, n)
         /\ Places(Tail(q), i) = {} =>
              IF Id(Normalised(Head(q))) = i THEN Head(q) = n ELSE Places(q, i) = {}
<1> DEFINE r == Tail(q)
           l == Len(q)
<1>1. /\ l \in Nat /\ l >= 1 /\ DOMAIN q = 1..l /\ DOMAIN r = 1..(l - 1)
      /\ \A k \in 1..(l - 1) : r[k] = q[k + 1]
      /\ Head(q) = q[1]
  <2>1. /\ r \in Seq(Point) /\ Len(r) = l - 1 /\ Head(q) = q[1]
        /\ \A k \in 1..Len(r) : r[k] = q[k + 1]
    BY HeadTailProperties
  <2>2. l \in Nat /\ DOMAIN q = 1..l /\ DOMAIN r = 1..Len(r) /\ Len(r) \in Nat
    BY <2>1, LenProperties
  <2>3. QED
    BY <2>1, <2>2
<1> HIDE DEF r, l
<1>2. \A k \in Places(r, i) : k \in Nat /\ k + 1 \in Places(q, i) /\ r[k] = q[k + 1]
  BY <1>1 DEF Places
<1>3. \A k \in Places(q, i) : k = 1 \/ (k \in Nat /\ k - 1 \in Places(r, i))
  BY <1>1 DEF Places
<1>4. ASSUME NEW k \in Places(r, i), \A m \in Places(r, i) : m <= k
      PROVE  r[k] = n
  <2>1. k + 1 \in Places(q, i) /\ k \in Nat /\ r[k] = q[k + 1]
    BY <1>2
  <2>2. ASSUME NEW m \in Places(q, i) PROVE m <= k + 1
    <3>1. CASE m = 1
      BY <2>1, <3>1
    <3>2. CASE m \in Nat /\ m - 1 \in Places(r, i)
      <4>1. m - 1 <= k
        BY <1>4, <3>2
      <4>2. QED
        BY <2>1, <3>2, <4>1
    <3>3. QED
      BY <1>3, <3>1, <3>2
  <2>3. QED
    BY <2>1, <2>2 DEF LastIs
<1>5. CASE Places(r, i) = {}
  <2>1. \A k \in Places(q, i) : k = 1
    BY <1>3, <1>5
  <2>2. CASE Id(Normalised(Head(q))) = i
    <3>1. 1 \in Places(q, i)
      BY <1>1, <2>2 DEF Places
    <3>2. q[1] = n
      BY <2>1, <3>1 DEF LastIs
    <3>3. QED
      BY <1>1, <1>4, <2>2, <3>2 DEF LastIs, r
  <2>3. CASE Id(Normalised(Head(q))) # i
    <3>1. 1 \notin Places(q, i)
      BY <1>1, <2>3 DEF Places
    <3>2. Places(q, i) = {}
      BY <2>1, <3>1
    <3>3. QED
      BY <1>4, <2>3, <3>2 DEF LastIs, r
  <2>4. QED
    BY <2>2, <2>3
<1>6. CASE Places(r, i) # {}
  BY <1>4, <1>6 DEF LastIs, r
<1>7. QED
  BY <1>5, <1>6

\* What a list begins with.
LEMMA PutInFront ==
  ASSUME NEW n \in Point, NEW rest \in Seq(Point)
  PROVE  /\ <<n>> \o rest \in Seq(Point) /\ <<n>> \o rest # <<>>
         /\ Head(<<n>> \o rest) = n /\ Tail(<<n>> \o rest) = rest
<1> DEFINE first == <<n>>
           all == first \o rest
<1>1. first \in Seq(Point) /\ Len(first) = 1 /\ first[1] = n
  OBVIOUS
<1> HIDE DEF first
<1>2. /\ all \in Seq(Point) /\ Len(all) = 1 + Len(rest) /\ Len(rest) \in Nat
      /\ all[1] = first[1] /\ \A k \in 1..Len(rest) : all[k + 1] = rest[k]
  BY <1>1, ConcatProperties, LenProperties, SMTT(30)
<1> HIDE DEF all
<1>3. all # <<>>
  BY <1>2, EmptySeq
<1>4. /\ Head(all) = all[1] /\ Tail(all) \in Seq(Point) /\ Len(Tail(all)) = Len(rest)
      /\ \A k \in 1..Len(rest) : Tail(all)[k] = all[k + 1]
  BY <1>2, <1>3, HeadTailProperties
<1>5. Tail(all) = rest
  BY <1>2, <1>4, SeqEqual
<1>6. QED
  BY <1>1, <1>2, <1>3, <1>4, <1>5 DEF first, all

(***************************************************************************)
(* Arrays                                                                  *)
(***************************************************************************)

LEMMA UnusedPoint == Unused \in Point /\ ~Named(Unused)
BY PointsAssumption DEF Unused, Zero, Point, DataTypes, KnownTypes, Named

\* A merge frees no slot.
LEMMA MergeFrees ==
  ASSUME NEW n \in Nat, NEW a \in [1..n -> Point], NEW p \in Point
  PROVE  Free(Merged(a, p)) \subseteq Free(a)
<1> DEFINE q == Normalised(p)
<1>1. CASE Merged(a, p) = a
  BY <1>1
<1>2. ASSUME NEW s \in 1..n, Merged(a, p) = [a EXCEPT ![s] = q],
             s \in Matches(a, q) \/ s \in Free(a)
      PROVE  Free(Merged(a, p)) \subseteq Free(a)
  <2>1. \A t \in 1..n : Merged(a, p)[t] = IF t = s THEN q ELSE a[t]
    BY <1>2
  <2>2. DOMAIN Merged(a, p) = 1..n /\ DOMAIN a = 1..n
    BY <1>2
  <2>3. s \in Matches(a, q) => Named(q)
    BY <2>2 DEF Matches, Named, Id
  <2> HIDE DEF q
  <2>4. QED
    BY <1>2, <2>1, <2>2, <2>3 DEF Free
<1>3. QED
  BY <1>1, <1>2, MergedCases

LEMMA MergeKept ==
  ASSUME NEW n \in Nat, NEW a \in [1..n -> Point], Kept(a), NEW p \in Point
  PROVE  Merged(a, p) \in [1..n -> Point] /\ Kept(Merged(a, p))
<1>1. Normalised(p).key \in Keys
  BY PointNormalised
<1>2. Merged(a, p) \in [1..n -> Point] /\ Unique(Merged(a, p))
  BY MergedUnique DEF Kept
<1>3. \A k \in 1..n : Merged(a, p)[k] \in {a[k], Normalised(p)}
  BY MergedCases
<1>4. QED
  BY <1>1, <1>2, <1>3 DEF Kept

\* After a merge the array shows the point under its identity, and what it showed
\* under the others: with a slot free it was not refused.
LEMMA MergeShows ==
  ASSUME NEW n \in Nat, NEW a \in [1..n -> Point], Kept(a), NEW p \in Point,
         NEW i, NEW v
  PROVE  IF Id(Normalised(p)) = i
           THEN v = p => Shows(Merged(a, p), i, v)
           ELSE Shows(a, i, v) => Shows(Merged(a, p), i, v)
<1>1. CASE Free(Merged(a, p)) = {}
  BY <1>1 DEF Shows
<1>2. CASE Free(Merged(a, p)) # {}
  <2>1. Free(a) # {} /\ ~Refused(a, p)
    BY <1>2, MergeFrees DEF Refused
  <2>2. Visible(Merged(a, p)) =
          {w \in Visible(a) : Id(w) # Id(Normalised(p))}
            \cup {w \in {Normalised(p)} : Named(w) /\ Known(w)}
    BY <2>1, VisibleOfMerged DEF Kept
  <2>3. CASE Id(Normalised(p)) = i
    <3>1. Shown(Merged(a, p), i) = {w \in {Normalised(p)} : Named(w) /\ Known(w)}
      BY <2>2, <2>3 DEF Shown
    <3>2. QED
      BY <2>3, <3>1 DEF Shows
  <2>4. CASE Id(Normalised(p)) # i
    <3>1. Shown(Merged(a, p), i) = Shown(a, i)
      BY <2>2, <2>4 DEF Shown
    <3>2. QED
      BY <2>1, <2>4, <3>1 DEF Shows
  <2>5. QED
    BY <2>3, <2>4
<1>3. QED
  BY <1>1, <1>2

(***************************************************************************)
(* What each kind of step does to a subscriber's mirror                    *)
(***************************************************************************)

\* Nothing is put on the channel or taken off it.
LEMMA MirrorStays ==
  ASSUME NEW q, NEW b, NEW ms, NEW s, NEW new, NEW D, Mirror(q, b, ms, s, new, D),
         NEW D2, D \subseteq D2
  PROVE  Mirror(q, b, ms, s, new, D2)
BY DEF Mirror

\* A publish begins: the subscriber expects the point.
LEMMA MirrorTake ==
  ASSUME NEW q, NEW b, NEW ms, NEW s \in Subscribers, NEW new \in [Ids -> Point], NEW D,
         Mirror(q, b, ms, s, new, D), b = FreeBus,
         NEW t, NEW p \in Point, NEW D2,
         \A i \in D : i # Id(Normalised(p)) => i \in D2
  PROVE  Mirror(q, [owner |-> t, pt |-> p, left |-> Subs], ms, s,
                [new EXCEPT ![Id(Normalised(p))] = p], D2)
<1> DEFINE b2 == [owner |-> t, pt |-> p, left |-> Subs]
           new2 == [new EXCEPT ![Id(Normalised(p))] = p]
<1>1. Expects(b2, s, Id(Normalised(p)))
  <2>1. \E k \in DOMAIN Subs : Subs[k] = s
    BY DEF Subs, Subscribers
  <2>2. b2.pt = p /\ b2.left = Subs
    OBVIOUS
  <2>3. QED
    BY <2>1, <2>2 DEF Expects
<1>2. \A i : ~Expects(b, s, i)
  BY EmptySeq DEF FreeBus, Expects
<1>3. \A i \in Ids : i # Id(Normalised(p)) => new2[i] = new[i]
  OBVIOUS
<1> HIDE DEF b2, new2
<1>4. Mirror(q, b2, ms, s, new2, D2)
  BY <1>1, <1>2, <1>3 DEF Mirror
<1>5. QED
  BY <1>4 DEF b2, new2

\* The subscriber is handed the point.
LEMMA MirrorHanded ==
  ASSUME NEW q \in Seq(Point), NEW b, NEW ms, NEW s, NEW new, NEW D,
         Mirror(q, b, ms, s, new, D),
         b.pt \in Point, new[Id(Normalised(b.pt))] = b.pt,
         NEW b2, b2.pt = b.pt,
         \A k \in DOMAIN b.left : b.left[k] = s \/ \E l \in DOMAIN b2.left : b2.left[l] = b.left[k]
  PROVE  Mirror(Append(q, b.pt), b2, ms \ {<<s, Id(Normalised(b.pt))>>}, s, new, D)
<1> DEFINE p == b.pt
           j == Id(Normalised(p))
<1> SUFFICES ASSUME NEW i \in Ids, <<s, i>> \notin ms \ {<<s, j>>}, ~Expects(b2, s, i)
             PROVE  LastIs(Append(q, p), i, new[i]) /\ (Places(Append(q, p), i) = {} => i \in D)
  BY DEF Mirror
<1> HIDE DEF p
<1>1. CASE i = j
  BY <1>1, AppendedIsLast DEF p
<1>2. CASE i # j
  <2>1. <<s, i>> \notin ms /\ ~Expects(b, s, i)
    BY <1>2 DEF Expects, p
  <2>2. LastIs(q, i, new[i]) /\ (Places(q, i) = {} => i \in D)
    BY <2>1 DEF Mirror
  <2>3. QED
    BY <1>2, <2>2, AppendedIsLast DEF p
<1>3. QED
  BY <1>1, <1>2

\* The others of those the channel still serves are not affected, and those it no
\* longer serves have been noted as having missed the point.
LEMMA MirrorPassed ==
  ASSUME NEW q, NEW b, NEW ms, NEW s, NEW new, NEW D, Mirror(q, b, ms, s, new, D),
         NEW b2, NEW ms2, NEW D2,
         \A i \in Ids : <<s, i>> \notin ms2 /\ ~Expects(b2, s, i) =>
           /\ <<s, i>> \notin ms /\ ~Expects(b, s, i)
           /\ i \in D => i \in D2
  PROVE  Mirror(q, b2, ms2, s, new, D2)
BY DEF Mirror

\* The subscriber merges its first message.
LEMMA MirrorMerge ==
  ASSUME NEW q \in Seq(Point), q # <<>>, NEW b, NEW ms, NEW s, NEW new, NEW D,
         Mirror(q, b, ms, s, new, D), NEW D2,
         \A i \in Ids : IF Id(Normalised(Head(q))) = i
                          THEN Head(q) = new[i] => i \in D2
                          ELSE i \in D => i \in D2
  PROVE  Mirror(Tail(q), b, ms, s, new, D2)
<1> SUFFICES ASSUME NEW i \in Ids, <<s, i>> \notin ms, ~Expects(b, s, i)
             PROVE  LastIs(Tail(q), i, new[i]) /\ (Places(Tail(q), i) = {} => i \in D2)
  BY DEF Mirror
<1>1. LastIs(q, i, new[i]) /\ (Places(q, i) = {} => i \in D)
  BY DEF Mirror
<1>2. /\ LastIs(Tail(q), i, new[i])
      /\ Places(Tail(q), i) = {} =>
           IF Id(Normalised(Head(q))) = i THEN Head(q) = new[i]
                                          ELSE Places(q, i) = {}
  BY <1>1, TailKeepsLast
<1>3. QED
  BY <1>1, <1>2

(***************************************************************************)
(* Types                                                                   *)
(***************************************************************************)

HttpStates == [pc : {"idle", "lock", "merge", "publish"}, todo : Seq(Point)]

LEMMA ThreadsTyped ==
  /\ "http" \in Threads /\ "none" \notin Threads /\ "http" \notin Devices /\ "none" \notin Devices
  /\ Devices \subseteq Threads /\ \A t \in Threads : t # "http" => t \in Devices
BY FlowAssumption DEF Threads

LEMMA SizesTyped ==
  /\ WebSize \in Nat /\ CacheSize \in Nat /\ Pool \in Nat /\ Pool >= 1 /\ MaxOffers \in Nat
  /\ PostMax \in Nat
BY FlowAssumption

LEMMA ListsTyped ==
  ASSUME Carried
  PROVE  /\ http \in HttpStates /\ http.todo \in Seq(Point)
         /\ \A s \in Subscribers : queue[s] \in Seq(Point) /\ Len(queue[s]) \in Nat
         /\ hand \in Seq(Point)
         /\ hand # <<>> => Head(hand) \in Point /\ hand = <<Head(hand)>>
<1>1. http \in HttpStates /\ http.todo \in Seq(Point)
  BY DEF Carried, HttpStates
<1>2. \A s \in Subscribers : queue[s] \in Seq(Point) /\ Len(queue[s]) \in Nat
  BY LenProperties DEF Carried
<1>3. CASE hand = <<>>
  BY <1>1, <1>2, <1>3
<1>4. ASSUME NEW p \in Point, hand = <<p>>
      PROVE  hand \in Seq(Point) /\ hand # <<>> /\ Head(hand) = p
  BY <1>4
<1>5. QED
  BY <1>1, <1>2, <1>3, <1>4 DEF Carried

\* Buffers in use: those in the queues, and those of a publisher and the ticker.
Queued(q) == Len(q["web"]) + Len(q["cache"]) + Len(q["nvs"])
Held(o, t) == (IF o # "none" THEN 1 ELSE 0) + (IF t = "publish" THEN 1 ELSE 0)

LEMMA QueuedChange ==
  ASSUME NEW q, NEW q2, NEW h \in Subscribers, NEW d \in {-1, 0, 1},
         \A s \in Subscribers : Len(q[s]) \in Nat,
         Len(q2[h]) = Len(q[h]) + d,
         \A s \in Subscribers \ {h} : Len(q2[s]) = Len(q[s])
  PROVE  Queued(q) \in Nat /\ Queued(q2) = Queued(q) + d
<1> DEFINE w == Len(q["web"])  c == Len(q["cache"])  n == Len(q["nvs"])
           w2 == Len(q2["web"])  c2 == Len(q2["cache"])  n2 == Len(q2["nvs"])
<1>1. w \in Nat /\ c \in Nat /\ n \in Nat
  BY DEF Subscribers
<1>2. Queued(q) = w + c + n /\ Queued(q2) = w2 + c2 + n2
  BY DEF Queued
<1>3. CASE h = "web"
  <2>1. w2 = w + d /\ c2 = c /\ n2 = n
    BY <1>3 DEF Subscribers
  <2> HIDE DEF w, c, n, w2, c2, n2
  <2>2. QED
    BY <1>1, <1>2, <2>1
<1>4. CASE h = "cache"
  <2>1. w2 = w /\ c2 = c + d /\ n2 = n
    BY <1>4 DEF Subscribers
  <2> HIDE DEF w, c, n, w2, c2, n2
  <2>2. QED
    BY <1>1, <1>2, <2>1
<1>5. CASE h = "nvs"
  <2>1. w2 = w /\ c2 = c /\ n2 = n + d
    BY <1>5 DEF Subscribers
  <2> HIDE DEF w, c, n, w2, c2, n2
  <2>2. QED
    BY <1>1, <1>2, <2>1
<1>6. QED
  BY <1>3, <1>4, <1>5 DEF Subscribers

LEMMA BuffersSum ==
  ASSUME NEW q, \A s \in Subscribers : Len(q[s]) \in Nat, NEW o, NEW k
  PROVE  /\ Len(q["web"]) + Len(q["cache"]) + Len(q["nvs"])
              + (IF o # "none" THEN 1 ELSE 0) + (IF k = "publish" THEN 1 ELSE 0)
            = Queued(q) + Held(o, k)
         /\ Queued(q) \in Nat /\ Held(o, k) \in Nat
<1> DEFINE w == Len(q["web"])  c == Len(q["cache"])  n == Len(q["nvs"])
           b == IF o # "none" THEN 1 ELSE 0
           t == IF k = "publish" THEN 1 ELSE 0
<1>1. w \in Nat /\ c \in Nat /\ n \in Nat /\ b \in Nat /\ t \in Nat
  BY DEF Subscribers
<1>2. Queued(q) = w + c + n /\ Held(o, k) = b + t
  BY DEF Queued, Held
<1>3. /\ w + c + n + b + t = Queued(q) + Held(o, k)
      /\ Queued(q) \in Nat /\ Held(o, k) \in Nat
  <2> HIDE DEF w, c, n, b, t
  <2>1. QED
    BY <1>1, <1>2
<1>4. QED
  BY <1>3, Zenon

\* What a step adds to the buffers in use.
LEMMA InUseChange ==
  ASSUME Carried, NEW h \in Subscribers, NEW d \in {-1, 0, 1},
         \A s \in Subscribers : Len(queue'[s]) \in Nat,
         Len(queue'[h]) = Len(queue[h]) + d,
         \A s \in Subscribers \ {h} : Len(queue'[s]) = Len(queue[s])
  PROVE  /\ InUse \in Nat
         /\ InUse' = InUse + d + Held(bus'.owner, tick') - Held(bus.owner, tick)
<1>1. \A s \in Subscribers : Len(queue[s]) \in Nat
  BY ListsTyped
<1>2. InUse = Queued(queue) + Held(bus.owner, tick) /\ Queued(queue) \in Nat
      /\ Held(bus.owner, tick) \in Nat
  BY <1>1, BuffersSum DEF InUse
<1>3. InUse' = Queued(queue') + Held(bus'.owner, tick') /\ Held(bus'.owner, tick') \in Nat
  BY BuffersSum DEF InUse
<1>4. Queued(queue') = Queued(queue) + d
  BY <1>1, QueuedChange
<1>5. QED
  BY <1>2, <1>3, <1>4

LEMMA InUseSame ==
  ASSUME UNCHANGED <<bus, queue, tick>>
  PROVE  InUse' = InUse
BY DEF InUse

\* What is being published, by whom.
LEMMA OutgoingTyped ==
  ASSUME Carried, Published, NEW t \in Threads, Publishing(t)
  PROVE  /\ Outgoing(t) \in Point
         /\ t = "http" => /\ http.pc = "publish" /\ http.todo # <<>>
                          /\ Outgoing(t) = Head(http.todo) /\ Normalised(Outgoing(t)) = Outgoing(t)
<1>1. CASE t = "http"
  <2>1. http.pc = "publish" /\ http.todo # <<>> /\ Head(http.todo).key # BlankKey
    BY <1>1 DEF Publishing, Published
  <2>2. Head(http.todo) \in Point
    BY <2>1, ListsTyped, HeadTailProperties
  <2>3. QED
    BY <1>1, <2>1, <2>2, PointNormalised DEF Outgoing
<1>2. CASE t # "http"
  <2>1. dev[t] \in Seq(Point) /\ dev[t] # <<>>
    BY <1>2, ThreadsTyped DEF Publishing, Carried
  <2>2. QED
    BY <1>2, <2>1, HeadTailProperties DEF Outgoing
<1>3. QED
  BY <1>1, <1>2

\* A publish that returns takes its point from the thread's list.
LEMMA ReturnedTyped ==
  ASSUME Carried, Published, NEW t \in Threads, Publishing(t), Returned(t)
  PROVE  /\ http' \in HttpStates /\ dev' \in [Devices -> Seq(Point)]
         /\ t = "http" => http'.pc = "merge" /\ dev' = dev
         /\ t # "http" => http' = http
         /\ \A d \in Devices : d # t => dev'[d] = dev[d]
<1>1. dev \in [Devices -> Seq(Point)] /\ http \in HttpStates
  BY DEF Carried, HttpStates
<1>2. CASE t = "http"
  <2>1. http' = [pc |-> "merge", todo |-> Tail(http.todo)] /\ dev' = dev
    BY <1>2 DEF Returned
  <2>2. Tail(http.todo) \in Seq(Point)
    BY <1>2, OutgoingTyped, ListsTyped, HeadTailProperties
  <2>3. QED
    BY <1>1, <1>2, <2>1, <2>2 DEF HttpStates
<1>3. CASE t # "http"
  <2>1. dev' = [dev EXCEPT ![t] = <<>>] /\ http' = http
    BY <1>3 DEF Returned
  <2>2. <<>> \in Seq(Point)
    BY EmptySeq
  <2>3. QED
    BY <1>1, <1>3, <2>1, <2>2
<1>4. QED
  BY <1>2, <1>3

LEMMA OfferKeeps ==
  ASSUME FlowInv, NEW d \in Devices, Offer(d)
  PROVE  FlowInv'
<1>1. PICK f \in Traffic : dev' = [dev EXCEPT ![d] = <<Fresh(f, offers + 1)>>]
  BY DEF Offer
<1>2. offers \in Nat /\ offers + 1 <= MaxOffers /\ offers' = offers + 1
  BY SizesTyped DEF Offer, FlowInv, Counted
<1>3. Fresh(f, offers + 1) \in Point
  BY <1>2, FreshPoint
<1> DEFINE p == Fresh(f, offers + 1)
<1> HIDE DEF p
<1>4. /\ dev' \in [Devices -> Seq(Point)] /\ \A e \in Devices \ {d} : dev'[e] = dev[e]
      /\ dev[d] = <<>>
  BY <1>1, <1>3 DEF p, FlowInv, Carried, Offer
<1>5. Carried' /\ Stored'
  BY <1>4 DEF FlowInv, Carried, Stored, Offer
<1>6. Counted'
  BY <1>2, SizesTyped, InUseSame DEF FlowInv, Counted, Offer
<1>7. Published'
  BY <1>4, ThreadsTyped DEF FlowInv, Published, Offer, Publishing, Carried
<1>8. QED
  BY <1>5, <1>6, <1>7 DEF FlowInv

LEMMA PostKeeps ==
  ASSUME FlowInv, PostDecoded \/ PostLock \/ PostRespond
  PROVE  FlowInv'
<1>1. /\ UNCHANGED <<flash, web, cache, dev, bus, queue, hand, newest, missed, unsaved, tick>>
      /\ http.pc # "publish" /\ http'.pc # "publish" /\ http' \in HttpStates
      /\ offers' \in 0..MaxOffers
  <2>1. http \in HttpStates /\ offers \in 0..MaxOffers
    BY ListsTyped DEF FlowInv, Counted
  <2>2. CASE PostDecoded
    <3>1. PICK n \in 1..PostMax : \E fs \in [1..n -> Traffic] :
            /\ offers + n <= MaxOffers
            /\ http' = [pc |-> "lock", todo |-> [i \in 1..n |-> Fresh(fs[i], offers + i)]]
            /\ offers' = offers + n
      BY <2>2 DEF PostDecoded
    <3>2. PICK fs \in [1..n -> Traffic] :
            /\ offers + n <= MaxOffers
            /\ http' = [pc |-> "lock", todo |-> [i \in 1..n |-> Fresh(fs[i], offers + i)]]
            /\ offers' = offers + n
      BY <3>1
    <3>3. n \in Nat /\ offers + n \in 0..MaxOffers
      BY <2>1, <3>2, SizesTyped
    <3>4. \A i \in 1..n : Fresh(fs[i], offers + i) \in Point
      <4> TAKE i \in 1..n
      <4>1. fs[i] \in Traffic /\ offers + i \in Nat /\ offers + i <= MaxOffers
        BY <2>1, <3>2, <3>3, SizesTyped
      <4>2. QED
        BY <4>1, FreshPoint
    <3> DEFINE todo == [i \in 1..n |-> Fresh(fs[i], offers + i)]
    <3>5. todo \in Seq(Point)
      BY <3>3, <3>4, IsASeq
    <3>6. http' = [pc |-> "lock", todo |-> todo]
      BY <3>2
    <3> HIDE DEF todo
    <3>7. QED
      BY <2>2, <3>2, <3>3, <3>5, <3>6 DEF PostDecoded, HttpStates
  <2>3. CASE PostLock
    BY <2>1, <2>3 DEF PostLock, HttpStates
  <2>4. CASE PostRespond
    BY <2>1, <2>4 DEF PostRespond, HttpStates
  <2>5. QED
    BY <2>2, <2>3, <2>4
<1>2. Carried' /\ Stored' /\ Counted'
  BY <1>1, InUseSame DEF FlowInv, Carried, Stored, Counted, HttpStates
<1>3. Published'
  BY <1>1 DEF FlowInv, Published, Publishing
<1>4. QED
  BY <1>2, <1>3 DEF FlowInv

LEMMA PostMergeKeeps ==
  ASSUME FlowInv, PostMerge
  PROVE  FlowInv'
<1> DEFINE p == Head(http.todo)
           rest == Tail(http.todo)
<1>1. p \in Point /\ rest \in Seq(Point) /\ Normalised(p) \in Point
      /\ Normalised(p).key # BlankKey
  <2>1. http.todo \in Seq(Point) /\ http.todo # <<>>
    BY ListsTyped DEF FlowInv, PostMerge
  <2>2. p \in Point /\ rest \in Seq(Point)
    BY <2>1, HeadTailProperties
  <2>3. QED
    BY <2>2, PointNormalised
<1>2. /\ UNCHANGED <<flash, cache, dev, bus, queue, hand, offers, newest, missed, unsaved, tick>>
      /\ web' = Merged(web, p) /\ http.pc = "merge"
      /\ http' = [pc |-> "publish", todo |-> <<Normalised(p)>> \o rest]
  BY DEF PostMerge
<1> HIDE DEF p, rest
<1> DEFINE todo == <<Normalised(p)>> \o rest
<1>3. http' = [pc |-> "publish", todo |-> todo]
  BY <1>2
<1>4. todo \in Seq(Point) /\ todo # <<>> /\ Head(todo) = Normalised(p)
  BY <1>1, PutInFront
<1> HIDE DEF todo
<1>5. http' \in HttpStates
  BY <1>3, <1>4 DEF HttpStates
<1>6. web' \in [1..WebSize -> Point] /\ Kept(web')
  BY <1>1, <1>2, SizesTyped, MergeKept DEF FlowInv, Stored
<1>7. Carried' /\ Stored' /\ Counted'
  <2>1. Carried'
    BY <1>2, <1>5 DEF FlowInv, Carried, HttpStates
  <2>2. Stored' /\ Counted'
    BY <1>2, <1>6, InUseSame DEF FlowInv, Stored, Counted
  <2>3. QED
    BY <2>1, <2>2
<1>8. Published'
  BY <1>1, <1>2, <1>3, <1>4 DEF FlowInv, Published, Publishing
<1>9. QED
  BY <1>7, <1>8 DEF FlowInv

\* A publish takes a buffer, and puts its point on the channel.
LEMMA TakeKeeps ==
  ASSUME FlowInv, NEW t \in Threads, Take(t)
  PROVE  FlowInv'
<1> DEFINE p == Outgoing(t)
           n == Normalised(p)
<1>1. p \in Point /\ p \in Point /\ n \in Point /\ Id(n) \in Ids
  BY OutgoingTyped, PointNormalised DEF FlowInv, Take
<1>2. /\ UNCHANGED <<flash, web, cache, http, dev, queue, hand, offers, missed, unsaved, tick>>
      /\ bus' = [owner |-> t, pt |-> p, left |-> Subs]
      /\ newest' = [newest EXCEPT ![Id(n)] = p]
      /\ bus.owner = "none" /\ InUse < Pool /\ Publishing(t)
  BY DEF Take
<1> HIDE DEF p
<1>3. t # "none" /\ newest \in [Ids -> Point]
  BY ThreadsTyped DEF FlowInv, Counted
<1>4. Carried'
  <2>1. Subs \in Seq(Subscribers)
    BY DEF Subs, Subscribers
  <2>2. bus' \in [owner : Threads \cup {"none"}, pt : Point, left : Seq(Subscribers)]
        /\ bus'.pt \in Point
    BY <1>1, <1>2, <2>1
  <2>3. QED
    BY <1>2, <2>2 DEF FlowInv, Carried
<1>5. Stored'
  BY <1>2 DEF FlowInv, Stored
<1>6. Counted'
  <2>1. InUse' <= Pool
    <3>1. /\ Carried /\ bus.owner = "none" /\ bus'.owner # "none" /\ tick' = tick
          /\ \A s \in Subscribers : Len(queue'[s]) \in Nat /\ queue'[s] = queue[s]
      BY <1>2, <1>3, ListsTyped DEF FlowInv
    <3>2. /\ InUse \in Nat
          /\ InUse' = InUse + 0 + Held(bus'.owner, tick') - Held(bus.owner, tick)
      BY <3>1, InUseChange DEF Subscribers
    <3>3. Held(bus'.owner, tick') = Held(bus.owner, tick) + 1 /\ Held(bus.owner, tick) \in Nat
      BY <3>1 DEF Held
    <3>4. QED
      BY <1>2, <3>2, <3>3, SizesTyped
  <2>2. newest' \in [Ids -> Point]
    BY <1>1, <1>2, <1>3
  <2>3. QED
    BY <1>2, <2>1, <2>2 DEF FlowInv, Counted
<1>7. Published'
  <2>1. newest'[Id(n)] = p
    BY <1>1, <1>2, <1>3
  <2>2. bus'.owner = t /\ bus'.pt = p
    BY <1>2
  <2>3. QED
    BY <1>2, <1>3, <2>1, <2>2 DEF FlowInv, Published, Publishing
<1>8. QED
  BY <1>4, <1>5, <1>6, <1>7 DEF FlowInv

\* The next observer, and what it is handed.
LEMMA NextObserver ==
  ASSUME FlowInv, bus.owner # "none", bus.left # <<>>
  PROVE  /\ Head(bus.left) \in Subscribers /\ Tail(bus.left) \in Seq(Subscribers)
         /\ bus.pt \in Point /\ bus.owner \in Threads
         /\ newest[Id(Normalised(bus.pt))] = bus.pt
<1>1. bus.left \in Seq(Subscribers) /\ bus.pt \in Point /\ bus.owner \in Threads
  BY DEF FlowInv, Carried
<1>2. QED
  BY <1>1, HeadTailProperties DEF FlowInv, Published

LEMMA DeliverKeeps ==
  ASSUME FlowInv, Deliver
  PROVE  FlowInv'
<1> DEFINE h == Head(bus.left)
           b == [bus EXCEPT !.left = Tail(@)]
<1>1. /\ h \in Subscribers /\ Tail(bus.left) \in Seq(Subscribers) /\ bus.pt \in Point
      /\ newest[Id(Normalised(bus.pt))] = bus.pt
  BY NextObserver DEF Deliver
<1>2. /\ UNCHANGED <<flash, web, cache, http, dev, hand, offers, newest, unsaved, tick>>
      /\ queue' = [queue EXCEPT ![h] = Append(@, bus.pt)]
      /\ bus' = b /\ missed' \subseteq missed
      /\ bus.owner # "none" /\ InUse < Pool
  BY DEF Deliver
<1>3. /\ b \in [owner : Threads \cup {"none"}, pt : Point, left : Seq(Subscribers)]
      /\ b.owner = bus.owner /\ b.pt = bus.pt
  BY <1>1 DEF FlowInv, Carried
<1> HIDE DEF h, b
<1>4. \A s \in Subscribers :
        /\ queue'[s] \in Seq(Point)
        /\ Len(queue'[s]) \in Nat
        /\ s = h => Len(queue'[s]) = Len(queue[s]) + 1
        /\ s # h => Len(queue'[s]) = Len(queue[s])
  <2> TAKE s \in Subscribers
  <2>1. queue[s] \in Seq(Point) /\ Len(queue[s]) \in Nat
    BY ListsTyped DEF FlowInv
  <2>2. CASE s = h
    <3>1. queue'[s] = Append(queue[s], bus.pt)
      BY <1>1, <1>2, <2>2 DEF FlowInv, Carried
    <3>2. QED
      BY <1>1, <2>1, <2>2, <3>1, AppendProperties
  <2>3. CASE s # h
    <3>1. queue'[s] = queue[s]
      BY <1>1, <1>2, <2>3 DEF FlowInv, Carried
    <3>2. QED
      BY <2>1, <2>3, <3>1
  <2>4. QED
    BY <2>2, <2>3
<1>5. queue' \in [Subscribers -> Seq(Point)]
  <2>1. DOMAIN queue' = Subscribers /\ queue' = [s \in Subscribers |-> queue'[s]]
    BY <1>2 DEF FlowInv, Carried
  <2>2. QED
    BY <1>4, <2>1
<1>6. Carried'
  BY <1>1, <1>2, <1>3, <1>5 DEF FlowInv, Carried
<1>7. InUse' <= Pool
  <2>1. bus'.owner = bus.owner /\ tick' = tick
    BY <1>2, <1>3
  <2>2. /\ InUse \in Nat
        /\ InUse' = InUse + 1 + Held(bus'.owner, tick') - Held(bus.owner, tick)
    BY <1>1, <1>4, InUseChange DEF FlowInv
  <2>3. Held(bus.owner, tick) \in Nat
    BY DEF Held
  <2>4. QED
    BY <1>2, <2>1, <2>2, <2>3, SizesTyped
<1>8. Stored' /\ Counted'
  BY <1>2, <1>7 DEF FlowInv, Stored, Counted
<1>9. Published'
  BY <1>1, <1>2, <1>3 DEF FlowInv, Published, Publishing
<1>10. QED
  BY <1>6, <1>8, <1>9 DEF FlowInv

\* A publish that ends, after its last observer or because its wait ran out.
LEMMA EndKeeps ==
  ASSUME FlowInv, bus.owner # "none", bus' = FreeBus, Returned(bus.owner),
         UNCHANGED <<flash, web, cache, queue, hand, offers, newest, unsaved, tick>>,
         missed' \subseteq Subscribers \X Ids
  PROVE  FlowInv'
<1>1. bus.owner \in Threads /\ Publishing(bus.owner)
  BY DEF FlowInv, Carried, Published
<1>2. http' \in HttpStates /\ dev' \in [Devices -> Seq(Point)]
      /\ (bus.owner = "http" => http'.pc = "merge") /\ (bus.owner # "http" => http' = http)
  BY <1>1, ReturnedTyped DEF FlowInv
<1>3. /\ FreeBus \in [owner : Threads \cup {"none"}, pt : Point, left : Seq(Subscribers)]
      /\ FreeBus.owner = "none"
  <2>1. <<>> \in Seq(Subscribers)
    BY EmptySeq
  <2>2. QED
    BY <2>1, UnusedPoint DEF FreeBus
<1>4. Carried'
  BY <1>2, <1>3 DEF FlowInv, Carried, HttpStates
<1>5. InUse' <= Pool
  <2>1. \A s \in Subscribers : Len(queue'[s]) \in Nat /\ queue'[s] = queue[s]
    BY ListsTyped DEF FlowInv
  <2>2. /\ InUse \in Nat
        /\ InUse' = InUse + 0 + Held(bus'.owner, tick') - Held(bus.owner, tick)
    BY <2>1, InUseChange DEF FlowInv, Subscribers
  <2>3. Held(bus'.owner, tick') = Held(bus.owner, tick) - 1 /\ Held(bus'.owner, tick') \in Nat
    BY <1>3 DEF Held
  <2>4. InUse <= Pool
    BY DEF FlowInv, Counted
  <2>5. Held(bus.owner, tick) \in Int
    BY <2>3 DEF Held
  <2>6. QED
    BY <2>2, <2>3, <2>4, <2>5, SizesTyped
<1>6. Stored' /\ Counted'
  BY <1>5 DEF FlowInv, Stored, Counted
<1>7. Published'
  <2>1. http'.pc = "publish" => http'.todo # <<>> /\ Head(http'.todo).key # BlankKey
    BY <1>2 DEF FlowInv, Published
  <2>2. QED
    BY <1>3, <2>1 DEF Published
<1>8. QED
  BY <1>4, <1>6, <1>7 DEF FlowInv

LEMMA FinishKeeps ==
  ASSUME FlowInv, Finish
  PROVE  FlowInv'
BY EndKeeps DEF Finish, FlowInv, Counted

LEMMA CloneTimesOutKeeps ==
  ASSUME FlowInv, CloneTimesOut
  PROVE  FlowInv'
<1>1. bus.pt \in Point /\ bus.left \in Seq(Subscribers) /\ missed \subseteq Subscribers \X Ids
  BY DEF FlowInv, Carried, Counted, CloneTimesOut
<1>2. Id(Normalised(bus.pt)) \in Ids /\ \A i \in DOMAIN bus.left : bus.left[i] \in Subscribers
  BY <1>1, PointNormalised, ElementOfSeq, LenProperties
<1>3. missed' \subseteq Subscribers \X Ids
  BY <1>1, <1>2 DEF CloneTimesOut
<1>4. QED
  BY <1>3, EndKeeps DEF CloneTimesOut

LEMMA TakeTimesOutKeeps ==
  ASSUME FlowInv, NEW t \in Threads, TakeTimesOut(t)
  PROVE  FlowInv'
<1>1. /\ Publishing(t) /\ bus.owner \notin {t, "none"} /\ Returned(t)
      /\ UNCHANGED <<flash, web, cache, bus, queue, hand, offers, newest, unsaved, tick>>
      /\ missed' = missed \cup {<<s, Id(Normalised(Outgoing(t)))>> : s \in Subscribers}
  BY DEF TakeTimesOut
<1>2. Id(Normalised(Outgoing(t))) \in Ids
  BY <1>1, OutgoingTyped, PointNormalised DEF FlowInv
<1>3. missed' \subseteq Subscribers \X Ids
  BY <1>1, <1>2 DEF FlowInv, Counted
<1>4. /\ http' \in HttpStates /\ dev' \in [Devices -> Seq(Point)]
      /\ (t = "http" => http'.pc = "merge" /\ dev' = dev) /\ (t # "http" => http' = http)
      /\ \A d \in Devices : d # t => dev'[d] = dev[d]
  BY <1>1, ReturnedTyped DEF FlowInv
<1>5. Carried' /\ Stored' /\ Counted'
  BY <1>1, <1>3, <1>4, InUseSame DEF FlowInv, Carried, Stored, Counted, HttpStates
<1>6. Published'
  <2>1. http'.pc = "publish" => http'.todo # <<>> /\ Head(http'.todo).key # BlankKey
    BY <1>4 DEF FlowInv, Published
  <2>2. bus.owner \in Threads \ {t} /\ Publishing(bus.owner)
    BY <1>1 DEF FlowInv, Carried, Published
  <2>3. CASE bus.owner = "http"
    BY <1>1, <1>4, <2>1, <2>2, <2>3 DEF FlowInv, Published, Publishing
  <2>4. CASE bus.owner # "http"
    <3>1. dev'[bus.owner] = dev[bus.owner]
      BY <1>4, <2>2, <2>4, ThreadsTyped
    <3>2. QED
      BY <1>1, <2>1, <2>2, <2>4, <3>1 DEF FlowInv, Published, Publishing
  <2>5. QED
    BY <2>3, <2>4
<1>7. QED
  BY <1>5, <1>6 DEF FlowInv

\* A subscriber takes its first message and frees the message's buffer.
LEMMA ReceiveFrees ==
  ASSUME Carried, Counted, NEW s \in Subscribers, queue[s] # <<>>,
         queue' = [queue EXCEPT ![s] = Tail(@)], UNCHANGED <<bus, tick>>
  PROVE  /\ Head(queue[s]) \in Point
         /\ queue' \in [Subscribers -> Seq(Point)] /\ queue'[s] = Tail(queue[s])
         /\ \A r \in Subscribers \ {s} : queue'[r] = queue[r]
         /\ InUse' <= Pool
<1>1. queue \in [Subscribers -> Seq(Point)]
  BY DEF Carried
<1>2. /\ Head(queue[s]) \in Point /\ Tail(queue[s]) \in Seq(Point)
      /\ Len(Tail(queue[s])) = Len(queue[s]) - 1
  BY <1>1, HeadTailProperties
<1>3. /\ queue' \in [Subscribers -> Seq(Point)] /\ queue'[s] = Tail(queue[s])
      /\ \A r \in Subscribers \ {s} : queue'[r] = queue[r]
  BY <1>1, <1>2
<1>4. InUse' <= Pool
  <2>1. \A r \in Subscribers : Len(queue[r]) \in Nat
    BY ListsTyped
  <2>2. \A r \in Subscribers : Len(queue'[r]) \in Nat
    BY <1>3, LenProperties
  <2>3. Len(queue'[s]) = Len(queue[s]) + (-1)
    BY <1>2, <1>3, <2>1
  <2>4. \A r \in Subscribers \ {s} : Len(queue'[r]) = Len(queue[r])
    BY <1>3
  <2>5. /\ InUse \in Nat
        /\ InUse' = InUse + (-1) + Held(bus'.owner, tick') - Held(bus.owner, tick)
    BY <2>2, <2>3, <2>4, InUseChange
  <2>6. Held(bus'.owner, tick') = Held(bus.owner, tick) /\ Held(bus.owner, tick) \in Nat
    BY DEF Held
  <2>7. QED
    BY <2>5, <2>6, SizesTyped DEF Counted
<1>5. QED
  BY <1>2, <1>3, <1>4

LEMMA WebReceiveKeeps ==
  ASSUME FlowInv, WebReceive
  PROVE  FlowInv'
<1>1. /\ queue["web"] # <<>> /\ queue' = [queue EXCEPT !["web"] = Tail(@)]
      /\ hand' = <<Head(queue["web"])>> /\ "web" \in Subscribers
      /\ UNCHANGED <<flash, web, cache, http, dev, bus, offers, newest, missed, unsaved, tick>>
  BY DEF WebReceive, Subscribers
<1>2. Head(queue["web"]) \in Point /\ queue' \in [Subscribers -> Seq(Point)]
      /\ InUse' <= Pool
  BY <1>1, ReceiveFrees DEF FlowInv
<1>3. Carried' /\ Stored' /\ Counted'
  BY <1>1, <1>2 DEF FlowInv, Carried, Stored, Counted
<1>4. Published'
  BY <1>1 DEF FlowInv, Published, Publishing
<1>5. QED
  BY <1>3, <1>4 DEF FlowInv

LEMMA WebMergeKeeps ==
  ASSUME FlowInv, WebMerge
  PROVE  FlowInv'
<1>1. /\ UNCHANGED <<flash, cache, http, dev, bus, queue, offers, newest, missed, unsaved, tick>>
      /\ web' = Merged(web, Head(hand)) /\ hand' = <<>> /\ hand # <<>>
  BY DEF WebMerge
<1>2. Head(hand) \in Point
  BY <1>1, ListsTyped DEF FlowInv
<1>3. web' \in [1..WebSize -> Point] /\ Kept(web')
  BY <1>1, <1>2, SizesTyped, MergeKept DEF FlowInv, Stored
<1>4. Carried' /\ Stored' /\ Counted'
  BY <1>1, <1>3, InUseSame DEF FlowInv, Carried, Stored, Counted
<1>5. Published'
  BY <1>1 DEF FlowInv, Published, Publishing
<1>6. QED
  BY <1>4, <1>5 DEF FlowInv

LEMMA CacheMergeKeeps ==
  ASSUME FlowInv, CacheMerge
  PROVE  FlowInv'
<1>1. /\ queue["cache"] # <<>> /\ queue' = [queue EXCEPT !["cache"] = Tail(@)]
      /\ cache' = Merged(cache, Head(queue["cache"])) /\ "cache" \in Subscribers
      /\ UNCHANGED <<flash, web, http, dev, bus, hand, offers, newest, missed, unsaved, tick>>
  BY DEF CacheMerge, Subscribers
<1>2. Head(queue["cache"]) \in Point /\ queue' \in [Subscribers -> Seq(Point)]
      /\ InUse' <= Pool
  BY <1>1, ReceiveFrees DEF FlowInv
<1>3. cache' \in [1..CacheSize -> Point] /\ Kept(cache')
  BY <1>1, <1>2, SizesTyped, MergeKept DEF FlowInv, Stored
<1>4. Carried' /\ Stored' /\ Counted'
  BY <1>1, <1>2, <1>3 DEF FlowInv, Carried, Stored, Counted
<1>5. Published'
  BY <1>1 DEF FlowInv, Published, Publishing
<1>6. QED
  BY <1>4, <1>5 DEF FlowInv

LEMMA NvsSaveKeeps ==
  ASSUME FlowInv, NvsSave
  PROVE  FlowInv'
<1> DEFINE p == Head(queue["nvs"])
<1>1. /\ queue["nvs"] # <<>> /\ queue' = [queue EXCEPT !["nvs"] = Tail(@)]
      /\ IF p.type \in Settings /\ p.key = ZeroKey
           THEN \E done \in BOOLEAN : Save(p.type, p, done)
           ELSE UNCHANGED <<flash, unsaved>>
      /\ "nvs" \in Subscribers
      /\ UNCHANGED <<web, cache, http, dev, bus, hand, offers, newest, missed, tick>>
  BY DEF NvsSave, Subscribers
<1>2. p \in Point /\ queue' \in [Subscribers -> Seq(Point)] /\ InUse' <= Pool
  BY <1>1, ReceiveFrees DEF FlowInv
<1>3. flash \in [Settings -> Point] /\ unsaved \subseteq Settings
  BY DEF FlowInv, Stored, Counted
<1> HIDE DEF p
<1>4. flash' \in [Settings -> Point] /\ unsaved' \subseteq Settings
  <2>1. CASE p.type \in Settings /\ p.key = ZeroKey
    <3>1. PICK done \in BOOLEAN : Save(p.type, p, done)
      BY <1>1, <2>1
    <3>2. Written(p) \in Point
      BY <1>2, UnusedPoint DEF Written
    <3>3. flash' \in {flash, [flash EXCEPT ![p.type] = Written(p)]}
          /\ unsaved' \in {unsaved \ {p.type}, unsaved \cup {p.type}}
      BY <3>1 DEF Save
    <3>4. QED
      BY <1>3, <2>1, <3>2, <3>3
  <2>2. CASE ~(p.type \in Settings /\ p.key = ZeroKey)
    BY <1>1, <1>3, <2>2
  <2>3. QED
    BY <2>1, <2>2
<1>5. Carried' /\ Stored' /\ Counted'
  BY <1>1, <1>2, <1>4 DEF FlowInv, Carried, Stored, Counted
<1>6. Published'
  BY <1>1 DEF FlowInv, Published, Publishing
<1>7. QED
  BY <1>5, <1>6 DEF FlowInv

\* The ticker's publish takes a buffer and gives it back.
LEMMA TickKeeps ==
  ASSUME FlowInv, TickDue \/ TickPublish \/ TickDone
  PROVE  FlowInv'
<1>1. /\ UNCHANGED <<flash, web, cache, http, dev, bus, queue, hand, offers, newest, missed, unsaved>>
      /\ tick' \in {"idle", "wait", "publish"}
      /\ \/ tick # "publish" /\ tick' # "publish"
         \/ tick # "publish" /\ tick' = "publish" /\ InUse < Pool
         \/ tick = "publish" /\ tick' # "publish"
  BY DEF TickDue, TickPublish, TickDone
<1>2. InUse' <= Pool
  <2>1. \A s \in Subscribers : Len(queue'[s]) \in Nat /\ queue'[s] = queue[s]
        /\ Len(queue'[s]) = Len(queue[s]) + 0
    BY <1>1, ListsTyped DEF FlowInv
  <2>2. /\ InUse \in Nat
        /\ InUse' = InUse + 0 + Held(bus'.owner, tick') - Held(bus.owner, tick)
    BY <2>1, InUseChange DEF FlowInv, Subscribers
  <2> DEFINE b == IF bus.owner # "none" THEN 1 ELSE 0
  <2>3. /\ b \in Nat
        /\ Held(bus.owner, tick) = b + (IF tick = "publish" THEN 1 ELSE 0)
        /\ Held(bus'.owner, tick') = b + (IF tick' = "publish" THEN 1 ELSE 0)
    BY <1>1 DEF Held
  <2>4. InUse <= Pool
    BY DEF FlowInv, Counted
  <2> HIDE DEF b
  <2>5. QED
    BY <1>1, <2>2, <2>3, <2>4, SizesTyped
<1>3. Carried' /\ Stored' /\ Counted'
  BY <1>1, <1>2 DEF FlowInv, Carried, Stored, Counted
<1>4. Published'
  BY <1>1 DEF FlowInv, Published, Publishing
<1>5. QED
  BY <1>3, <1>4 DEF FlowInv

LEMMA UnchangedKeeps ==
  ASSUME FlowInv, UNCHANGED vars
  PROVE  FlowInv'
<1>1. /\ UNCHANGED <<flash, web, cache, http, dev, bus, queue>>
      /\ UNCHANGED <<hand, offers, newest, missed, unsaved, tick>>
  BY DEF vars
<1>2. Carried' /\ Stored' /\ Counted'
  BY <1>1, InUseSame DEF FlowInv, Carried, Stored, Counted
<1>3. Published'
  BY <1>1 DEF FlowInv, Published, Publishing
<1>4. QED
  BY <1>2, <1>3 DEF FlowInv

LEMMA FlowInit == Init => FlowInv
<1> SUFFICES ASSUME Init PROVE FlowInv
  OBVIOUS
<1>1. <<>> \in Seq(Point) /\ <<>> \in Seq(Subscribers) /\ Len(<<>>) = 0
  BY EmptySeq
<1>2. FreeBus \in [owner : Threads \cup {"none"}, pt : Point, left : Seq(Subscribers)]
      /\ FreeBus.owner = "none"
  BY <1>1, UnusedPoint DEF FreeBus
<1>3. Carried
  BY <1>1, <1>2 DEF Init, Carried
<1>4. Stored
  BY UnusedPoint DEF Init, Stored, Kept, Unique
<1>5. Counted
  <2>1. \A s \in Subscribers : queue[s] = <<>>
    BY DEF Init
  <2>2. Len(queue["web"]) = 0 /\ Len(queue["cache"]) = 0 /\ Len(queue["nvs"]) = 0
    BY <1>1, <2>1 DEF Subscribers
  <2>3. bus.owner = "none" /\ tick = "idle"
    BY <1>2 DEF Init
  <2>4. InUse = 0
    BY <2>2, <2>3 DEF InUse
  <2>5. QED
    BY <2>4, SizesTyped, UnusedPoint DEF Init, Counted
<1>6. Published
  BY <1>2 DEF Init, Published
<1>7. QED
  BY <1>3, <1>4, <1>5, <1>6 DEF FlowInv

LEMMA FlowStep == FlowInv /\ [Next]_vars => FlowInv'
<1> SUFFICES ASSUME FlowInv, [Next]_vars PROVE FlowInv'
  OBVIOUS
<1>1. CASE \/ \E d \in Devices : Offer(d)
           \/ PostDecoded \/ Http
  BY <1>1, OfferKeeps, PostKeeps, PostMergeKeeps DEF Http
<1>2. CASE Bus \/ \E t \in Threads : Take(t) \/ TakeTimesOut(t)
  BY <1>2, TakeKeeps, DeliverKeeps, FinishKeeps, CloneTimesOutKeeps, TakeTimesOutKeeps DEF Bus
<1>3. CASE WebReceive \/ WebMerge \/ CacheMerge \/ NvsSave
  BY <1>3, WebReceiveKeeps, WebMergeKeeps, CacheMergeKeeps, NvsSaveKeeps
<1>4. CASE TickDue \/ TickPublish \/ TickDone
  BY <1>4, TickKeeps
<1>5. CASE Settled \/ UNCHANGED vars
  BY <1>5, UnchangedKeeps DEF Settled
<1>6. QED
  BY <1>1, <1>2, <1>3, <1>4, <1>5 DEF Next

\* Types, and the pool: no step of any thread uses more buffers than there are.
THEOREM TypeCorrect == Spec => []TypeOK
<1>1. FlowInv => TypeOK
  <2> SUFFICES ASSUME FlowInv PROVE TypeOK
    OBVIOUS
  <2>1. http \in [pc : {"idle", "lock", "merge", "publish"}, todo : Seq(Point)] /\ hand \in Seq(Point)
    BY ListsTyped DEF FlowInv, Carried
  <2>2. \A q \in Range(web) \cup Range(cache) : Named(q) => q.key \in Keys
    BY DEF FlowInv, Stored, Kept, Range
  <2>3. QED
    BY <2>1, <2>2 DEF TypeOK, FlowInv, Carried, Stored, Counted
<1>2. QED
  BY <1>1, FlowInit, FlowStep, PTL DEF Spec

(***************************************************************************)
(* The mirrors of the channel                                              *)
(***************************************************************************)

LEMMA StaysMirrored ==
  ASSUME Mirrors,
         UNCHANGED <<web, cache, flash, http, bus, queue, hand, newest, missed, unsaved>>
  PROVE  Mirrors'
BY DEF Mirrors, CacheInStep, WebInStep, FlashInStep, MergedAhead, Saved

LEMMA PostMirrored ==
  ASSUME FlowInv, Mirrors, PostDecoded \/ PostLock \/ PostRespond
  PROVE  Mirrors'
<1>1. /\ UNCHANGED <<web, cache, flash, bus, queue, hand, newest, missed, unsaved>>
      /\ http.pc # "publish" /\ http'.pc # "publish"
  BY ListsTyped DEF PostDecoded, PostLock, PostRespond, FlowInv, HttpStates
<1>2. CacheInStep' = CacheInStep /\ FlashInStep' = FlashInStep
  BY <1>1 DEF CacheInStep, FlashInStep, Saved
<1>3. WebInStep' = WebInStep
  BY <1>1 DEF WebInStep, MergedAhead
<1>4. QED
  BY <1>1, <1>2, <1>3 DEF Mirrors

\* The handler merges a point that is not on the channel yet.
LEMMA PostMergeMirrored ==
  ASSUME FlowInv, Mirrors, PostMerge
  PROVE  Mirrors'
<1> DEFINE p == Head(http.todo)
           todo == <<Normalised(p)>> \o Tail(http.todo)
<1>1. /\ UNCHANGED <<flash, cache, bus, queue, hand, newest, missed, unsaved>>
      /\ web' = Merged(web, p) /\ http.pc = "merge" /\ http.todo # <<>>
      /\ http' = [pc |-> "publish", todo |-> todo]
  BY DEF PostMerge
<1>2. p \in Point
  BY <1>1, ListsTyped, HeadTailProperties DEF FlowInv
<1>3. Head(todo) = Normalised(p)
  <2>1. Tail(http.todo) \in Seq(Point) /\ Normalised(p) \in Point
    BY <1>1, <1>2, ListsTyped, HeadTailProperties, PointNormalised DEF FlowInv
  <2>2. QED
    BY <2>1, PutInFront
<1> HIDE DEF p, todo
<1>4. web \in [1..WebSize -> Point] /\ Kept(web)
  BY <1>2, SizesTyped DEF FlowInv, Stored
<1>5. bus.owner # "http"
  BY <1>1, ThreadsTyped DEF FlowInv, Published, Publishing
<1>6. \A i \in WebInStep : i \in WebInStep'
  <2> TAKE i \in WebInStep
  <2>1. i \in Ids /\ Shows(web, i, newest[i])
    BY <1>1 DEF WebInStep, MergedAhead
  <2>2. CASE Id(Normalised(p)) = i
    <3>1. MergedAhead(i)'
      BY <1>1, <1>3, <1>5, <2>2 DEF MergedAhead
    <3>2. QED
      BY <2>1, <3>1 DEF WebInStep
  <2>3. CASE Id(Normalised(p)) # i
    <3>1. Shows(Merged(web, p), i, newest[i])
      BY <1>2, <1>4, <2>1, <2>3, SizesTyped, MergeShows
    <3>2. QED
      BY <1>1, <2>1, <3>1 DEF WebInStep
  <2>4. QED
    BY <2>2, <2>3
<1>7. CacheInStep' = CacheInStep /\ FlashInStep' = FlashInStep
  BY <1>1 DEF CacheInStep, FlashInStep, Saved
<1>8. Mirror(hand \o queue["web"], bus, missed, "web", newest, WebInStep')
  BY <1>6, MirrorStays DEF Mirrors
<1>9. QED
  BY <1>1, <1>7, <1>8 DEF Mirrors

LEMMA TakeMirrored ==
  ASSUME FlowInv, Mirrors, NEW t \in Threads, Take(t)
  PROVE  Mirrors'
<1> DEFINE p == Outgoing(t)
           j == Id(Normalised(p))
<1>1. /\ UNCHANGED <<flash, web, cache, http, queue, hand, missed, unsaved>>
      /\ bus' = [owner |-> t, pt |-> p, left |-> Subs]
      /\ newest' = [newest EXCEPT ![j] = p]
      /\ bus = FreeBus /\ Publishing(t)
  BY DEF Take, FlowInv, Published
<1>2. p \in Point /\ newest \in [Ids -> Point] /\ (t = "http" => Head(http.todo) = Normalised(p))
  BY <1>1, OutgoingTyped DEF FlowInv, Counted
<1> HIDE DEF p
<1>3. \A i \in Ids : i # j => newest'[i] = newest[i]
  BY <1>1, <1>2
<1>4. \A i \in CacheInStep : i # j => i \in CacheInStep'
  BY <1>1, <1>3 DEF CacheInStep
<1>5. \A i \in FlashInStep : i # j => i \in FlashInStep'
  BY <1>1, <1>3 DEF FlashInStep, Saved
<1>6. \A i \in WebInStep : i # j => i \in WebInStep'
  <2> TAKE i \in WebInStep
  <2> HAVE i # j
  <2>1. i \in Ids /\ newest'[i] = newest[i]
    BY <1>3 DEF WebInStep
  <2>2. CASE Shows(web, i, newest[i])
    BY <1>1, <2>1, <2>2 DEF WebInStep
  <2>3. CASE MergedAhead(i)
    <3>1. t # "http"
      BY <1>2, <2>3 DEF MergedAhead
    <3>2. MergedAhead(i)'
      BY <1>1, <2>3, <3>1 DEF MergedAhead
    <3>3. QED
      BY <2>1, <3>2 DEF WebInStep
  <2>4. QED
    BY <2>2, <2>3 DEF WebInStep
<1>7. "web" \in Subscribers /\ "cache" \in Subscribers /\ "nvs" \in Subscribers
  BY DEF Subscribers
<1>8. Mirror(queue["cache"], bus', missed, "cache", newest', CacheInStep')
  BY <1>1, <1>2, <1>4, <1>7, MirrorTake DEF Mirrors
<1>9. Mirror(queue["nvs"], bus', missed, "nvs", newest', FlashInStep')
  BY <1>1, <1>2, <1>5, <1>7, MirrorTake DEF Mirrors
<1>10. Mirror(hand \o queue["web"], bus', missed, "web", newest', WebInStep')
  BY <1>1, <1>2, <1>6, <1>7, MirrorTake DEF Mirrors
<1>11. QED
  BY <1>1, <1>8, <1>9, <1>10 DEF Mirrors

\* One observer is handed the point; for the others nothing changes.
LEMMA DeliverMirrored ==
  ASSUME FlowInv, Mirrors, Deliver
  PROVE  Mirrors'
<1> DEFINE h == Head(bus.left)
           p == bus.pt
           j == Id(Normalised(p))
<1>1. /\ UNCHANGED <<flash, web, cache, http, hand, newest, unsaved>>
      /\ queue' = [queue EXCEPT ![h] = Append(@, p)]
      /\ bus' = [bus EXCEPT !.left = Tail(@)]
      /\ missed' = missed \ {<<h, j>>}
      /\ bus.owner # "none" /\ bus.left # <<>>
  BY DEF Deliver
<1>2. /\ h \in Subscribers /\ p \in Point /\ newest[j] = p
      /\ bus.left \in Seq(Subscribers) /\ queue \in [Subscribers -> Seq(Point)]
      /\ hand \in Seq(Point)
      /\ bus \in [owner : Threads \cup {"none"}, pt : Point, left : Seq(Subscribers)]
  BY <1>1, NextObserver, ListsTyped DEF FlowInv, Carried
<1>3. bus'.pt = p /\ bus'.owner = bus.owner /\ bus'.left = Tail(bus.left)
  BY <1>1, <1>2
<1>4. \A k \in DOMAIN bus.left :
        bus.left[k] = h \/ \E l \in DOMAIN bus'.left : bus'.left[l] = bus.left[k]
  <2> DEFINE a == bus.left
  <2>1. /\ Len(a) \in Nat /\ DOMAIN a = 1..Len(a) /\ h = a[1]
        /\ DOMAIN Tail(a) = 1..(Len(a) - 1)
        /\ \A l \in 1..(Len(a) - 1) : Tail(a)[l] = a[l + 1]
    BY <1>1, <1>2, HeadTailProperties, LenProperties
  <2>2. ASSUME NEW k \in DOMAIN a, k # 1 PROVE \E l \in DOMAIN Tail(a) : Tail(a)[l] = a[k]
    <3>1. k - 1 \in 1..(Len(a) - 1) /\ (k - 1) + 1 = k
      BY <2>1, <2>2
    <3>2. QED
      BY <2>1, <3>1
  <2>3. QED
    BY <1>3, <2>1, <2>2
<1> HIDE DEF h, p
<1>5. CacheInStep' = CacheInStep /\ FlashInStep' = FlashInStep /\ WebInStep' = WebInStep
  BY <1>1, <1>3 DEF CacheInStep, FlashInStep, WebInStep, Saved, MergedAhead
<1>6. ASSUME NEW s \in Subscribers, NEW q \in Seq(Point), NEW D,
             Mirror(q, bus, missed, s, newest, D)
      PROVE  Mirror(IF s = h THEN Append(q, p) ELSE q, bus', missed', s, newest, D)
  <2>1. CASE s = h
    <3>1. Mirror(Append(q, bus.pt), bus', missed \ {<<s, Id(Normalised(bus.pt))>>}, s, newest, D)
      BY <1>2, <1>3, <1>4, <1>6, <2>1, MirrorHanded DEF p
    <3>2. QED
      BY <1>1, <2>1, <3>1 DEF p
  <2>2. CASE s # h
    <3>1. \A i \in Ids : <<s, i>> \notin missed' /\ ~Expects(bus', s, i) =>
                           <<s, i>> \notin missed /\ ~Expects(bus, s, i)
      BY <1>1, <1>3, <1>4, <2>2 DEF Expects, p
    <3>2. QED
      BY <1>6, <2>2, <3>1, MirrorPassed
  <2>3. QED
    BY <2>1, <2>2
<1>7. "web" \in Subscribers /\ "cache" \in Subscribers /\ "nvs" \in Subscribers
  BY DEF Subscribers
<1>8. \A s \in Subscribers : queue'[s] = IF s = h THEN Append(queue[s], p) ELSE queue[s]
  BY <1>1, <1>2
<1>9. Mirror(queue'["cache"], bus', missed', "cache", newest, CacheInStep)
  BY <1>2, <1>6, <1>7, <1>8 DEF Mirrors
<1>10. Mirror(queue'["nvs"], bus', missed', "nvs", newest, FlashInStep)
  BY <1>2, <1>6, <1>7, <1>8 DEF Mirrors
<1>11. Mirror(hand \o queue'["web"], bus', missed', "web", newest, WebInStep)
  <2> DEFINE w == queue["web"]
  <2>1. w \in Seq(Point) /\ hand \o w \in Seq(Point)
    BY <1>2, <1>7, ConcatProperties
  <2>2. hand \o Append(w, p) = Append(hand \o w, p)
    <3> HIDE DEF w
    <3>1. /\ Append(w, p) = w \o <<p>> /\ Append(hand \o w, p) = (hand \o w) \o <<p>>
      BY <1>2, <2>1, AppendIsConcat
    <3>2. <<p>> \in Seq(Point)
      BY <1>2
    <3>3. (hand \o w) \o <<p>> = hand \o (w \o <<p>>)
      BY <1>2, <2>1, <3>2, ConcatAssociative
    <3>4. QED
      BY <3>1, <3>3
  <2>3. Mirror(IF "web" = h THEN Append(hand \o w, p) ELSE hand \o w,
               bus', missed', "web", newest, WebInStep)
    BY <1>6, <1>7, <2>1 DEF Mirrors
  <2>4. hand \o queue'["web"] = IF "web" = h THEN Append(hand \o w, p) ELSE hand \o w
    BY <1>7, <1>8, <2>2
  <2>5. QED
    BY <2>3, <2>4
<1>12. QED
  BY <1>1, <1>5, <1>9, <1>10, <1>11 DEF Mirrors

\* After the end of a publish nobody expects its point: who was not handed it has
\* missed it.
LEMMA EndMirrored ==
  ASSUME FlowInv, Mirrors, bus.owner # "none", bus' = FreeBus, Returned(bus.owner),
         UNCHANGED <<flash, web, cache, queue, hand, newest, unsaved>>,
         \A s \in Subscribers, i \in Ids :
           <<s, i>> \notin missed' => <<s, i>> \notin missed /\ ~Expects(bus, s, i)
  PROVE  Mirrors'
<1>1. bus.owner # "http" => http' = http
  BY DEF Returned
<1>2. FreeBus.owner # "http"
  BY DEF FreeBus
<1>3. CacheInStep' = CacheInStep /\ FlashInStep' = FlashInStep
  BY DEF CacheInStep, FlashInStep, Saved
<1>4. \A i \in WebInStep : i \in WebInStep'
  BY <1>1, <1>2 DEF WebInStep, MergedAhead
<1>5. "web" \in Subscribers /\ "cache" \in Subscribers /\ "nvs" \in Subscribers
  BY DEF Subscribers
<1>6. Mirror(queue["cache"], bus', missed', "cache", newest, CacheInStep)
  BY <1>5, MirrorPassed DEF Mirrors
<1>7. Mirror(queue["nvs"], bus', missed', "nvs", newest, FlashInStep)
  BY <1>5, MirrorPassed DEF Mirrors
<1>8. Mirror(hand \o queue["web"], bus', missed', "web", newest, WebInStep')
  BY <1>4, <1>5, MirrorPassed DEF Mirrors
<1>9. QED
  BY <1>3, <1>6, <1>7, <1>8 DEF Mirrors

LEMMA FinishMirrored ==
  ASSUME FlowInv, Mirrors, Finish
  PROVE  Mirrors'
<1>1. \A s, i : ~Expects(bus, s, i)
  BY EmptySeq DEF Finish, Expects
<1>2. QED
  BY <1>1, EndMirrored DEF Finish

LEMMA CloneTimesOutMirrored ==
  ASSUME FlowInv, Mirrors, CloneTimesOut
  PROVE  Mirrors'
<1>1. \A s \in Subscribers, i \in Ids :
        <<s, i>> \notin missed' => <<s, i>> \notin missed /\ ~Expects(bus, s, i)
  BY DEF CloneTimesOut, Expects
<1>2. QED
  BY <1>1, EndMirrored DEF CloneTimesOut

\* A point that never gets the channel counts as missed by all.
LEMMA TakeTimesOutMirrored ==
  ASSUME FlowInv, Mirrors, NEW t \in Threads, TakeTimesOut(t)
  PROVE  Mirrors'
<1>1. /\ Publishing(t) /\ Returned(t)
      /\ UNCHANGED <<flash, web, cache, bus, queue, hand, newest, unsaved>>
      /\ missed' = missed \cup {<<s, Id(Normalised(Outgoing(t)))>> : s \in Subscribers}
  BY DEF TakeTimesOut
<1>2. CacheInStep' = CacheInStep /\ FlashInStep' = FlashInStep
  BY <1>1 DEF CacheInStep, FlashInStep, Saved
<1>3. "web" \in Subscribers /\ "cache" \in Subscribers /\ "nvs" \in Subscribers
  BY DEF Subscribers
<1>4. \A i \in WebInStep : <<"web", i>> \notin missed' => i \in WebInStep'
  <2>1. CASE t = "http"
    <3>1. Head(http.todo) = Normalised(Outgoing(t))
      BY <1>1, <2>1, OutgoingTyped DEF FlowInv
    <3>2. \A i : MergedAhead(i) => <<"web", i>> \in missed'
      BY <1>1, <1>3, <3>1 DEF MergedAhead
    <3>3. QED
      BY <1>1, <3>2 DEF WebInStep
  <2>2. CASE t # "http"
    <3>1. http' = http
      BY <1>1, <2>2 DEF Returned
    <3>2. QED
      BY <1>1, <3>1 DEF WebInStep, MergedAhead
  <2>3. QED
    BY <2>1, <2>2
<1>5. \A s, i : <<s, i>> \notin missed' => <<s, i>> \notin missed
  BY <1>1
<1>6. Mirror(queue["cache"], bus, missed', "cache", newest, CacheInStep)
  BY <1>5, MirrorPassed DEF Mirrors
<1>7. Mirror(queue["nvs"], bus, missed', "nvs", newest, FlashInStep)
  BY <1>5, MirrorPassed DEF Mirrors
<1>8. Mirror(hand \o queue["web"], bus, missed', "web", newest, WebInStep')
  BY <1>4, <1>5, MirrorPassed DEF Mirrors
<1>9. QED
  BY <1>1, <1>2, <1>6, <1>7, <1>8 DEF Mirrors

\* What web_thread has in hand still is the first of what it has yet to merge.
LEMMA WebReceiveMirrored ==
  ASSUME FlowInv, Mirrors, WebReceive
  PROVE  Mirrors'
<1> DEFINE q == queue["web"]
<1>1. /\ UNCHANGED <<flash, web, cache, http, bus, newest, missed, unsaved>>
      /\ hand = <<>> /\ q # <<>> /\ hand' = <<Head(q)>>
      /\ queue' = [queue EXCEPT !["web"] = Tail(@)] /\ "web" \in Subscribers
      /\ queue \in [Subscribers -> Seq(Point)] /\ q \in Seq(Point)
  BY DEF WebReceive, Subscribers, FlowInv, Carried
<1>2. queue'["web"] = Tail(q) /\ queue'["cache"] = queue["cache"] /\ queue'["nvs"] = queue["nvs"]
  BY <1>1 DEF Subscribers
<1>3. hand \o q = q /\ hand' \o Tail(q) = q
  <2> HIDE DEF q
  <2>1. <<>> \o q = q /\ <<Head(q)>> \o Tail(q) = q
    BY <1>1, HeadTailProperties, ConcatSimplifications
  <2>2. QED
    BY <1>1, <2>1
<1>4. CacheInStep' = CacheInStep /\ FlashInStep' = FlashInStep /\ WebInStep' = WebInStep
  BY <1>1 DEF CacheInStep, FlashInStep, WebInStep, Saved, MergedAhead
<1>5. hand' \o queue'["web"] = hand \o queue["web"]
  BY <1>2, <1>3
<1>6. QED
  BY <1>1, <1>2, <1>4, <1>5 DEF Mirrors

LEMMA WebMergeMirrored ==
  ASSUME FlowInv, Mirrors, WebMerge
  PROVE  Mirrors'
<1> DEFINE p == Head(hand)
           q == hand \o queue["web"]
<1>1. /\ UNCHANGED <<flash, cache, http, bus, queue, newest, missed, unsaved>>
      /\ web' = Merged(web, p) /\ hand' = <<>> /\ hand # <<>> /\ http.pc # "publish"
  BY DEF WebMerge, WebLocked
<1>2. p \in Point /\ hand = <<p>> /\ queue["web"] \in Seq(Point)
  BY <1>1, ListsTyped DEF FlowInv, Subscribers
<1>3. q \in Seq(Point) /\ q # <<>> /\ Head(q) = p /\ Tail(q) = queue["web"]
  BY <1>2, PutInFront
<1>4. hand' \o queue["web"] = Tail(q)
  BY <1>1, <1>2, <1>3, ConcatSimplifications
<1> HIDE DEF p, q
<1>5. web \in [1..WebSize -> Point] /\ Kept(web)
  BY <1>2, SizesTyped DEF FlowInv, Stored
<1>6. \A i \in Ids : IF Id(Normalised(p)) = i
                       THEN p = newest[i] => i \in WebInStep'
                       ELSE i \in WebInStep => i \in WebInStep'
  <2> TAKE i \in Ids
  <2>1. IF Id(Normalised(p)) = i
          THEN newest[i] = p => Shows(Merged(web, p), i, newest[i])
          ELSE Shows(web, i, newest[i]) => Shows(Merged(web, p), i, newest[i])
    BY <1>2, <1>5, SizesTyped, MergeShows
  <2>2. i \in WebInStep => Shows(web, i, newest[i])
    BY <1>1 DEF WebInStep, MergedAhead
  <2>3. Shows(Merged(web, p), i, newest[i]) => i \in WebInStep'
    BY <1>1 DEF WebInStep
  <2>4. QED
    BY <2>1, <2>2, <2>3
<1>7. Mirror(q, bus, missed, "web", newest, WebInStep)
  BY DEF Mirrors, q
<1>8. Mirror(Tail(q), bus, missed, "web", newest, WebInStep')
  BY <1>3, <1>6, <1>7, MirrorMerge
<1>9. CacheInStep' = CacheInStep /\ FlashInStep' = FlashInStep
  BY <1>1 DEF CacheInStep, FlashInStep, Saved
<1>10. QED
  BY <1>1, <1>4, <1>8, <1>9 DEF Mirrors

LEMMA CacheMergeMirrored ==
  ASSUME FlowInv, Mirrors, CacheMerge
  PROVE  Mirrors'
<1> DEFINE q == queue["cache"]
           p == Head(q)
<1>1. /\ UNCHANGED <<flash, web, http, bus, hand, newest, missed, unsaved>>
      /\ cache' = Merged(cache, p) /\ q # <<>>
      /\ queue' = [queue EXCEPT !["cache"] = Tail(@)]
      /\ queue \in [Subscribers -> Seq(Point)] /\ q \in Seq(Point)
  BY DEF CacheMerge, FlowInv, Carried, Subscribers
<1>2. p \in Point
  BY <1>1, HeadTailProperties
<1>3. queue'["cache"] = Tail(q) /\ queue'["web"] = queue["web"] /\ queue'["nvs"] = queue["nvs"]
  BY <1>1 DEF Subscribers
<1>4. cache \in [1..CacheSize -> Point] /\ Kept(cache)
  <2> HIDE DEF p
  <2>1. QED
    BY <1>2, SizesTyped DEF FlowInv, Stored
<1>5. \A i \in Ids : IF Id(Normalised(p)) = i
                       THEN p = newest[i] => i \in CacheInStep'
                       ELSE i \in CacheInStep => i \in CacheInStep'
  <2> HIDE DEF p
  <2> TAKE i \in Ids
  <2>1. IF Id(Normalised(p)) = i
          THEN newest[i] = p => Shows(Merged(cache, p), i, newest[i])
          ELSE Shows(cache, i, newest[i]) => Shows(Merged(cache, p), i, newest[i])
    BY <1>2, <1>4, SizesTyped, MergeShows
  <2>2. QED
    BY <1>1, <2>1 DEF CacheInStep
<1>6. Mirror(Tail(q), bus, missed, "cache", newest, CacheInStep')
  BY <1>1, <1>5, MirrorMerge DEF Mirrors
<1>7. WebInStep' = WebInStep /\ FlashInStep' = FlashInStep
  BY <1>1 DEF WebInStep, FlashInStep, Saved, MergedAhead
<1>8. QED
  BY <1>1, <1>3, <1>6, <1>7 DEF Mirrors

\* The store writes what the point leaves in the flash, or the write fails and is
\* noted; a point under another key than the table's concerns no record.
LEMMA NvsSaveMirrored ==
  ASSUME FlowInv, Mirrors, NvsSave
  PROVE  Mirrors'
<1> DEFINE q == queue["nvs"]
           p == Head(q)
<1>1. /\ UNCHANGED <<cache, web, http, bus, hand, newest, missed>>
      /\ IF p.type \in Settings /\ p.key = ZeroKey
           THEN \E done \in BOOLEAN : Save(p.type, p, done)
           ELSE UNCHANGED <<flash, unsaved>>
      /\ q # <<>> /\ queue' = [queue EXCEPT !["nvs"] = Tail(@)]
      /\ queue \in [Subscribers -> Seq(Point)] /\ q \in Seq(Point)
      /\ flash \in [Settings -> Point]
  BY DEF NvsSave, FlowInv, Carried, Stored, Subscribers
<1>2. p \in Point
  BY <1>1, HeadTailProperties
<1>3. queue'["nvs"] = Tail(q) /\ queue'["web"] = queue["web"] /\ queue'["cache"] = queue["cache"]
  BY <1>1 DEF Subscribers
<1>4. \A i \in Ids : IF Id(Normalised(p)) = i
                       THEN p = newest[i] => i \in FlashInStep'
                       ELSE i \in FlashInStep => i \in FlashInStep'
  <2> HIDE DEF p
  <2>1. CASE p.type \in Settings /\ p.key = ZeroKey
    <3>1. PICK done \in BOOLEAN : Save(p.type, p, done)
      BY <1>1, <2>1
    <3>2. Id(p) = <<p.type, ZeroKey>> /\ Normalised(p) = p
      BY <1>2, <2>1, PointNormalised, PointsAssumption DEF Id
    <3>3. /\ \A t \in Settings \ {p.type} :
                flash'[t] = flash[t] /\ (t \in unsaved' <=> t \in unsaved)
          /\ p.type \notin unsaved' => flash'[p.type] = Written(p)
      BY <1>1, <2>1, <3>1 DEF Save
    <3> TAKE i \in Ids
    <3>4. CASE i[1] = p.type
      <4>1. Id(Normalised(p)) = i => (p = newest[i] => i \in FlashInStep')
        BY <1>1, <3>3, <3>4 DEF FlashInStep, Saved
      <4>2. Id(Normalised(p)) # i => i \notin (Settings \ unsaved') \X {ZeroKey}
        BY <3>2, <3>4
      <4>3. QED
        BY <4>1, <4>2 DEF FlashInStep, Saved
    <3>5. CASE i[1] # p.type
      <4>1. Id(Normalised(p)) # i
        BY <3>2, <3>5
      <4>2. i \in FlashInStep => i \in FlashInStep'
        BY <1>1, <3>3, <3>5 DEF FlashInStep, Saved
      <4>3. QED
        BY <4>1, <4>2
    <3>6. QED
      BY <3>4, <3>5
  <2>2. CASE ~(p.type \in Settings /\ p.key = ZeroKey)
    <3>1. FlashInStep' = FlashInStep
      BY <1>1, <2>2 DEF FlashInStep, Saved
    <3>2. \A i \in Ids : p = newest[i] => i \in FlashInStep
      BY <2>2 DEF FlashInStep, Saved, Id
    <3>3. QED
      BY <3>1, <3>2
  <2>3. QED
    BY <2>1, <2>2
<1>5. Mirror(Tail(q), bus, missed, "nvs", newest, FlashInStep')
  BY <1>1, <1>4, MirrorMerge DEF Mirrors
<1>6. WebInStep' = WebInStep /\ CacheInStep' = CacheInStep
  BY <1>1 DEF WebInStep, CacheInStep, MergedAhead
<1>7. QED
  BY <1>1, <1>3, <1>5, <1>6 DEF Mirrors

LEMMA MirrorsInit == Init => Mirrors
<1> SUFFICES ASSUME Init PROVE Mirrors
  OBVIOUS
<1>1. \A i, n : Places(<<>>, i) = {} /\ LastIs(<<>>, i, n)
  BY EmptySeq DEF Places, LastIs
<1>2. <<>> \o <<>> = <<>>
  BY EmptySeq, ConcatSimplifications
<1>3. \A i \in Ids : newest[i] = Unused /\ ~Named(Unused) /\ ~Named(Normalised(Unused))
  BY UnusedPoint, PointNormalised DEF Init, Named
<1>4. \A i \in Ids : Shows(web, i, newest[i]) /\ Shows(cache, i, newest[i])
  BY <1>3 DEF Init, Shows, Shown, Visible
<1>5. \A i \in Ids : Saved(i)
  <2>1. \A i \in Settings \X {ZeroKey} : i[1] # NoType
    BY PointsAssumption, FlowAssumption
  <2>2. Id(Unused)[1] = NoType
    BY DEF Id, Unused
  <2>3. QED
    BY <1>3, <2>1, <2>2 DEF Saved
<1>6. /\ queue["web"] = <<>> /\ queue["cache"] = <<>> /\ queue["nvs"] = <<>> /\ hand = <<>>
  BY DEF Init, Subscribers
<1>7. QED
  BY <1>1, <1>2, <1>4, <1>5, <1>6 DEF Mirrors, Mirror, CacheInStep, WebInStep, FlashInStep

LEMMA MirrorsStep ==
  FlowInv /\ Mirrors /\ [Next]_vars => Mirrors'
<1> SUFFICES ASSUME FlowInv, Mirrors, [Next]_vars PROVE Mirrors'
  OBVIOUS
<1>1. CASE \/ \E d \in Devices : Offer(d)
           \/ TickDue \/ TickPublish \/ TickDone \/ Settled \/ UNCHANGED vars
  <2>1. UNCHANGED <<web, cache, flash, http, bus, queue, hand, newest, missed, unsaved>>
    BY <1>1 DEF Offer, TickDue, TickPublish, TickDone, Settled, vars
  <2>2. QED
    BY <2>1, StaysMirrored
<1>2. CASE PostDecoded \/ Http
  BY <1>2, PostMirrored, PostMergeMirrored DEF Http
<1>3. CASE Bus \/ \E t \in Threads : Take(t) \/ TakeTimesOut(t)
  BY <1>3, TakeMirrored, DeliverMirrored, FinishMirrored, CloneTimesOutMirrored,
     TakeTimesOutMirrored DEF Bus
<1>4. CASE WebReceive \/ WebMerge \/ CacheMerge \/ NvsSave
  BY <1>4, WebReceiveMirrored, WebMergeMirrored, CacheMergeMirrored, NvsSaveMirrored
<1>5. QED
  BY <1>1, <1>2, <1>3, <1>4 DEF Next

\* Both caches, as long as they have a slot free, and the flash hold the last value
\* that was put on the channel for an identity as soon as no message of it is on its
\* way to them, unless their last message of it was lost or the flash refused it:
\* whatever the points that are published, with or without a type, a key or a known
\* data type, the interleaving of the publishers, the handler's early merges and the
\* subscribers, however many buffers there are.
THEOREM MirrorsFollow == Spec => []MirrorsWhenDrained
<1>1. FlowInv /\ Mirrors => MirrorsWhenDrained
  <2> SUFFICES ASSUME FlowInv, Mirrors, NEW i \in Ids
               PROVE  /\ ~Coming("cache", i) /\ <<"cache", i>> \notin missed => InStep(cache, i)
                      /\ ~Coming("web", i) /\ <<"web", i>> \notin missed /\ ~MergedAhead(i)
                           => InStep(web, i)
                      /\ ~Coming("nvs", i) /\ <<"nvs", i>> \notin missed => Saved(i)
    BY DEF MirrorsWhenDrained
  <2>1. \A s \in Subscribers :
          ~Coming(s, i) => ~Expects(bus, s, i) /\ Places(queue[s], i) = {}
    BY DEF Coming, Expects, Places
  <2>2. ASSUME ~Coming("cache", i), <<"cache", i>> \notin missed PROVE InStep(cache, i)
    <3>1. i \in CacheInStep
      BY <2>1, <2>2 DEF Mirrors, Mirror, Subscribers
    <3>2. QED
      BY <3>1 DEF CacheInStep, Shows, InStep
  <2>3. ASSUME ~Coming("web", i), <<"web", i>> \notin missed, ~MergedAhead(i)
        PROVE  InStep(web, i)
    <3> DEFINE q == queue["web"]
    <3>1. ~Expects(bus, "web", i) /\ Places(q, i) = {} /\ q \in Seq(Point)
      BY <2>1, <2>3, ListsTyped DEF Subscribers, FlowInv
    <3>2. Places(hand \o q, i) = {}
      <4>1. CASE hand = <<>>
        BY <3>1, <4>1, ConcatSimplifications
      <4>2. CASE hand # <<>>
        <5>1. /\ Head(hand) \in Point /\ hand = <<Head(hand)>> /\ hand[1] = Head(hand)
              /\ hand \in Seq(Point)
          BY <4>2, ListsTyped DEF FlowInv
        <5>2. Id(Normalised(Head(hand))) # i
          BY <2>3, <4>2, <5>1 DEF Coming
        <5> DEFINE a == hand \o q
        <5>3. a \in Seq(Point) /\ a # <<>> /\ Head(a) = Head(hand) /\ Tail(a) = q
          <6> DEFINE x == Head(hand)
          <6>1. x \in Point /\ hand = <<x>> /\ q \in Seq(Point)
            BY <3>1, <5>1
          <6> HIDE DEF x, q
          <6>2. /\ <<x>> \o q \in Seq(Point) /\ <<x>> \o q # <<>>
                /\ Head(<<x>> \o q) = x /\ Tail(<<x>> \o q) = q
            BY <6>1, PutInFront
          <6>3. a \in Seq(Point) /\ a # <<>> /\ Head(a) = x /\ Tail(a) = q
            BY <6>1, <6>2
          <6>4. QED
            BY <6>3 DEF x
        <5> HIDE DEF a, q
        <5>4. ASSUME NEW k \in Places(a, i) PROVE FALSE
          <6>1. /\ Len(a) \in Nat /\ DOMAIN a = 1..Len(a) /\ Head(a) = a[1]
                /\ DOMAIN q = 1..(Len(a) - 1) /\ \A l \in 1..(Len(a) - 1) : q[l] = a[l + 1]
            <7>1. a \in Seq(Point) /\ a # <<>> /\ Tail(a) = q
              BY <5>3
            <7>2. /\ Head(a) = a[1] /\ Len(Tail(a)) = Len(a) - 1 /\ Tail(a) \in Seq(Point)
                  /\ \A l \in 1..Len(Tail(a)) : Tail(a)[l] = a[l + 1]
              BY <7>1, HeadTailProperties
            <7>3. Len(a) \in Nat /\ DOMAIN a = 1..Len(a) /\ DOMAIN Tail(a) = 1..Len(Tail(a))
              BY <7>1, <7>2, LenProperties
            <7>4. QED
              BY <7>1, <7>2, <7>3
          <6>2. k # 1
            BY <5>2, <5>3, <5>4, <6>1 DEF Places
          <6>3. k - 1 \in Places(q, i)
            BY <5>4, <6>1, <6>2 DEF Places
          <6>4. QED
            BY <3>1, <6>3
        <5>5. QED
          BY <5>4 DEF a
      <4>3. QED
        BY <4>1, <4>2
    <3>3. i \in WebInStep
      BY <2>3, <3>1, <3>2 DEF Mirrors, Mirror
    <3>4. QED
      BY <2>3, <3>3 DEF WebInStep, Shows, InStep
  <2>4. ASSUME ~Coming("nvs", i), <<"nvs", i>> \notin missed PROVE Saved(i)
    <3>1. i \in FlashInStep
      BY <2>1, <2>4 DEF Mirrors, Mirror, Subscribers
    <3>2. QED
      BY <3>1 DEF FlashInStep
  <2>5. QED
    BY <2>2, <2>3, <2>4
<1>2. QED
  BY <1>1, FlowInit, FlowStep, MirrorsInit, MirrorsStep, PTL DEF Spec
=============================================================================
