------------------------- MODULE SettingsPageProofs -------------------------
(***************************************************************************)
(* Proofs about the settings page and the web server behind it, for any    *)
(* set of settings, any number of connections and of lost requests.        *)
(***************************************************************************)
EXTENDS SettingsPage, SequenceTheorems, WellFoundedInduction, TLAPS

(***************************************************************************)
(* Lists of changes                                                        *)
(***************************************************************************)

\* The last of the positions at which a setting is changed.
LEMMA MaxIsLast ==
  ASSUME NEW n \in Nat, NEW S, S \subseteq 1..n, S # {}
  PROVE  Max(S) \in S /\ \A m \in S : m <= Max(S)
<1> DEFINE D == {n - k : k \in S}
<1>1. D \subseteq Nat /\ D # {}
  <2>1. \A k \in S : n - k \in Nat
    OBVIOUS
  <2>2. PICK k \in S : TRUE
    OBVIOUS
  <2>3. n - k \in D
    OBVIOUS
  <2>4. QED
    BY <2>1, <2>3
<1>2. PICK d \in D : \A e \in D : ~(<<e, d>> \in OpToRel(<, Nat))
  BY <1>1, NatLessThanWellFounded, WFMin, Zenon
<1>3. PICK k \in S : d = n - k
  OBVIOUS
<1>4. ASSUME NEW m \in S PROVE k >= m
  <2>1. n - m \in D /\ n - m \in Nat /\ d \in Nat /\ m \in Nat /\ k \in Nat
    BY <1>1
  <2>2. ~(n - m < d)
    BY <1>2, <2>1 DEF OpToRel
  <2>3. QED
    BY <1>3, <2>1, <2>2
<1>5. \E x \in S : \A y \in S : x >= y
  BY <1>4
<1>6. Max(S) \in S /\ \A m \in S : Max(S) >= m
  BY <1>5 DEF Max
<1>7. QED
  BY <1>6

LEMMA ChangesTyped ==
  ASSUME NEW a \in Seq(Change)
  PROVE  /\ Len(a) \in Nat /\ DOMAIN a = 1..Len(a)
         /\ \A k \in DOMAIN a : a[k] \in Change /\ a[k][1] \in Settings /\ a[k][2] \in Stamps
         /\ \A s : ChangesOf(a, s) \subseteq 1..Len(a)
<1>1. Len(a) \in Nat /\ DOMAIN a = 1..Len(a) /\ \A k \in 1..Len(a) : a[k] \in Change
  BY LenProperties, ElementOfSeq
<1>2. QED
  BY <1>1 DEF Change, ChangesOf

\* What a list does to the value of one setting.
LEMMA ChangedValue ==
  ASSUME NEW a \in Seq(Change), NEW v, NEW s \in Settings
  PROVE  /\ ChangesOf(a, s) = {} => Changed(v, a)[s] = v[s]
         /\ ChangesOf(a, s) # {} =>
              \E k \in ChangesOf(a, s) : /\ Changed(v, a)[s] = a[k][2]
                                         /\ \A m \in ChangesOf(a, s) : m <= k
BY ChangesTyped, MaxIsLast DEF Changed

\* It is the change at the last position of that setting.
LEMMA ChangedAt ==
  ASSUME NEW a \in Seq(Change), NEW v, NEW s \in Settings,
         NEW k \in ChangesOf(a, s), \A m \in ChangesOf(a, s) : m <= k
  PROVE  Changed(v, a)[s] = a[k][2]
<1>1. ChangesOf(a, s) \subseteq Nat
  BY ChangesTyped
<1>2. PICK l \in ChangesOf(a, s) : /\ Changed(v, a)[s] = a[l][2]
                                   /\ \A m \in ChangesOf(a, s) : m <= l
  BY ChangedValue
<1>3. l = k
  BY <1>1, <1>2
<1>4. QED
  BY <1>2, <1>3

LEMMA ChangedTyped ==
  ASSUME NEW a \in Seq(Change), NEW v \in Values
  PROVE  Changed(v, a) \in Values
<1>1. \A s \in Settings : Changed(v, a)[s] \in Stamps
  <2> TAKE s \in Settings
  <2>1. CASE ChangesOf(a, s) = {}
    BY <2>1, ChangedValue DEF Values
  <2>2. CASE ChangesOf(a, s) # {}
    BY <2>2, ChangedValue, ChangesTyped DEF ChangesOf
  <2>3. QED
    BY <2>1, <2>2
<1>2. Changed(v, a) = [s \in Settings |-> Changed(v, a)[s]]
  BY DEF Changed
<1>3. QED
  BY <1>1, <1>2 DEF Values

\* Of two lists in a row the second counts, unless it leaves the setting alone.
LEMMA ChangedInTurn ==
  ASSUME NEW a \in Seq(Change), NEW b \in Seq(Change), NEW v, NEW s \in Settings
  PROVE  /\ ChangesOf(b, s) # {} => Changed(v, a \o b)[s] = Changed(v, b)[s]
         /\ ChangesOf(b, s) = {} => Changed(v, a \o b)[s] = Changed(v, a)[s]
<1> DEFINE c == a \o b
<1>1. /\ c \in Seq(Change) /\ Len(c) = Len(a) + Len(b) /\ Len(a) \in Nat /\ Len(b) \in Nat
      /\ DOMAIN a = 1..Len(a) /\ DOMAIN b = 1..Len(b) /\ DOMAIN c = 1..Len(c)
      /\ \A i \in 1..(Len(a) + Len(b)) : c[i] = IF i <= Len(a) THEN a[i] ELSE b[i - Len(a)]
  BY ConcatProperties, ChangesTyped
<1> HIDE DEF c
<1>2. \A i \in DOMAIN a : i \in DOMAIN c /\ c[i] = a[i]
  BY <1>1
<1>3. \A i \in DOMAIN b : Len(a) + i \in DOMAIN c /\ c[Len(a) + i] = b[i]
  BY <1>1
<1>4. \A i \in DOMAIN c : i \in DOMAIN a \/ (i - Len(a) \in DOMAIN b /\ i = Len(a) + (i - Len(a)))
  BY <1>1
<1>5. CASE ChangesOf(b, s) # {}
  <2>1. PICK k \in ChangesOf(b, s) : /\ Changed(v, b)[s] = b[k][2]
                                     /\ \A m \in ChangesOf(b, s) : m <= k
    BY <1>5, ChangedValue
  <2>2. Len(a) + k \in ChangesOf(c, s) /\ k \in 1..Len(b)
    BY <1>1, <1>3, <2>1 DEF ChangesOf
  <2>3. ASSUME NEW m \in ChangesOf(c, s) PROVE m <= Len(a) + k
    <3>1. CASE m \in DOMAIN a
      BY <1>1, <2>2, <3>1
    <3>2. CASE m - Len(a) \in DOMAIN b /\ m = Len(a) + (m - Len(a))
      <4>1. m - Len(a) \in ChangesOf(b, s)
        BY <1>3, <2>3, <3>2 DEF ChangesOf
      <4>2. m - Len(a) <= k
        BY <2>1, <4>1
      <4>3. m \in Nat
        BY <1>1, <2>3 DEF ChangesOf
      <4>4. QED
        BY <1>1, <2>2, <4>2, <4>3
    <3>3. QED
      BY <1>4, <2>3, <3>1, <3>2 DEF ChangesOf
  <2>4. Changed(v, c)[s] = c[Len(a) + k][2]
    BY <1>1, <2>2, <2>3, ChangedAt
  <2>5. c[Len(a) + k] = b[k]
    BY <1>1, <1>3, <2>2
  <2>6. QED
    BY <1>5, <2>1, <2>4, <2>5 DEF c
<1>6. CASE ChangesOf(b, s) = {}
  <2>1. ChangesOf(c, s) = ChangesOf(a, s)
    <3>1. ChangesOf(a, s) \subseteq ChangesOf(c, s)
      BY <1>2 DEF ChangesOf
    <3>2. ChangesOf(c, s) \subseteq ChangesOf(a, s)
      BY <1>2, <1>3, <1>4, <1>6 DEF ChangesOf
    <3>3. QED
      BY <3>1, <3>2
  <2>2. CASE ChangesOf(a, s) = {}
    <3>1. Changed(v, c)[s] = v[s]
      BY <1>1, <2>1, <2>2, ChangedValue
    <3>2. Changed(v, a)[s] = v[s]
      BY <2>2, ChangedValue
    <3>3. QED
      BY <1>6, <3>1, <3>2 DEF c
  <2>3. CASE ChangesOf(a, s) # {}
    <3>1. PICK k \in ChangesOf(a, s) : /\ Changed(v, a)[s] = a[k][2]
                                       /\ \A m \in ChangesOf(a, s) : m <= k
      BY <2>3, ChangedValue
    <3>2. Changed(v, c)[s] = c[k][2] /\ c[k] = a[k]
      BY <1>1, <1>2, <2>1, <3>1, ChangedAt DEF ChangesOf
    <3>3. QED
      BY <1>6, <3>1, <3>2 DEF c
  <2>4. QED
    BY <2>2, <2>3
<1>7. QED
  BY <1>5, <1>6

\* web_thread, by merging the oldest of the echoes, changes nothing of what they
\* will all have brought in the end.
LEMMA ChangedStepwise ==
  ASSUME NEW a \in Seq(Change), a # <<>>, NEW v
  PROVE  Changed(Changed(v, <<Head(a)>>), Tail(a)) = Changed(v, a)
<1> DEFINE h == <<Head(a)>>
           t == Tail(a)
           w == Changed(v, h)
<1>1. h \in Seq(Change) /\ t \in Seq(Change) /\ a = h \o t
  BY HeadTailProperties, ConcatSimplifications
<1> HIDE DEF h, t
<1>2. ASSUME NEW s \in Settings PROVE Changed(w, t)[s] = Changed(v, h \o t)[s]
  <2>1. CASE ChangesOf(t, s) = {}
    BY <1>1, <2>1, ChangedValue, ChangedInTurn
  <2>2. CASE ChangesOf(t, s) # {}
    <3>1. Changed(v, h \o t)[s] = Changed(v, t)[s]
      BY <1>1, <2>2, ChangedInTurn
    <3>2. Changed(w, t)[s] = Changed(v, t)[s]
      BY <2>2 DEF Changed
    <3>3. QED
      BY <3>1, <3>2
  <2>3. QED
    BY <2>1, <2>2
<1>3. Changed(w, t) = Changed(v, h \o t)
  BY <1>2 DEF Changed
<1>4. QED
  BY <1>1, <1>3 DEF h, t

\* A list with one change of each setting makes that change.
OnePerSetting(a) == \A j, k \in DOMAIN a : a[j][1] = a[k][1] => j = k

LEMMA ChangedOnce ==
  ASSUME NEW a \in Seq(Change), OnePerSetting(a), NEW v, NEW s \in Settings, NEW x,
         <<s, x>> \in ToSet(a)
  PROVE  ChangesOf(a, s) # {} /\ Changed(v, a)[s] = x
<1>1. PICK k \in DOMAIN a : a[k] = <<s, x>>
  BY DEF ToSet
<1>2. k \in ChangesOf(a, s) /\ \A m \in ChangesOf(a, s) : m = k
  BY <1>1 DEF ChangesOf, OnePerSetting
<1>3. k \in Nat
  BY <1>1, ChangesTyped
<1>4. Changed(v, a)[s] = a[k][2]
  BY <1>2, <1>3, ChangedAt
<1>5. QED
  BY <1>1, <1>2, <1>4

LEMMA TouchedMeansChanged ==
  ASSUME NEW a \in Seq(Change), NEW s
  PROVE  /\ s \in Touched(a) <=> ChangesOf(a, s) # {}
         /\ s \in Touched(a) => s \in Settings
BY ChangesTyped DEF Touched, ToSet, ChangesOf, Change

\* What is heard of a body are changes of the body.
LEMMA HeardOfBody ==
  ASSUME NEW a \in Seq(Change), NEW h \in Heard(a)
  PROVE  /\ h \in Seq(Change)
         /\ \A k \in DOMAIN h : \E j \in DOMAIN a : h[k] = a[j]
<1>1. Len(a) \in Nat /\ \A k \in DOMAIN a : a[k] \in Change
  BY ChangesTyped
<1>2. PICK n \in 0..Len(a) :
        h \in {[k \in 1..n |-> a[at[k]]] :
                 at \in {f \in [1..n -> DOMAIN a] : \A j, k \in 1..n : j < k => f[j] < f[k]}}
  BY DEF Heard
<1>3. PICK at \in [1..n -> DOMAIN a] : h = [k \in 1..n |-> a[at[k]]]
  BY <1>2
<1>4. n \in Nat
  BY <1>1
<1>5. h \in [1..n -> Change]
  BY <1>1, <1>3
<1>6. QED
  BY <1>3, <1>4, <1>5, IsASeq

\* Of a body with one change of each setting, those that are heard are made, and
\* the settings that are not heard of stay.
LEMMA HeardChanges ==
  ASSUME NEW a \in Seq(Change), OnePerSetting(a), NEW h \in Heard(a), NEW s \in Settings,
         NEW v, NEW x, s \in Touched(a) => <<s, x>> \in ToSet(a)
  PROVE  /\ h \in Seq(Change) /\ Touched(h) \subseteq Touched(a)
         /\ s \in Touched(h) => ChangesOf(h, s) # {} /\ Changed(v, h)[s] = x
<1>1. h \in Seq(Change) /\ \A k \in DOMAIN h : \E j \in DOMAIN a : h[k] = a[j]
  BY HeardOfBody
<1>2. Touched(h) \subseteq Touched(a)
  BY <1>1 DEF Touched, ToSet
<1>3. ASSUME s \in Touched(h) PROVE ChangesOf(h, s) # {} /\ Changed(v, h)[s] = x
  <2>1. ChangesOf(h, s) # {}
    BY <1>1, <1>3, TouchedMeansChanged
  <2>2. PICK k \in ChangesOf(h, s) : Changed(v, h)[s] = h[k][2]
    BY <1>1, <2>1, ChangedValue
  <2>3. PICK j \in DOMAIN a : h[k] = a[j]
    BY <1>1, <2>2 DEF ChangesOf
  <2>4. PICK l \in DOMAIN a : a[l] = <<s, x>>
    BY <1>2, <1>3 DEF ToSet
  <2>5. l = j
    BY <2>2, <2>3, <2>4 DEF OnePerSetting, ChangesOf
  <2>6. QED
    BY <2>1, <2>2, <2>3, <2>4, <2>5
<1>4. QED
  BY <1>1, <1>2, <1>3

(***************************************************************************)
(* One payload buffer for all connections                                  *)
(***************************************************************************)

\* A connection between two pieces of its body holds the resource; of the bodies
\* of the others nothing has been taken.
OneHolder ==
  /\ holder # "none" => Unanswered(holder) /\ conn[holder].kind = "POST"
  /\ \A c \in Conns : Unanswered(c) /\ c # holder => conn[c].sent = 0

\* What may be on a connection.
Requests ==
  \A c \in Conns :
    /\ conn[c].kind = "none" => conn[c] = NoRequest
    /\ conn[c].kind # "POST" => conn[c].body = <<>>
    /\ OnePerSetting(conn[c].body)

BufferInv == TypeOK /\ OwnBytesOnly /\ OneHolder /\ Requests

RequestSet == [kind : {"none", "GET", "POST"}, body : Seq(Change), sent : Nat,
               reply : {"none", "ok", "error"}, vals : Values, waiting : BOOLEAN]

LEMMA StampsTyped ==
  /\ 0 \in Stamps /\ Stamps \subseteq Nat /\ "none" \notin Conns
  /\ NoRequest \in RequestSet /\ NoRequest.body = <<>> /\ NoRequest.sent = 0
  /\ NoRequest.kind = "none" /\ NoRequest.reply = "none" /\ NoRequest.waiting = FALSE
<1>1. 0 \in Stamps /\ Stamps \subseteq Nat /\ "none" \notin Conns
  BY WebApiAssumption DEF Stamps
<1>2. <<>> \in Seq(Change) /\ [s \in Settings |-> 0] \in Values
  BY <1>1 DEF Values
<1>3. QED
  BY <1>1, <1>2 DEF NoRequest, RequestSet

LEMMA ConnectionTyped ==
  ASSUME TypeOK, NEW c \in Conns
  PROVE  /\ conn \in [Conns -> RequestSet] /\ conn[c] \in RequestSet /\ c # "none"
         /\ conn[c].body \in Seq(Change) /\ Len(conn[c].body) \in Nat
         /\ conn[c].sent \in 0..Len(conn[c].body)
<1>1. /\ conn \in [Conns -> RequestSet] /\ conn[c] \in RequestSet
      /\ conn[c].sent <= Len(conn[c].body)
  BY DEF TypeOK, ApiTypeOK, RequestSet
<1>2. conn[c].body \in Seq(Change) /\ conn[c].sent \in Nat
  BY <1>1 DEF RequestSet
<1>3. QED
  BY <1>1, <1>2, LenProperties, StampsTyped

\* The next piece of a body continues what has been kept of it.
LEMMA PieceContinues ==
  ASSUME BufferInv, NEW c \in Conns, Posting(c), NEW n \in Pieces(c)
  PROVE  /\ n \in Nat /\ conn[c].sent + n \in 0..Len(conn[c].body)
         /\ Piece(c, n) \in Seq(Change) /\ payload \in Seq(Change)
         /\ payload \o Piece(c, n) = SubSeq(conn[c].body, 1, conn[c].sent + n)
<1> DEFINE b == conn[c].body
           m == conn[c].sent
<1>1. /\ b \in Seq(Change) /\ Len(b) \in Nat /\ m \in 0..Len(b) /\ c # "none"
      /\ n \in 0..(Len(b) - m) /\ payload \in Seq(Change)
  BY ConnectionTyped DEF BufferInv, Pieces, TypeOK, ApiTypeOK
<1>2. payload = SubSeq(b, 1, m)
  <2>1. CASE holder = c
    BY <1>1, <2>1 DEF BufferInv, OwnBytesOnly
  <2>2. CASE holder = "none"
    <3>1. payload = <<>> /\ m = 0
      BY <1>1, <2>2 DEF BufferInv, OwnBytesOnly, OneHolder, Posting
    <3>2. QED
      BY <3>1, SubSeqEmpty
  <2>3. QED
    BY <2>1, <2>2 DEF Posting
<1> HIDE DEF b, m
<1>3. m + n \in 0..Len(b) /\ n \in Nat
  BY <1>1
<1>4. SubSeq(b, 1, m) \o SubSeq(b, m + 1, m + n) = SubSeq(b, 1, m + n)
  BY <1>1, <1>3, ConcatAdjacentSubSeq
<1>5. SubSeq(b, m + 1, m + n) \in Seq(Change)
  <2>1. \A k \in (m + 1)..(m + n) : b[k] \in Change
    BY <1>1, <1>3, ElementOfSeq
  <2>2. QED
    BY <1>1, <1>3, <2>1, SubSeqProperties
<1>6. QED
  BY <1>1, <1>2, <1>3, <1>4, <1>5 DEF Piece, b, m

\* The last piece completes the body.
LEMMA FinalPiece ==
  ASSUME BufferInv, NEW c \in Conns, Posting(c), NEW n \in Pieces(c), Final(c, n)
  PROVE  payload \o Piece(c, n) = conn[c].body
<1>1. /\ Piece(c, n) \in Seq(Change) /\ payload \in Seq(Change)
      /\ payload \o Piece(c, n) = SubSeq(conn[c].body, 1, Len(conn[c].body))
  BY PieceContinues DEF Final
<1>2. payload \o Piece(c, n) = conn[c].body
  BY <1>1, ConnectionTyped, SubSeqFull DEF BufferInv
<1>3. QED
  BY <1>2

\* A step that changes one connection, to r.
Sound(r) ==
  /\ r \in RequestSet /\ r.sent <= Len(r.body)
  /\ r.kind = "none" => r = NoRequest
  /\ r.kind # "POST" => r.body = <<>>
  /\ OnePerSetting(r.body)

LEMMA SoundNow ==
  ASSUME BufferInv, NEW c \in Conns
  PROVE  Sound(conn[c])
BY ConnectionTyped DEF BufferInv, Requests, Sound

LEMMA SoundNoRequest == Sound(NoRequest)
<1>1. Len(<<>>) = 0 /\ DOMAIN <<>> = {}
  BY EmptySeq
<1>2. QED
  BY <1>1, StampsTyped DEF Sound, OnePerSetting

LEMMA OneConnection ==
  ASSUME BufferInv, NEW c \in Conns, NEW r, Sound(r), conn' = [conn EXCEPT ![c] = r]
  PROVE  /\ conn' \in [Conns -> RequestSet]
         /\ \A d \in Conns : conn'[d].sent <= Len(conn'[d].body)
         /\ conn'[c] = r
         /\ \A d \in Conns \ {c} : conn'[d] = conn[d]
         /\ Requests'
<1>1. conn \in [Conns -> RequestSet] /\ \A d \in Conns : Sound(conn[d])
  BY SoundNow, ConnectionTyped DEF BufferInv
<1>2. conn'[c] = r /\ \A d \in Conns \ {c} : conn'[d] = conn[d]
  BY <1>1
<1>3. \A d \in Conns : Sound(conn'[d])
  BY <1>1, <1>2
<1>4. conn' \in [Conns -> RequestSet]
  BY <1>1 DEF Sound
<1>5. QED
  BY <1>2, <1>3, <1>4 DEF Sound, Requests

\* An answer ends the request that it is an answer to, and the hold if it has it.
LEMMA AnswerKeeps ==
  ASSUME BufferInv, NEW c \in Conns, NEW r, Sound(r), r.kind = "none" \/ r.reply # "none",
         conn' = [conn EXCEPT ![c] = r],
         \/ holder # c /\ holder' = holder /\ payload' = payload
         \/ holder \in {"none", c} /\ holder' = "none" /\ payload' = <<>>,
         web' \in Values, echo' \in Seq(Change), dropped' \subseteq Settings, PageTypeOK'
  PROVE  BufferInv'
<1>1. /\ conn' \in [Conns -> RequestSet]
      /\ \A d \in Conns : conn'[d].sent <= Len(conn'[d].body)
      /\ conn'[c] = r
      /\ \A d \in Conns \ {c} : conn'[d] = conn[d]
      /\ Requests'
  BY OneConnection
<1>2. payload' \in Seq(Change) /\ holder' \in Conns \cup {"none"}
  <2>1. payload \in Seq(Change) /\ holder \in Conns \cup {"none"} /\ <<>> \in Seq(Change)
    BY DEF BufferInv, TypeOK, ApiTypeOK
  <2>2. QED
    BY <2>1
<1>3. TypeOK'
  BY <1>1, <1>2 DEF BufferInv, TypeOK, ApiTypeOK, RequestSet
<1>4. ~Unanswered(c)'
  BY <1>1 DEF Unanswered
<1>5. \A d \in Conns \ {c} : Unanswered(d)' = Unanswered(d)
  BY <1>1 DEF Unanswered
<1>6. OneHolder' /\ OwnBytesOnly'
  <2>1. CASE holder # c /\ holder' = holder /\ payload' = payload
    <3>1. holder \in Conns \cup {"none"}
      BY DEF BufferInv, TypeOK, ApiTypeOK
    <3>2. holder # "none" => conn'[holder] = conn[holder]
      BY <1>1, <2>1, <3>1
    <3>3. OwnBytesOnly'
      BY <2>1, <3>2 DEF BufferInv, OwnBytesOnly
    <3>4. OneHolder'
      BY <1>1, <1>4, <1>5, <2>1, <3>1, <3>2 DEF BufferInv, OneHolder
    <3>5. QED
      BY <3>3, <3>4
  <2>2. CASE holder \in {"none", c} /\ holder' = "none" /\ payload' = <<>>
    <3>1. \A d \in Conns : Unanswered(d)' => conn'[d].sent = 0
      BY <1>1, <1>4, <1>5, <2>2, StampsTyped DEF BufferInv, OneHolder
    <3>2. QED
      BY <2>2, <3>1 DEF OneHolder, OwnBytesOnly
  <2>3. QED
    BY <2>1, <2>2
<1>7. QED
  BY <1>1, <1>3, <1>6 DEF BufferInv

\* A request that is answered stays well formed.
LEMMA SoundReply ==
  ASSUME BufferInv, NEW c \in Conns, Unanswered(c), NEW x \in {"ok", "error"}
  PROVE  /\ Sound([conn[c] EXCEPT !.reply = x])
         /\ [conn[c] EXCEPT !.reply = x].reply = x
<1>1. Sound(conn[c]) /\ conn[c].kind # "none"
  BY SoundNow DEF Unanswered
<1>2. QED
  BY <1>1 DEF Sound, RequestSet

LEMMA ServeKeeps ==
  ASSUME BufferInv, NEW c \in Conns, Serve(c), UNCHANGED pageVars
  PROVE  BufferInv'
<1>1. /\ web \in Values /\ echo \in Seq(Change) /\ payload \in Seq(Change)
      /\ dropped \subseteq Settings
      /\ conn \in [Conns -> RequestSet] /\ conn[c] \in RequestSet
      /\ PageTypeOK'
  BY ConnectionTyped DEF BufferInv, TypeOK, ApiTypeOK, PageTypeOK, pageVars
<1>2. CASE Conflict(c)
  <2> DEFINE r == [conn[c] EXCEPT !.reply = "error"]
  <2>1. conn' = [conn EXCEPT ![c] = r] /\ Unanswered(c) /\ holder # c
        /\ UNCHANGED <<holder, payload, web, echo, dropped>>
    BY <1>1, <1>2 DEF Conflict, Replied
  <2>2. Sound(r) /\ r.reply # "none"
    BY <2>1, SoundReply
  <2> HIDE DEF r
  <2>3. QED
    BY <1>1, <2>1, <2>2, AnswerKeeps
<1>3. CASE ServeGet(c)
  <2> DEFINE r == [conn[c] EXCEPT !.reply = "ok", !.vals = web]
  <2>1. /\ conn' = [conn EXCEPT ![c] = r] /\ Unanswered(c) /\ holder = "none" /\ holder # c
        /\ UNCHANGED <<holder, payload, web, echo, dropped>>
    BY <1>1, <1>3, ConnectionTyped DEF ServeGet, BufferInv
  <2>2. Sound(r) /\ r.reply # "none"
    BY <1>1, <2>1, SoundNow DEF Sound, RequestSet, Unanswered
  <2> HIDE DEF r
  <2>3. QED
    BY <1>1, <2>1, <2>2, AnswerKeeps
<1>4. CASE Overflow(c)
  <2> DEFINE r == [conn[c] EXCEPT !.reply = "error"]
  <2>1. conn' = [conn EXCEPT ![c] = r] /\ Unanswered(c) /\ holder \in {"none", c}
        /\ holder' = "none" /\ payload' = <<>> /\ UNCHANGED <<web, echo, dropped>>
    BY <1>1, <1>4 DEF Overflow, Posting, Replied
  <2>2. Sound(r) /\ r.reply # "none"
    BY <2>1, SoundReply
  <2> HIDE DEF r
  <2>3. QED
    BY <1>1, <2>1, <2>2, AnswerKeeps
<1>5. CASE FinishPost(c)
  <2> DEFINE r == [conn[c] EXCEPT !.reply = "ok"]
  <2>1. conn' = [conn EXCEPT ![c] = r] /\ Unanswered(c) /\ holder \in {"none", c}
        /\ holder' = "none" /\ payload' = <<>>
    BY <1>1, <1>5 DEF FinishPost, Posting, Replied
  <2>2. PICK n \in Pieces(c) :
          /\ Final(c, n)
          /\ MergeAndPublish(payload \o Piece(c, n)) \/ RefuseBody(payload \o Piece(c, n))
    BY <1>5 DEF FinishPost
  <2> DEFINE b == conn[c].body
  <2>3. MergeAndPublish(b) \/ RefuseBody(b)
    BY <1>5, <2>2, FinalPiece DEF FinishPost
  <2>4. b \in Seq(Change) /\ Touched(b) \subseteq Settings
    BY <1>1, TouchedMeansChanged DEF RequestSet
  <2> HIDE DEF b
  <2>5. web' \in Values /\ echo' \in Seq(Change) /\ dropped' \subseteq Settings
    <3>1. CASE MergeAndPublish(b)
      <4>1. PICK h \in Heard(b) :
              /\ web' = Changed(web, b) /\ echo' = echo \o h
              /\ dropped' = (dropped \ Touched(b))
                              \cup ((Touched(b) \ Touched(h)) \cap Touched(echo))
        BY <3>1 DEF MergeAndPublish
      <4>2. web' \in Values
        BY <1>1, <2>4, <4>1, ChangedTyped
      <4>3. h \in Seq(Change)
        BY <2>4, HeardOfBody
      <4>4. echo' \in Seq(Change)
        BY <1>1, <4>1, <4>3, ConcatProperties
      <4>5. QED
        BY <1>1, <2>4, <4>1, <4>2, <4>4
    <3>2. CASE RefuseBody(b)
      BY <1>1, <2>4, <3>2 DEF RefuseBody
    <3>3. QED
      BY <2>3, <3>1, <3>2
  <2>6. Sound(r) /\ r.reply # "none"
    BY <2>1, SoundReply
  <2> HIDE DEF r
  <2>7. QED
    BY <1>1, <2>1, <2>5, <2>6, AnswerKeeps
<1>6. CASE Abort(c)
  <2>1. /\ conn' = [conn EXCEPT ![c] = NoRequest] /\ UNCHANGED <<web, echo, dropped>>
        /\ payload' = IF holder = c THEN <<>> ELSE payload
        /\ holder' = IF holder = c THEN "none" ELSE holder
    BY <1>6 DEF Abort
  <2>2. Sound(NoRequest) /\ NoRequest.kind = "none"
    BY SoundNoRequest, StampsTyped
  <2>3. QED
    BY <1>1, <2>1, <2>2, AnswerKeeps
<1>7. CASE KeepPiece(c)
  <2>1. PICK n \in Pieces(c) : /\ ~Final(c, n)
                               /\ payload' = payload \o Piece(c, n)
                               /\ conn' = [conn EXCEPT ![c].sent = @ + n]
    BY <1>7 DEF KeepPiece
  <2> DEFINE r == [conn[c] EXCEPT !.sent = @ + n]
  <2>2. /\ Posting(c) /\ holder' = c /\ UNCHANGED <<web, echo, dropped>>
        /\ conn' = [conn EXCEPT ![c] = r]
    BY <1>1, <1>7, <2>1 DEF KeepPiece
  <2>3. /\ n \in Nat /\ conn[c].sent + n \in 0..Len(conn[c].body)
        /\ Piece(c, n) \in Seq(Change)
        /\ payload' = SubSeq(conn[c].body, 1, conn[c].sent + n)
    BY <2>1, <2>2, PieceContinues
  <2>4. Sound(r) /\ r.sent = conn[c].sent + n /\ r.body = conn[c].body
        /\ r.kind = "POST" /\ r.reply = "none"
    <3>1. conn[c] \in RequestSet /\ conn[c].sent + n \in Nat
          /\ conn[c].sent + n <= Len(conn[c].body)
      BY <1>1, <2>3, ConnectionTyped DEF BufferInv
    <3>2. Sound(conn[c]) /\ conn[c].kind = "POST" /\ conn[c].reply = "none"
      BY <2>2, SoundNow DEF Posting, Unanswered
    <3>3. r \in RequestSet /\ r.sent = conn[c].sent + n /\ r.body = conn[c].body
          /\ r.kind = "POST" /\ r.reply = "none"
      BY <3>1, <3>2 DEF RequestSet
    <3> HIDE DEF r
    <3>4. QED
      BY <3>1, <3>2, <3>3 DEF Sound
  <2> HIDE DEF r
  <2>5. /\ conn' \in [Conns -> RequestSet]
        /\ \A d \in Conns : conn'[d].sent <= Len(conn'[d].body)
        /\ conn'[c] = r
        /\ \A d \in Conns \ {c} : conn'[d] = conn[d]
        /\ Requests'
    BY <2>2, <2>4, OneConnection
  <2>6. payload' \in Seq(Change)
    BY <1>1, <2>1, <2>3, ConcatProperties
  <2>7. TypeOK'
    BY <1>1, <2>2, <2>5, <2>6 DEF BufferInv, TypeOK, ApiTypeOK, RequestSet
  <2>8. OwnBytesOnly'
    BY <2>2, <2>3, <2>4, <2>5, ConnectionTyped DEF BufferInv, OwnBytesOnly
  <2>9. OneHolder'
    <3>1. Unanswered(c)' /\ conn'[c].kind = "POST"
      BY <2>4, <2>5 DEF Unanswered
    <3>2. ASSUME NEW d \in Conns, Unanswered(d)', d # c PROVE conn'[d].sent = 0
      BY <2>2, <2>5, <3>2, StampsTyped DEF Unanswered, Posting, BufferInv, OneHolder
    <3>3. QED
      BY <2>2, <3>1, <3>2 DEF OneHolder
  <2>10. QED
    BY <2>5, <2>7, <2>8, <2>9 DEF BufferInv
<1>8. QED
  BY <1>2, <1>3, <1>4, <1>5, <1>6, <1>7 DEF Serve

\* A request goes out on an idle connection, which holds nothing.
LEMMA RequestKeeps ==
  ASSUME BufferInv, NEW c \in Conns, conn[c].kind = "none",
         NEW kind \in {"GET", "POST"}, NEW body \in Seq(Change), OnePerSetting(body),
         kind = "GET" => body = <<>>,
         conn' = [conn EXCEPT ![c] = Request(kind, body)],
         UNCHANGED <<holder, payload, web, echo, dropped>>, PageTypeOK'
  PROVE  BufferInv'
<1> DEFINE r == Request(kind, body)
<1>1. /\ r \in RequestSet /\ r.sent = 0 /\ r.body = body /\ r.kind = kind
  BY StampsTyped DEF Request, RequestSet
<1>2. Len(body) \in Nat /\ r.sent <= Len(body)
  BY <1>1, LenProperties
<1> HIDE DEF r
<1>3. Sound(r)
  BY <1>1, <1>2 DEF Sound
<1>4. /\ conn' \in [Conns -> RequestSet]
      /\ \A d \in Conns : conn'[d].sent <= Len(conn'[d].body)
      /\ conn'[c] = r
      /\ \A d \in Conns \ {c} : conn'[d] = conn[d]
      /\ Requests'
  BY <1>3, OneConnection DEF r
<1>5. TypeOK'
  BY <1>4 DEF BufferInv, TypeOK, ApiTypeOK, RequestSet
<1>6. holder # c /\ holder \in Conns \cup {"none"}
  BY StampsTyped DEF BufferInv, OneHolder, Unanswered, TypeOK, ApiTypeOK
<1>7. OwnBytesOnly' /\ OneHolder'
  BY <1>1, <1>4, <1>6 DEF BufferInv, OwnBytesOnly, OneHolder, Unanswered
<1>8. QED
  BY <1>4, <1>5, <1>7 DEF BufferInv

LEMMA LostKeeps ==
  ASSUME BufferInv, NEW c \in Conns, Lost(c)
  PROVE  BufferInv'
<1> DEFINE r == [conn[c] EXCEPT !.waiting = FALSE]
<1>1. /\ conn \in [Conns -> RequestSet] /\ conn[c] \in RequestSet
      /\ conn[c].waiting = TRUE
  BY ConnectionTyped DEF Lost, BufferInv, RequestSet
<1>2. conn' = [conn EXCEPT ![c] = r] /\ UNCHANGED <<holder, payload, web, echo, dropped>>
  BY <1>1 DEF Lost
<1>3. PageTypeOK'
  <2>1. losses' \in 0..MaxLosses
    BY PageAssumption DEF Lost, BufferInv, TypeOK, PageTypeOK
  <2>2. points' \in [st : {"loading", "ok", "failed"}, vals : Values]
    BY DEF Lost, Failed, BufferInv, TypeOK, PageTypeOK
  <2>3. unsure' \subseteq Settings
    BY DEF Lost, LastSaved, BufferInv, TypeOK, PageTypeOK
  <2>4. QED
    BY <2>1, <2>2, <2>3 DEF Lost, BufferInv, TypeOK, PageTypeOK
<1>4. /\ r \in RequestSet /\ r.kind = conn[c].kind /\ r.sent = conn[c].sent
      /\ r.body = conn[c].body /\ r.reply = conn[c].reply
  BY <1>1 DEF RequestSet
<1>5. conn[c].kind # "none"
  BY <1>1, StampsTyped DEF BufferInv, Requests
<1> HIDE DEF r
<1>6. Sound(r)
  BY <1>4, <1>5, SoundNow DEF Sound
<1>7. /\ conn' \in [Conns -> RequestSet]
      /\ \A d \in Conns : conn'[d].sent <= Len(conn'[d].body)
      /\ conn'[c] = r
      /\ \A d \in Conns \ {c} : conn'[d] = conn[d]
      /\ Requests'
  BY <1>2, <1>6, OneConnection
<1>8. TypeOK'
  BY <1>2, <1>3, <1>7 DEF BufferInv, TypeOK, ApiTypeOK, RequestSet
<1>9. \A d \in Conns : /\ conn'[d].kind = conn[d].kind /\ conn'[d].sent = conn[d].sent
                       /\ conn'[d].body = conn[d].body /\ conn'[d].reply = conn[d].reply
  BY <1>4, <1>7
<1>10. holder \in Conns \cup {"none"}
  BY DEF BufferInv, TypeOK, ApiTypeOK
<1>11. OwnBytesOnly' /\ OneHolder'
  BY <1>2, <1>9, <1>10 DEF BufferInv, OwnBytesOnly, OneHolder, Unanswered
<1>12. QED
  BY <1>7, <1>8, <1>11 DEF BufferInv

LEMMA ResponseKeeps ==
  ASSUME BufferInv, NEW c \in Conns, Response(c)
  PROVE  BufferInv'
<1>1. /\ conn' = [conn EXCEPT ![c] = NoRequest] /\ conn[c].reply # "none"
      /\ UNCHANGED <<holder, payload, web, echo, dropped>>
      /\ web \in Values /\ echo \in Seq(Change) /\ conn[c] \in RequestSet
      /\ dropped \subseteq Settings
  BY ConnectionTyped DEF Response, BufferInv, TypeOK, ApiTypeOK
<1>2. holder # c
  BY <1>1, StampsTyped DEF BufferInv, OneHolder, Unanswered
<1>3. PageTypeOK'
  <2>1. points' \in [st : {"loading", "ok", "failed"}, vals : Values]
    <3>1. /\ points \in [st : {"loading", "ok", "failed"}, vals : Values]
          /\ conn[c].waiting \in BOOLEAN /\ conn[c].reply \in {"error", "ok"}
          /\ conn[c].vals \in Values
      BY <1>1 DEF BufferInv, TypeOK, PageTypeOK, RequestSet
    <3>2. points' \in {points, Failed, Loaded(conn[c].vals)}
      BY <3>1 DEF Response
    <3>3. Failed \in [st : {"loading", "ok", "failed"}, vals : Values]
          /\ Loaded(conn[c].vals) \in [st : {"loading", "ok", "failed"}, vals : Values]
      BY <3>1 DEF Failed, Loaded
    <3>4. QED
      BY <3>1, <3>2, <3>3
  <2>2. unsure' \subseteq Settings
    BY DEF Response, LastSaved, BufferInv, TypeOK, PageTypeOK
  <2>3. QED
    BY <2>1, <2>2 DEF Response, BufferInv, TypeOK, PageTypeOK
<1>4. Sound(NoRequest) /\ NoRequest.kind = "none"
  BY SoundNoRequest, StampsTyped
<1>5. QED
  BY <1>1, <1>2, <1>3, <1>4, AnswerKeeps

LEMMA TickKeeps ==
  ASSUME BufferInv, NEW c \in Conns, Tick(c)
  PROVE  BufferInv'
<1>1. OnePerSetting(<<>>) /\ <<>> \in Seq(Change)
  BY EmptySeq DEF OnePerSetting
<1>2. PageTypeOK'
  BY DEF Tick, pageVars, BufferInv, TypeOK, PageTypeOK
<1>3. QED
  BY <1>1, <1>2, RequestKeeps DEF Tick

LEMMA SaveKeeps ==
  ASSUME BufferInv, NEW c \in Conns, Save(c)
  PROVE  BufferInv'
<1>1. pointMods \in Seq(Change) /\ OnePerSetting(pointMods)
  BY DEF BufferInv, TypeOK, PageTypeOK, OnePerSetting
<1>2. PageTypeOK'
  <2>1. Changed(points.vals, pointMods) \in Values /\ Changed(saved, pointMods) \in Values
    BY <1>1, ChangedTyped DEF BufferInv, TypeOK, PageTypeOK
  <2>2. points' \in [st : {"loading", "ok", "failed"}, vals : Values] /\ saved' \in Values
    BY <2>1 DEF Save, Loaded
  <2>3. unsure' \subseteq Settings
    BY <1>1, TouchedMeansChanged DEF Save, BufferInv, TypeOK, PageTypeOK
  <2>4. pointMods' \in Seq(Change) /\ DOMAIN pointMods' = {}
    BY EmptySeq DEF Save
  <2>5. QED
    BY <2>2, <2>3, <2>4 DEF Save, BufferInv, TypeOK, PageTypeOK
<1>3. QED
  BY <1>1, <1>2, RequestKeeps DEF Save

\* An edit takes the place of the setting's earlier edit, or goes in front.
LEMMA UpdatedOnce ==
  ASSUME NEW mods \in Seq(Change), OnePerSetting(mods), NEW s \in Settings, NEW v \in Stamps
  PROVE  Updated(mods, s, v) \in Seq(Change) /\ OnePerSetting(Updated(mods, s, v))
<1> DEFINE new == Updated(mods, s, v)
<1>1. /\ Len(mods) \in Nat /\ DOMAIN mods = 1..Len(mods)
      /\ \A k \in DOMAIN mods : mods[k] \in Change
      /\ <<s, v>> \in Change
  BY ChangesTyped DEF Change
<1>2. CASE s \in Touched(mods)
  <2>1. new = [k \in 1..Len(mods) |-> IF mods[k][1] = s THEN <<s, v>> ELSE mods[k]]
    BY <1>1, <1>2 DEF Updated
  <2> HIDE DEF new
  <2>2. new \in [1..Len(mods) -> Change]
    BY <1>1, <2>1
  <2>3. new \in Seq(Change)
    BY <1>1, <2>2, IsASeq
  <2>4. DOMAIN new = DOMAIN mods /\ \A k \in DOMAIN mods : new[k][1] = mods[k][1]
    BY <1>1, <2>1
  <2>5. QED
    BY <2>3, <2>4 DEF OnePerSetting, new
<1>3. CASE s \notin Touched(mods)
  <2> DEFINE first == <<<<s, v>>>>
  <2>1. new = first \o mods /\ first \in Seq(Change) /\ Len(first) = 1 /\ first[1] = <<s, v>>
    BY <1>1, <1>3 DEF Updated
  <2> HIDE DEF new, first
  <2>2. /\ new \in Seq(Change) /\ Len(new) = 1 + Len(mods) /\ DOMAIN new = 1..Len(new)
        /\ \A k \in 1..(1 + Len(mods)) : new[k] = IF k <= 1 THEN first[k] ELSE mods[k - 1]
    <3>1. /\ first \o mods \in Seq(Change) /\ Len(first \o mods) = Len(first) + Len(mods)
          /\ \A k \in 1..(Len(first) + Len(mods)) :
               (first \o mods)[k] = IF k <= Len(first) THEN first[k] ELSE mods[k - Len(first)]
      BY <2>1, ConcatProperties
    <3>2. new \in Seq(Change) /\ Len(new) = 1 + Len(mods)
      BY <2>1, <3>1
    <3>3. DOMAIN new = 1..Len(new)
      BY <3>2, LenProperties
    <3>4. QED
      BY <2>1, <3>1, <3>2, <3>3
  <2>3. \A k \in DOMAIN mods : mods[k][1] # s
    BY <1>3, TouchedMeansChanged DEF ChangesOf
  <2>4. new[1][1] = s
    BY <1>1, <2>1, <2>2
  <2>5. \A k \in DOMAIN new : k = 1 \/ (k \in Nat /\ k - 1 \in DOMAIN mods /\ new[k] = mods[k - 1])
    BY <1>1, <2>2
  <2>6. ASSUME NEW j \in DOMAIN new, NEW k \in DOMAIN new, new[j][1] = new[k][1] PROVE j = k
    <3>1. CASE j = 1 \/ k = 1
      BY <2>3, <2>4, <2>5, <2>6, <3>1
    <3>2. CASE j # 1 /\ k # 1
      <4>1. j - 1 = k - 1 /\ j \in Nat /\ k \in Nat
        BY <2>5, <2>6, <3>2 DEF OnePerSetting
      <4>2. QED
        BY <4>1
    <3>3. QED
      BY <3>1, <3>2
  <2>7. QED
    BY <2>2, <2>6 DEF OnePerSetting, new
<1>4. QED
  BY <1>2, <1>3

\* Steps that leave the connections and the buffer alone.
LEMMA ApartKeeps ==
  ASSUME BufferInv, UNCHANGED <<conn, holder, payload>>,
         web' \in Values, echo' \in Seq(Change), dropped' \subseteq Settings, PageTypeOK'
  PROVE  BufferInv'
BY DEF BufferInv, TypeOK, ApiTypeOK, OwnBytesOnly, OneHolder, Requests, Unanswered

LEMMA BufferInit == Init => BufferInv
<1> SUFFICES ASSUME Init PROVE BufferInv
  OBVIOUS
<1>1. /\ conn = [c \in Conns |-> NoRequest] /\ holder = "none" /\ payload = <<>>
      /\ web = [s \in Settings |-> 0] /\ echo = <<>> /\ dropped = {}
  BY DEF Init, ApiInit
<1>2. [s \in Settings |-> 0] \in Values /\ <<>> \in Seq(Change)
  BY StampsTyped DEF Values
<1>3. Sound(NoRequest) /\ Len(<<>>) = 0
  BY SoundNoRequest, EmptySeq
<1>4. ApiTypeOK
  BY <1>1, <1>2, <1>3, StampsTyped DEF ApiTypeOK, RequestSet
<1>5. PageTypeOK
  BY <1>2, StampsTyped, PageAssumption, EmptySeq DEF Init, PageTypeOK
<1>6. OwnBytesOnly /\ OneHolder
  BY <1>1, StampsTyped DEF OwnBytesOnly, OneHolder
<1>7. Requests
  BY <1>1, <1>3, StampsTyped DEF Requests, Sound
<1>8. QED
  BY <1>4, <1>5, <1>6, <1>7 DEF BufferInv, TypeOK

LEMMA BufferStep == BufferInv /\ [Next]_vars => BufferInv'
<1> SUFFICES ASSUME BufferInv, [Next]_vars PROVE BufferInv'
  OBVIOUS
<1>1. /\ web \in Values /\ echo \in Seq(Change) /\ PageTypeOK /\ dropped \subseteq Settings
      /\ \A v \in Stamps : v \in Nat /\ (v < MaxStamps => v + 1 \in Stamps)
  BY WebApiAssumption DEF BufferInv, TypeOK, ApiTypeOK, Stamps
<1>2. CASE \E c \in Conns : \/ Tick(c) \/ Response(c) \/ Lost(c) \/ Save(c)
                            \/ Serve(c) /\ UNCHANGED pageVars
  BY <1>2, TickKeeps, ResponseKeeps, LostKeeps, SaveKeeps, ServeKeeps
<1>3. ASSUME NEW s \in Settings, Edit(s) PROVE BufferInv'
  <2>1. stamp' \in Stamps /\ UNCHANGED <<apiVars, points, losses, saved, unsure>>
        /\ pointMods' = Updated(pointMods, s, stamp')
    BY <1>1, <1>3 DEF Edit, PageTypeOK
  <2>2. pointMods' \in Seq(Change) /\ OnePerSetting(pointMods')
    BY <1>1, <2>1, UpdatedOnce DEF PageTypeOK, OnePerSetting
  <2>3. PageTypeOK'
    BY <1>1, <2>1, <2>2 DEF PageTypeOK, OnePerSetting
  <2>4. QED
    BY <1>1, <2>1, <2>3, ApartKeeps DEF apiVars
<1>4. ASSUME NEW s \in Settings, HostSets(s) PROVE BufferInv'
  <2>1. /\ stamp' \in Stamps /\ unsure' = unsure \cup {s}
        /\ UNCHANGED <<conn, holder, payload, web, dropped, points, pointMods, losses, saved>>
        /\ echo' = Append(echo, <<s, stamp'>>)
    BY <1>1, <1>4 DEF HostSets, PublishElsewhere, PageTypeOK
  <2>2. <<s, stamp'>> \in Change
    BY <2>1 DEF Change
  <2>3. echo' \in Seq(Change)
    BY <1>1, <2>1, <2>2, AppendProperties
  <2>4. PageTypeOK'
    BY <1>1, <2>1 DEF PageTypeOK
  <2>5. QED
    BY <1>1, <2>1, <2>3, <2>4, ApartKeeps
<1>5. CASE Discard
  <2>1. PageTypeOK'
    <3>1. pointMods' = <<>> /\ <<>> \in Seq(Change) /\ DOMAIN <<>> = {}
      BY <1>5, EmptySeq DEF Discard
    <3>2. UNCHANGED <<points, stamp, losses, saved, unsure>>
      BY <1>5 DEF Discard
    <3>3. QED
      BY <1>1, <3>1, <3>2 DEF PageTypeOK
  <2>2. QED
    BY <1>1, <1>5, <2>1, ApartKeeps DEF Discard, apiVars
<1>6. CASE WebThread /\ UNCHANGED pageVars
  <2>1. Head(echo) \in Change /\ <<Head(echo)>> \in Seq(Change) /\ echo' \in Seq(Change)
    BY <1>1, <1>6, HeadTailProperties DEF WebThread
  <2>2. web' \in Values
    BY <1>1, <1>6, <2>1, ChangedTyped DEF WebThread
  <2>3. PageTypeOK'
    BY <1>1, <1>6 DEF pageVars, PageTypeOK
  <2>4. QED
    BY <1>1, <1>6, <2>1, <2>2, <2>3, ApartKeeps DEF WebThread
<1>7. CASE UNCHANGED vars
  BY <1>1, <1>7, ApartKeeps DEF vars, apiVars, pageVars, PageTypeOK
<1>8. QED
  BY <1>2, <1>3, <1>4, <1>5, <1>6, <1>7 DEF Next

\* The connections, the buffer, the cache behind them and the page keep their types.
THEOREM TypeCorrect == Spec => []TypeOK
<1>1. BufferInv => TypeOK
  BY DEF BufferInv
<1>2. QED
  BY <1>1, BufferInit, BufferStep, PTL DEF Spec

\* v1_payload_buf and its cursor, which all connections share, never hold anything
\* but the received part of the one body that is being received.
THEOREM NothingLeftOver == Spec => []OwnBytesOnly
<1>1. BufferInv => OwnBytesOnly
  BY DEF BufferInv
<1>2. QED
  BY <1>1, BufferInit, BufferStep, PTL DEF Spec

(***************************************************************************)
(* What was saved is what the board publishes last                         *)
(***************************************************************************)

Open(r) == r.kind # "none" /\ r.reply = "none"

\* The save of value v of setting s on the connections cn, n being the value of
\* s that was published last: nothing else under way changes s, and v was
\* published last or is in a body that has yet to be, or was refused.
UnderWay(cn, s, v, n) ==
  /\ \A c \in Conns : Open(cn[c]) /\ s \in Touched(cn[c].body) =>
                        cn[c].waiting /\ <<s, v>> \in ToSet(cn[c].body)
  /\ n = v \/ \E c \in Conns : cn[c].reply # "ok" /\ <<s, v>> \in ToSet(cn[c].body)

\* What the echoes leave of setting s, where the board owes it to the page.
Owed(s) == IF s \in dropped THEN saved[s] ELSE Newest[s]

SavesUnderWay ==
  \A s \in Settings \ unsure : saved[s] # 0 => UnderWay(conn, s, saved[s], Owed(s))

StandInv == BufferInv /\ SavesUnderWay

LEMMA ChangeTouches ==
  ASSUME NEW a, NEW s, NEW v, <<s, v>> \in ToSet(a)
  PROVE  s \in Touched(a)
BY DEF Touched

LEMMA EmptyTouchesNothing == Touched(<<>>) = {}
BY EmptySeq DEF Touched, ToSet

\* A step that changes one connection, to r, and leaves n or makes it v.
LEMMA OneMoves ==
  ASSUME NEW cn \in [Conns -> RequestSet], NEW c \in Conns, NEW r, NEW s, NEW v, NEW n, NEW m,
         UnderWay(cn, s, v, n),
         Open(r) /\ s \in Touched(r.body) => r.waiting /\ <<s, v>> \in ToSet(r.body),
         \/ m = v
         \/ /\ m = n
            /\ s \in Touched(cn[c].body) /\ cn[c].reply # "ok" =>
                 r.reply # "ok" /\ r.body = cn[c].body
  PROVE  UnderWay([cn EXCEPT ![c] = r], s, v, m)
<1> DEFINE new == [cn EXCEPT ![c] = r]
<1>1. new[c] = r /\ \A d \in Conns \ {c} : new[d] = cn[d]
  OBVIOUS
<1> HIDE DEF new
<1>2. \A d \in Conns : Open(new[d]) /\ s \in Touched(new[d].body) =>
                         new[d].waiting /\ <<s, v>> \in ToSet(new[d].body)
  BY <1>1 DEF UnderWay
<1>3. m = v \/ \E d \in Conns : new[d].reply # "ok" /\ <<s, v>> \in ToSet(new[d].body)
  <2>1. CASE m = v
    BY <2>1
  <2>2. CASE m # v
    <3>1. PICK d \in Conns : cn[d].reply # "ok" /\ <<s, v>> \in ToSet(cn[d].body)
      BY <2>2 DEF UnderWay
    <3>2. s \in Touched(cn[d].body)
      BY <3>1, ChangeTouches
    <3>3. new[d].reply # "ok" /\ new[d].body = cn[d].body
      BY <1>1, <2>2, <3>1, <3>2
    <3>4. QED
      BY <3>1, <3>3
  <2>3. QED
    BY <2>1, <2>2
<1>4. UnderWay(new, s, v, m)
  BY <1>2, <1>3 DEF UnderWay
<1>5. QED
  BY <1>4 DEF new

\* Changes that leave a setting alone, made before or after others.
LEMMA ChangedElsewhere ==
  ASSUME NEW e \in Seq(Change), NEW b \in Seq(Change), NEW v, NEW s \in Settings,
         s \notin Touched(b)
  PROVE  /\ Changed(v, e \o b)[s] = Changed(v, e)[s]
         /\ Changed(Changed(v, b), e \o b)[s] = Changed(v, e)[s]
<1> DEFINE w == Changed(v, b)
<1>1. ChangesOf(b, s) = {}
  BY TouchedMeansChanged
<1>2. w[s] = v[s]
  BY <1>1, ChangedValue
<1> HIDE DEF w
<1>3. Changed(v, e \o b)[s] = Changed(v, e)[s] /\ Changed(w, e \o b)[s] = Changed(w, e)[s]
  BY <1>1, ChangedInTurn
<1>4. Changed(w, e)[s] = Changed(v, e)[s]
  BY <1>2 DEF Changed
<1>5. QED
  BY <1>3, <1>4 DEF w

\* A body that is merged and published carries its changes through, or they are
\* dropped; the others stay.
LEMMA PublishedStands ==
  ASSUME NEW b \in Seq(Change), OnePerSetting(b), echo \in Seq(Change), NEW s \in Settings,
         s \in Touched(b) => <<s, saved[s]>> \in ToSet(b), MergeAndPublish(b), saved' = saved
  PROVE  Owed(s)' = saved[s] \/ (Owed(s)' = Owed(s) /\ s \notin Touched(b))
<1>1. PICK h \in Heard(b) :
        /\ web' = Changed(web, b) /\ echo' = echo \o h
        /\ dropped' = (dropped \ Touched(b))
                        \cup ((Touched(b) \ Touched(h)) \cap Touched(echo))
  BY DEF MergeAndPublish
<1> DEFINE w == Changed(web, b)
<1>2. /\ h \in Seq(Change) /\ Touched(h) \subseteq Touched(b)
      /\ s \in Touched(h) => ChangesOf(h, s) # {} /\ Changed(w, h)[s] = saved[s]
  BY HeardChanges
<1>3. CASE s \in dropped'
  <2>1. Owed(s)' = saved[s]
    BY <1>3 DEF Owed
  <2>2. QED
    BY <2>1
<1>4. CASE s \notin dropped' /\ s \in Touched(h)
  <2>1. Changed(w, echo \o h)[s] = Changed(w, h)[s]
    BY <1>2, <1>4, ChangedInTurn
  <2>2. QED
    BY <1>1, <1>2, <1>4, <2>1 DEF Owed, Newest
<1>5. CASE s \notin dropped' /\ s \notin Touched(h) /\ s \in Touched(b)
  <2>1. ChangesOf(h, s) = {} /\ ChangesOf(echo, s) = {}
    BY <1>1, <1>2, <1>5, TouchedMeansChanged
  <2>2. Changed(w, echo \o h)[s] = Changed(w, echo)[s]
    BY <1>2, <2>1, ChangedInTurn
  <2>3. Changed(w, echo)[s] = w[s]
    BY <2>1, ChangedValue
  <2>4. w[s] = saved[s]
    BY <1>5, ChangedOnce
  <2>5. QED
    BY <1>1, <1>5, <2>2, <2>3, <2>4 DEF Owed, Newest
<1>6. CASE s \notin dropped' /\ s \notin Touched(b)
  <2>1. ChangesOf(h, s) = {} /\ ChangesOf(b, s) = {} /\ s \notin dropped
    BY <1>1, <1>2, <1>6, TouchedMeansChanged
  <2>2. Changed(w, echo \o h)[s] = Changed(w, echo)[s]
    BY <1>2, <2>1, ChangedInTurn
  <2>3. w[s] = web[s]
    BY <2>1, ChangedValue
  <2> HIDE DEF w
  <2>4. Changed(w, echo)[s] = Changed(web, echo)[s]
    BY <2>3 DEF Changed
  <2>5. QED
    BY <1>1, <1>6, <2>1, <2>2, <2>4 DEF Owed, Newest, w
<1>7. QED
  BY <1>3, <1>4, <1>5, <1>6

\* The server's steps: the body that is published last carries what was saved.
LEMMA ServeStands ==
  ASSUME StandInv, NEW c \in Conns, Serve(c), UNCHANGED pageVars
  PROVE  SavesUnderWay'
<1> SUFFICES ASSUME NEW s \in Settings \ unsure, saved[s] # 0
             PROVE  UnderWay(conn', s, saved[s], Owed(s)')
  BY DEF SavesUnderWay, pageVars
<1> DEFINE v == saved[s]
           b == conn[c].body
<1>1. /\ conn \in [Conns -> RequestSet] /\ conn[c] \in RequestSet
      /\ b \in Seq(Change) /\ OnePerSetting(b) /\ echo \in Seq(Change)
      /\ conn[c].kind # "POST" => b = <<>>
  BY ConnectionTyped DEF StandInv, BufferInv, Requests, TypeOK, ApiTypeOK
<1>2. UnderWay(conn, s, v, Owed(s))
  BY DEF StandInv, SavesUnderWay
<1>3. Unanswered(c) /\ s \in Touched(b) => conn[c].waiting /\ <<s, v>> \in ToSet(b)
  BY <1>2 DEF UnderWay, Open, Unanswered
<1>4. CASE Conflict(c) \/ Overflow(c)
  <2> DEFINE r == [conn[c] EXCEPT !.reply = "error"]
  <2>1. conn' = [conn EXCEPT ![c] = r] /\ Owed(s)' = Owed(s)
    BY <1>1, <1>4 DEF Conflict, Overflow, Replied, Newest, Owed, pageVars
  <2>2. r.reply = "error" /\ r.body = b
    BY <1>1 DEF RequestSet
  <2> HIDE DEF r
  <2>3. QED
    BY <1>1, <1>2, <2>1, <2>2, OneMoves DEF Open
<1>5. CASE ServeGet(c)
  <2> DEFINE r == [conn[c] EXCEPT !.reply = "ok", !.vals = web]
  <2>1. conn' = [conn EXCEPT ![c] = r] /\ Owed(s)' = Owed(s) /\ b = <<>>
    BY <1>1, <1>5 DEF ServeGet, Newest, Owed, pageVars
  <2>2. r.reply = "ok"
    BY <1>1 DEF RequestSet
  <2> HIDE DEF r
  <2>3. s \notin Touched(b)
    BY <2>1, EmptyTouchesNothing
  <2>4. QED
    BY <1>1, <1>2, <2>1, <2>2, <2>3, OneMoves DEF Open
<1>6. CASE KeepPiece(c)
  <2>1. PICK n \in Pieces(c) : conn' = [conn EXCEPT ![c].sent = @ + n]
    BY <1>6 DEF KeepPiece
  <2> DEFINE r == [conn[c] EXCEPT !.sent = @ + n]
  <2>2. conn' = [conn EXCEPT ![c] = r] /\ Owed(s)' = Owed(s)
    BY <1>1, <1>6, <2>1 DEF KeepPiece, Newest, Owed, pageVars
  <2>3. r.reply = conn[c].reply /\ r.body = b /\ r.kind = conn[c].kind
        /\ r.waiting = conn[c].waiting
    BY <1>1 DEF RequestSet
  <2> HIDE DEF r
  <2>4. Unanswered(c)
    BY <1>6 DEF KeepPiece, Posting
  <2>5. QED
    BY <1>1, <1>2, <1>3, <2>2, <2>3, <2>4, OneMoves
<1>7. CASE FinishPost(c)
  <2>1. PICK n \in Pieces(c) :
          /\ Final(c, n)
          /\ MergeAndPublish(payload \o Piece(c, n)) \/ RefuseBody(payload \o Piece(c, n))
    BY <1>7 DEF FinishPost
  <2>2. Posting(c) /\ conn' = Replied(c, "ok") /\ saved' = saved
    BY <1>7 DEF FinishPost, pageVars
  <2>3. MergeAndPublish(b) \/ RefuseBody(b)
    BY <2>1, <2>2, FinalPiece DEF StandInv
  <2> DEFINE r == [conn[c] EXCEPT !.reply = "ok"]
  <2>4. conn' = [conn EXCEPT ![c] = r] /\ r.reply = "ok"
    BY <1>1, <2>2 DEF Replied, RequestSet
  <2>5. s \in Touched(b) => <<s, v>> \in ToSet(b)
    BY <1>3, <2>2 DEF Posting
  <2> HIDE DEF r, b
  <2>6. Owed(s)' = v \/ (Owed(s)' = Owed(s) /\ s \notin Touched(b))
    <3>1. CASE RefuseBody(b)
      BY <2>2, <3>1 DEF RefuseBody, Owed, Newest
    <3>2. CASE MergeAndPublish(b)
      BY <1>1, <2>2, <2>5, <3>2, PublishedStands
    <3>3. QED
      BY <2>3, <3>1, <3>2
  <2> HIDE DEF v
  <2>7. QED
    BY <1>1, <1>2, <2>4, <2>6, OneMoves DEF Open, v, b
<1>8. CASE Abort(c)
  <2>1. /\ conn' = [conn EXCEPT ![c] = NoRequest] /\ Owed(s)' = Owed(s)
        /\ Unanswered(c) /\ ~conn[c].waiting
    BY <1>8 DEF Abort, Newest, Owed, pageVars
  <2>2. s \notin Touched(b)
    BY <1>3, <2>1
  <2>3. QED
    BY <1>1, <1>2, <2>1, <2>2, OneMoves, StampsTyped DEF Open
<1>9. QED
  BY <1>4, <1>5, <1>6, <1>7, <1>8 DEF Serve

\* An answer that is an error, and a failure the page is told of, end the promise.
LEMMA AnswerStands ==
  ASSUME StandInv, NEW c \in Conns, Response(c) \/ Lost(c)
  PROVE  SavesUnderWay'
<1> SUFFICES ASSUME NEW s \in Settings \ unsure', saved'[s] # 0
             PROVE  UnderWay(conn', s, saved'[s], Owed(s)')
  BY DEF SavesUnderWay
<1> DEFINE v == saved[s]
           b == conn[c].body
<1>1. /\ conn \in [Conns -> RequestSet] /\ conn[c] \in RequestSet
      /\ saved' = saved /\ Owed(s)' = Owed(s) /\ s \notin unsure
  BY ConnectionTyped DEF StandInv, BufferInv, Response, Lost, Newest, Owed
<1>2. UnderWay(conn, s, v, Owed(s))
  BY <1>1 DEF StandInv, SavesUnderWay
<1>3. CASE Response(c)
  <2>1. conn' = [conn EXCEPT ![c] = NoRequest] /\ conn[c].reply # "none"
    BY <1>3 DEF Response
  <2>2. CASE conn[c].reply = "ok"
    BY <1>1, <1>2, <2>1, <2>2, OneMoves, StampsTyped DEF Open
  <2>3. CASE conn[c].reply = "error"
    <3>1. <<s, v>> \notin ToSet(b)
      BY <1>1, <1>3, <2>3 DEF Response, LastSaved
    <3>2. UnderWay(conn', s, v, Owed(s))
      <4>1. conn'[c] = NoRequest /\ \A d \in Conns \ {c} : conn'[d] = conn[d]
        BY <1>1, <2>1
      <4>2. \A d \in Conns : <<s, v>> \in ToSet(conn[d].body) => conn'[d] = conn[d]
        BY <3>1, <4>1
      <4>3. \A d \in Conns : Open(conn'[d]) => conn'[d] = conn[d]
        BY <4>1, StampsTyped DEF Open
      <4>4. QED
        BY <1>2, <4>2, <4>3 DEF UnderWay
    <3>3. QED
      BY <1>1, <3>2
  <2>4. QED
    BY <1>1, <2>1, <2>2, <2>3 DEF RequestSet
<1>4. CASE Lost(c)
  <2> DEFINE r == [conn[c] EXCEPT !.waiting = FALSE]
  <2>1. conn' = [conn EXCEPT ![c] = r]
    BY <1>1, <1>4 DEF Lost
  <2>2. r.reply = conn[c].reply /\ r.body = b /\ r.kind = conn[c].kind
    BY <1>1 DEF RequestSet
  <2>3. <<s, v>> \notin ToSet(b)
    BY <1>1, <1>4 DEF Lost, LastSaved
  <2> HIDE DEF r
  <2>4. ~(Open(r) /\ s \in Touched(r.body))
    BY <1>2, <2>2, <2>3 DEF UnderWay, Open
  <2>5. QED
    BY <1>1, <1>2, <2>1, <2>2, <2>4, OneMoves
<1>5. QED
  BY <1>3, <1>4

\* A save puts its edits on an idle connection.
LEMMA SaveStands ==
  ASSUME StandInv, NEW c \in Conns, Save(c)
  PROVE  SavesUnderWay'
<1> SUFFICES ASSUME NEW s \in Settings \ unsure', saved'[s] # 0
             PROVE  UnderWay(conn', s, saved'[s], Owed(s)')
  BY DEF SavesUnderWay
<1> DEFINE r == Request("POST", pointMods)
<1>1. /\ conn \in [Conns -> RequestSet] /\ conn[c].body = <<>> /\ conn[c].kind = "none"
      /\ pointMods \in Seq(Change) /\ OnePerSetting(pointMods)
  BY ConnectionTyped, StampsTyped
     DEF Save, StandInv, BufferInv, Requests, TypeOK, PageTypeOK, OnePerSetting
<1>2. /\ conn' = [conn EXCEPT ![c] = r] /\ Newest'[s] = Newest[s] /\ dropped' = dropped
      /\ saved' = Changed(saved, pointMods)
      /\ unsure' = (unsure \ Touched(pointMods)) \cup (Pending \cap Touched(pointMods))
  BY DEF Save, Newest
<1>3. r.body = pointMods /\ r.reply = "none" /\ r.waiting = TRUE
  BY DEF Request, NoRequest
<1> HIDE DEF r
<1>4. CASE s \in Touched(pointMods)
  <2>1. PICK x : <<s, x>> \in ToSet(pointMods)
    <3>1. PICK k \in DOMAIN pointMods : pointMods[k][1] = s
      BY <1>1, <1>4, TouchedMeansChanged DEF ChangesOf
    <3>2. pointMods[k] = <<s, pointMods[k][2]>> /\ pointMods[k] \in ToSet(pointMods)
      BY <1>1, <3>1, ChangesTyped DEF Change, ToSet
    <3>3. QED
      BY <3>2
  <2>2. saved'[s] = x
    BY <1>1, <1>2, <2>1, ChangedOnce
  <2>3. conn'[c] = r /\ \A d \in Conns \ {c} : conn'[d] = conn[d]
    BY <1>1, <1>2
  <2>4. \A d \in Conns : Open(conn[d]) => s \notin Touched(conn[d].body)
    BY <1>2, <1>4 DEF Pending, Unanswered, Open
  <2>5. QED
    BY <1>3, <2>1, <2>2, <2>3, <2>4 DEF UnderWay
<1>5. CASE s \notin Touched(pointMods)
  <2>1. saved'[s] = saved[s] /\ s \notin unsure
    BY <1>1, <1>2, <1>5, TouchedMeansChanged, ChangedValue
  <2>2. UnderWay(conn, s, saved[s], Owed(s))
    BY <2>1 DEF StandInv, SavesUnderWay
  <2>3. s \notin Touched(conn[c].body)
    BY <1>1, EmptyTouchesNothing
  <2>4. Owed(s)' = Owed(s)
    BY <1>2, <2>1 DEF Owed
  <2>5. QED
    BY <1>1, <1>2, <1>3, <1>5, <2>1, <2>2, <2>3, <2>4, OneMoves
<1>6. QED
  BY <1>4, <1>5

LEMMA StandInit == Init => StandInv
<1> SUFFICES ASSUME Init PROVE StandInv
  OBVIOUS
<1>1. saved = [s \in Settings |-> 0]
  BY DEF Init
<1>2. QED
  BY <1>1, BufferInit DEF StandInv, SavesUnderWay

LEMMA StandStep == StandInv /\ [Next]_vars => StandInv'
<1> SUFFICES ASSUME StandInv, [Next]_vars, BufferInv' PROVE SavesUnderWay'
  BY BufferStep DEF StandInv
<1>1. echo \in Seq(Change) /\ conn \in [Conns -> RequestSet]
      /\ \A c \in Conns : conn[c].kind = "none" => conn[c].body = <<>>
  BY ConnectionTyped, StampsTyped DEF StandInv, BufferInv, Requests, TypeOK, ApiTypeOK, RequestSet
<1>2. ASSUME UNCHANGED <<conn, saved, dropped>>, unsure \subseteq unsure',
             \A s \in Settings \ unsure' : Newest'[s] = Newest[s]
      PROVE  SavesUnderWay'
  <2> SUFFICES ASSUME NEW s \in Settings \ unsure', saved'[s] # 0
               PROVE  UnderWay(conn', s, saved'[s], Owed(s)')
    BY DEF SavesUnderWay
  <2>1. UnderWay(conn, s, saved[s], Owed(s))
    BY <1>2 DEF StandInv, SavesUnderWay
  <2>2. Owed(s)' = Owed(s)
    BY <1>2 DEF Owed
  <2>3. QED
    BY <1>2, <2>1, <2>2
<1>3. CASE \E c \in Conns : \/ Tick(c) \/ Response(c) \/ Lost(c) \/ Save(c)
                            \/ Serve(c) /\ UNCHANGED pageVars
  <2>1. ASSUME NEW c \in Conns, Tick(c) PROVE SavesUnderWay'
    <3> SUFFICES ASSUME NEW s \in Settings \ unsure, saved[s] # 0
                 PROVE  UnderWay(conn', s, saved[s], Owed(s)')
      BY <2>1 DEF SavesUnderWay, Tick, pageVars
    <3> DEFINE r == Request("GET", <<>>)
    <3>1. conn' = [conn EXCEPT ![c] = r] /\ Owed(s)' = Owed(s) /\ conn[c].body = <<>>
      BY <1>1, <2>1 DEF Tick, Newest, Owed, pageVars
    <3>2. r.body = <<>>
      BY DEF Request, NoRequest
    <3>3. UnderWay(conn, s, saved[s], Owed(s))
      BY DEF StandInv, SavesUnderWay
    <3> HIDE DEF r
    <3>4. QED
      BY <1>1, <3>1, <3>2, <3>3, EmptyTouchesNothing, OneMoves
  <2>2. QED
    BY <1>3, <2>1, AnswerStands, SaveStands, ServeStands
<1>4. ASSUME NEW s \in Settings, Edit(s) PROVE SavesUnderWay'
  BY <1>2, <1>4 DEF Edit, apiVars, Newest, Owed
<1>5. ASSUME NEW t \in Settings, HostSets(t) PROVE SavesUnderWay'
  <2> DEFINE h == <<<<t, stamp'>>>>
  <2>1. h \in Seq(Change) /\ <<t, stamp'>> \in Change
    BY <1>5 DEF BufferInv, TypeOK, PageTypeOK, Change
  <2>2. echo' = echo \o h
    BY <1>1, <1>5, <2>1, AppendIsConcat DEF HostSets, PublishElsewhere
  <2>3. Touched(h) = {t}
    BY DEF Touched, ToSet
  <2> HIDE DEF h
  <2>4. \A s \in Settings \ unsure' : Changed(web, echo \o h)[s] = Changed(web, echo)[s]
    BY <1>1, <1>5, <2>1, <2>3, ChangedElsewhere DEF HostSets
  <2>5. QED
    BY <1>2, <1>5, <2>2, <2>4 DEF HostSets, PublishElsewhere, Newest
<1>6. CASE Discard
  BY <1>2, <1>6 DEF Discard, apiVars, Newest, Owed
<1>7. CASE WebThread /\ UNCHANGED pageVars
  <2>1. Newest' = Newest
    BY <1>1, <1>7, ChangedStepwise DEF WebThread, Newest
  <2>2. QED
    BY <1>2, <1>7, <2>1 DEF WebThread, pageVars
<1>8. CASE UNCHANGED vars
  BY <1>2, <1>8 DEF vars, apiVars, pageVars, Newest
<1>9. QED
  BY <1>3, <1>4, <1>5, <1>6, <1>7, <1>8 DEF Next

\* What web_points holds of a setting when web_thread has merged every echo is the
\* value last saved here, once that save has been answered with success, unless
\* another save of the setting was under way, someone else set it since, or the
\* board answered so without having decoded the body (web.c:131-134), or having
\* published the point behind an older value of it (web.c:140).
THEOREM SavedValueStands == Spec => []SavesStand
<1>1. StandInv => SavesStand
  <2> SUFFICES ASSUME StandInv, NEW s \in Settings \ (unsure \cup dropped), saved[s] # 0,
                      \A c \in Conns : s \in Touched(conn[c].body) => conn[c].reply = "ok"
               PROVE  Newest[s] = saved[s]
    BY DEF SavesStand
  <2>1. UnderWay(conn, s, saved[s], Owed(s))
    BY DEF StandInv, SavesUnderWay
  <2>2. QED
    BY <2>1, ChangeTouches DEF UnderWay, Owed
<1>2. QED
  BY <1>1, StandInit, StandStep, PTL DEF Spec
=============================================================================
