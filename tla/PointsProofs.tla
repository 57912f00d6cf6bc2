---------------------------- MODULE PointsProofs ----------------------------
(***************************************************************************)
(* What points_merge does to an array of any size, for the proofs of the   *)
(* components that keep one.                                               *)
(***************************************************************************)
EXTENDS Points, TLAPS, WellFoundedInduction, FiniteSetTheorems

\* The scan of points_merge, which remembers the first free slot and stops at
\* the first match, finds a slot of the set it looks for.
LEMMA LowestIsMember ==
  ASSUME NEW S, S \subseteq Nat, S # {}
  PROVE  Lowest(S) \in S
<1>1. PICK x \in S : \A y \in S : ~(<<y, x>> \in OpToRel(<, Nat))
  BY NatLessThanWellFounded, WFMin, Zenon
<1>2. \A y \in S : x <= y
  <2>1. TAKE y \in S
  <2>2. y \in Nat /\ x \in Nat
    OBVIOUS
  <2>3. ~(y < x)
    BY <1>1, <2>2 DEF OpToRel
  <2>4. QED
    BY <2>2, <2>3
<1>3. \E x0 \in S : \A y \in S : x0 <= y
  BY <1>2
<1>4. QED
  BY <1>3 DEF Lowest

\* points_merge keeps points well formed: blank keys become "0".
LEMMA NormalisedPoint ==
  ASSUME NEW p \in Point
  PROVE  /\ Normalised(p) \in Point
         /\ Normalised(p).key # BlankKey
         /\ Normalised(p).type = p.type
         /\ Normalised(p).dt = p.dt
BY PointsAssumption DEF Normalised, Point

\* Where a merge that is not refused puts its point.
LEMMA SlotIsTarget ==
  ASSUME NEW n \in Nat, NEW a \in [1..n -> Point], NEW p \in Point, ~Refused(a, p)
  PROVE  /\ Slot(a, p) \in 1..n
         /\ \/ Slot(a, p) \in Matches(a, Normalised(p))
            \/ Slot(a, p) \in Free(a) /\ Matches(a, Normalised(p)) = {}
<1>1. 1..n \subseteq Nat
  OBVIOUS
<1>2. Matches(a, Normalised(p)) \subseteq 1..n /\ Free(a) \subseteq 1..n
  BY DEF Matches, Free
<1>3. CASE Matches(a, Normalised(p)) # {}
  <2>1. Lowest(Matches(a, Normalised(p))) \in Matches(a, Normalised(p))
    BY <1>1, <1>2, <1>3, LowestIsMember
  <2>2. QED
    BY <1>2, <1>3, <2>1 DEF Slot
<1>4. CASE Matches(a, Normalised(p)) = {}
  <2>1. Free(a) # {}
    BY <1>4 DEF Refused
  <2>2. Lowest(Free(a)) \in Free(a)
    BY <1>1, <1>2, <2>1, LowestIsMember
  <2>3. QED
    BY <1>2, <1>4, <2>2 DEF Slot
<1>5. QED
  BY <1>3, <1>4

\* A merge either leaves the array alone or changes one slot, which was free or
\* held the point's own identity.
LEMMA MergedCases ==
  ASSUME NEW n \in Nat, NEW a \in [1..n -> Point], NEW p \in Point
  PROVE  \/ Refused(a, p) /\ Merged(a, p) = a
         \/ \E s \in 1..n :
              /\ Merged(a, p) = [a EXCEPT ![s] = Normalised(p)]
              /\ \/ s \in Matches(a, Normalised(p))
                 \/ s \in Free(a) /\ Matches(a, Normalised(p)) = {}
<1>1. CASE Refused(a, p)
  BY <1>1 DEF Merged
<1>2. CASE ~Refused(a, p)
  BY <1>2, SlotIsTarget DEF Merged
<1>3. QED
  BY <1>1, <1>2

\* An array in which no identity has two slots that a reader would show.
Unique(a) ==
  \A i, j \in DOMAIN a :
    /\ Named(a[i]) /\ Known(a[i])
    /\ Named(a[j]) /\ Known(a[j])
    /\ Id(a[i]) = Id(a[j])
    => i = j

\* Among the merges into an array without duplicates none makes one: a point is
\* put in the slot that holds its identity, or in a free slot if none does.
LEMMA MergedUnique ==
  ASSUME NEW n \in Nat, NEW a \in [1..n -> Point], NEW p \in Point, Unique(a)
  PROVE  Merged(a, p) \in [1..n -> Point] /\ Unique(Merged(a, p))
<1> DEFINE b == Merged(a, p)
           q == Normalised(p)
<1>1. CASE b = a
  BY <1>1
<1>2. ASSUME NEW s \in 1..n,
             b = [a EXCEPT ![s] = q],
             s \in Matches(a, q) \/ (s \in Free(a) /\ Matches(a, q) = {})
      PROVE  b \in [1..n -> Point] /\ Unique(b)
  <2>1. q \in Point
    BY NormalisedPoint
  <2>2. b \in [1..n -> Point]
    BY <1>2, <2>1
  <2>3. \A t \in 1..n : b[t] = IF t = s THEN q ELSE a[t]
    BY <1>2
  <2>4. ASSUME NEW t \in 1..n, t # s, Named(b[t]), Known(b[t]), Id(b[t]) = Id(q)
        PROVE  FALSE
    <3>1. t \in Matches(a, q)
      BY <2>3, <2>4 DEF Matches
    <3>2. s \in Matches(a, q)
      BY <1>2, <3>1
    <3>3. QED
      BY <2>4, <3>1, <3>2 DEF Matches, Unique
  <2> HIDE DEF b, q
  <2>5. ASSUME NEW i \in 1..n, NEW j \in 1..n,
               Named(b[i]), Known(b[i]), Named(b[j]), Known(b[j]), Id(b[i]) = Id(b[j])
        PROVE  i = j
    <3>1. CASE i = s \/ j = s
      BY <2>3, <2>4, <2>5, <3>1
    <3>2. CASE i # s /\ j # s
      BY <2>3, <2>5, <3>2 DEF Unique
    <3>3. QED
      BY <3>1, <3>2
  <2>6. Unique(b)
    BY <2>2, <2>5 DEF Unique
  <2>7. QED
    BY <2>2, <2>6
<1>3. QED
  BY <1>1, <1>2, MergedCases

\* What is readable after a merge: the point itself, if it was stored and has a
\* known type, and every other identity's value as before.
LEMMA VisibleAfterMerge ==
  ASSUME NEW n \in Nat, NEW a \in [1..n -> Point], NEW p \in Point, Unique(a),
         NEW q \in Visible(Merged(a, p))
  PROVE  \/ q = Normalised(p)
         \/ q \in Visible(a) /\ Id(q) # Id(Normalised(p))
<1>1. CASE Refused(a, p)
  BY <1>1 DEF Merged, Refused, Visible, Matches
<1>2. ASSUME NEW s \in 1..n,
             Merged(a, p) = [a EXCEPT ![s] = Normalised(p)],
             \/ s \in Matches(a, Normalised(p))
             \/ s \in Free(a) /\ Matches(a, Normalised(p)) = {}
      PROVE  \/ q = Normalised(p)
             \/ q \in Visible(a) /\ Id(q) # Id(Normalised(p))
  <2>1. PICK i \in 1..n : /\ q = Merged(a, p)[i]
                          /\ Named(Merged(a, p)[i]) /\ Known(Merged(a, p)[i])
    BY <1>2 DEF Visible
  <2>2. CASE i = s
    BY <1>2, <2>1, <2>2
  <2>3. CASE i # s
    <3>1. q = a[i] /\ Named(a[i]) /\ Known(a[i])
      BY <1>2, <2>1, <2>3
    <3>2. q \in Visible(a)
      BY <3>1 DEF Visible
    <3>3. ASSUME Id(q) = Id(Normalised(p)) PROVE FALSE
      <4>1. i \in Matches(a, Normalised(p))
        BY <3>1, <3>3 DEF Matches
      <4>2. s \in Matches(a, Normalised(p))
        BY <1>2, <4>1
      <4>3. QED
        BY <2>3, <4>1, <4>2 DEF Matches, Unique
    <3>4. QED
      BY <3>2, <3>3
  <2>4. QED
    BY <2>2, <2>3
<1>3. QED
  BY <1>1, <1>2, MergedCases

\* A merge that is not refused replaces what was readable of the identity by the
\* new point, if that is readable, and by nothing otherwise.
LEMMA VisibleOfMerged ==
  ASSUME NEW n \in Nat, NEW a \in [1..n -> Point], NEW p \in Point, Unique(a),
         ~Refused(a, p)
  PROVE  Visible(Merged(a, p)) =
           {v \in Visible(a) : Id(v) # Id(Normalised(p))}
             \cup {v \in {Normalised(p)} : Named(v) /\ Known(v)}
<1> DEFINE q == Normalised(p)
           kept == {v \in Visible(a) : Id(v) # Id(q)}
           new == {v \in {q} : Named(v) /\ Known(v)}
<1>1. PICK s \in 1..n : /\ Merged(a, p) = [a EXCEPT ![s] = q]
                        /\ s \in Matches(a, q) \/ (s \in Free(a) /\ Matches(a, q) = {})
  BY MergedCases
<1>2. Visible(Merged(a, p)) \subseteq kept \cup new
  <2>1. ASSUME NEW v \in Visible(Merged(a, p)) PROVE v \in kept \cup new
    <3>1. Named(v) /\ Known(v)
      BY DEF Visible
    <3>2. v = q \/ (v \in Visible(a) /\ Id(v) # Id(q))
      BY VisibleAfterMerge
    <3>3. QED
      BY <3>1, <3>2
  <2>2. QED
    BY <2>1
<1>3. kept \subseteq Visible(Merged(a, p))
  <2>1. ASSUME NEW v \in kept PROVE v \in Visible(Merged(a, p))
    <3>1. PICK i \in 1..n : v = a[i] /\ Named(a[i]) /\ Known(a[i])
      BY DEF Visible
    <3>2. i # s
      BY <1>1, <2>1, <3>1 DEF Matches, Free
    <3>3. Merged(a, p)[i] = v
      BY <1>1, <3>1, <3>2
    <3>4. QED
      BY <1>1, <3>1, <3>3 DEF Visible
  <2>2. QED
    BY <2>1
<1>4. new \subseteq Visible(Merged(a, p))
  <2>1. Merged(a, p)[s] = q /\ s \in DOMAIN Merged(a, p)
    BY <1>1
  <2>2. QED
    BY <2>1 DEF Visible
<1>5. QED
  BY <1>2, <1>3, <1>4

\* In an array without duplicates an identity that is shown has one value.
LEMMA OneReadable ==
  ASSUME NEW n \in Nat, NEW a \in [1..n -> Point], Unique(a), NEW q \in Visible(a)
  PROVE  \A r \in Visible(a) : Id(r) = Id(q) => r = q
BY DEF Visible, Unique
=============================================================================
