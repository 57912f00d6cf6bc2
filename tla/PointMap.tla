------------------------------ MODULE PointMap ------------------------------
(***************************************************************************)
(* What an array of points promises its readers: a bounded map from        *)
(* identity to the most recent point.  The one way it can shrink is a      *)
(* point of unknown data type, which takes a place for good.               *)
(***************************************************************************)
EXTENDS Integers, FiniteSets

CONSTANTS Ids, Contents, Capacity

VARIABLES map, wasted

Nothing == [i \in {} |-> {}]
Room == Cardinality(DOMAIN map) + wasted < Capacity

Init == map = Nothing /\ wasted = 0

\* A point of known data type becomes the value of its identity.
Put(i, c) ==
  /\ i \in DOMAIN map \/ Room
  /\ map' = [j \in DOMAIN map \cup {i} |-> IF j = i THEN c ELSE map[j]]
  /\ UNCHANGED wasted

\* A point of unknown data type replaces the value of its identity, or takes
\* a place of its own; either way the place is never used again.
Spoil(i) ==
  /\ i \in DOMAIN map \/ Room
  /\ map' = [j \in DOMAIN map \ {i} |-> map[j]]
  /\ wasted' = wasted + 1

Next == \E i \in Ids : Spoil(i) \/ \E c \in Contents : Put(i, c)

Spec == Init /\ [][Next]_<<map, wasted>>
=============================================================================
