\* Three slots, two types, two keys: full, refused and spoiled arrays.
CONSTANTS
  Types = {ta, tb}
  Keys = {k0, k1}
  Values = {v1, v2}
  NoType = noType
  BlankKey = blank
  ZeroKey = k0
  Size = 3
  Traffic <- MCTraffic
SPECIFICATION Spec
INVARIANTS TypeOK KnownUnique NoStaleValue
PROPERTIES SlotKeepsIdentity RefinesMap
