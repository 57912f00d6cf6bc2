\* Two identities compete for two slots, one of which may be spoiled.
CONSTANTS
  Types = {ta, tb}
  Keys = {k0}
  Values <- MCValues
  NoType = noType
  BlankKey = blank
  ZeroKey = k0
  Size = 2
  Traffic <- MCTraffic
  MaxPublishes = 3
SPECIFICATION Spec
INVARIANTS TypeOK HostTracksCache
PROPERTIES HostNeverGoesBack AllMerged
