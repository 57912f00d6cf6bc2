\* Two identities, POSTs of up to two points, a pool that a POST starves.
CONSTANTS
  ta = ta
  tb = tb
  Types = {ta, tb}
  Keys = {k0}
  Values <- MCValues
  NoType = noType
  BlankKey = blank
  ZeroKey = k0
  Devices = {d1}
  PostMax = 2
  WebSize = 3
  CacheSize = 3
  Pool = 2
  Ticking = TRUE
  Settings = {ta}
  Traffic <- MCTraffic
  MaxOffers = 3
SPECIFICATION Spec
INVARIANTS TypeOK MirrorsWhenDrained
PROPERTIES Converges PostAnswered TickServed
