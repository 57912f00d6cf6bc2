\* Looks for an identity that has a slot and does not show its latest value.
CONSTANTS
  Types = {ta, tb}
  Keys = {k0, k1}
  Values = {v1, v2}
  NoType = noType
  BlankKey = blank
  ZeroKey = k0
  Size = 2
  Traffic <- MCTraffic
SPECIFICATION Spec
INVARIANT HoldsMostRecent
