\* Two settings, two connections: a save, and a poll or another save.
CONSTANTS
  Settings = {description, address}
  Conns = {"c1", "c2"}
  MaxStamps = 2
  MaxLosses = 1
SPECIFICATION Spec
INVARIANTS TypeOK OwnBytesOnly SavesStand
PROPERTIES RequestsEnd PageConverges
