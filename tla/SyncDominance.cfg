\* The comment on observe: the next local op dominates what was received.
SPECIFICATION Spec
CONSTANTS
  Device = {1, 2}
  Entity = {e1}
  Value = {v1}
  Deleted = Deleted
  NoEntry = NoEntry
  Clock = {1, 2}
  Slot = {s1}
  NoPush = NoPush
  Knows <- FullMesh
  Finds <- NobodyElse
  MaxSeq <- TwoAndOne
  Switched = {}
PROPERTIES
  LocalOpsDominate
