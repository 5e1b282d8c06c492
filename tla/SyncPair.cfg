\* Two devices: the second knows the first, which finds it, and itself, on some
\* ticks; three writes, wall clocks that disagree, two pushes that may be late.
SPECIFICATION Spec
CONSTANTS
  Device = {1, 2}
  Entity = {e1}
  Value = {v1}
  Deleted = Deleted
  NoEntry = NoEntry
  Clock = {1, 2}
  Slot = {s1, s2}
  NoPush = NoPush
  Knows <- Star
  Finds <- BothByFirst
  MaxSeq <- TwoAndOne
  Switched = {}
SYMMETRY SlotSymmetry
CONSTRAINT OneThingAtATime
INVARIANTS
  TypeOK
  SyncInv
  NoGap
  OneOpPerSeq
  Convergence
  ClockCoversLog
PROPERTIES
  LocalOpsLoseWithinMs
  ImplementsStore
