\* Device 2 knows device 1, which knows device 3 and finds device 2 on some ticks.
\* Device 1, through which every write goes, is flipped offline and online at will.
SPECIFICATION LiveSpec
CONSTANTS
  Device = {1, 2, 3}
  Entity = {e1}
  Value = {}
  Deleted = Deleted
  NoEntry = NoEntry
  Clock = {1}
  Slot = {s1}
  NoPush = NoPush
  Knows <- Chain
  Finds <- SecondByFirst
  MaxSeq <- NotTheFirst
  Switched = {1}
PROPERTIES
  Reconverges
  Quiesces
