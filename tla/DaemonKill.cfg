\* Two tasks at once, one kill, appends that fail or tear, and a kill that leaves a
\* file without its header or cuts a row.
SPECIFICATION DaemonSpec
CONSTANTS
  Device = {1, 2}
  Entity = {e1}
  Value = {}
  Deleted = Deleted
  NoEntry = NoEntry
  Clock = {1}
  Me = 1
  Peer = 2
  Task = {t1, t2}
  Idle = Idle
  NoFile = NoFile
  Header = Header
  Torn = Torn
  Malformed = Malformed
  Faults = {"append", "tear", "create", "cut"}
  MaxSeq <- TwoEach
  MaxKills = 1
  MaxFailed = 1
SYMMETRY TaskSymmetry
CONSTRAINT DaemonBounds
INVARIANTS
  DaemonTypeOK
  DaemonInv
  NothingOnlyInMemory
  LedgerNamesOnce
  AckedAccountedFor
  GapsAccountedFor
  RowsAccountedFor
  SeqReuseAccountedFor
  ShowsLastWriters
PROPERTIES
  NewOpsAboveRows
