\* The comment on append: a write answered 200 is on disk.
SPECIFICATION DaemonSpec
CONSTANTS
  Device = {1, 2}
  Entity = {e1}
  Value = {v1}
  Deleted = Deleted
  NoEntry = NoEntry
  Clock = {1}
  Me = 1
  Peer = 2
  Task = {t1}
  Idle = Idle
  NoFile = NoFile
  Header = Header
  Torn = Torn
  Malformed = Malformed
  Faults = {"append"}
  MaxSeq <- TwoAndNone
  MaxKills = 1
  MaxFailed = 1
INVARIANTS
  AckedSurvives
