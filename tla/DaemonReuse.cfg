\* The comment in apply: no seq is used twice.
SPECIFICATION DaemonSpec
CONSTANTS
  Device = {1, 2}
  Entity = {e1}
  Value = {v1}
  Deleted = Deleted
  NoEntry = NoEntry
  Clock = {1}
  Me = 1
  Peer = 2
  Task = {t1}
  Idle = Idle
  NoFile = NoFile
  Header = Header
  Torn = Torn
  Malformed = Malformed
  Faults = {}
  MaxSeq <- TwoAndNone
  MaxKills = 1
  MaxFailed = 1
INVARIANTS
  SeqNeverReused
