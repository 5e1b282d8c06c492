\* Two targets, one command at a time, any three changes at the nodes, one of
\* which may come back under another id.
SPECIFICATION LoggerSpec
CONSTANTS
  Targets = 2
  Name = {1, 2, 3}
  FirstName <- SameName
  Spare = {3}
  Entity = {e1}
  Value = {v1}
  None = None
  Poller = Poller
  Request = {r1}
  MaxEvents = 2
  MaxChanges = 3
INVARIANTS
  LoggerTypeOK
  EventsAgree
  NoEventRepeats
PROPERTIES
  PartitionShows
  GreenComes
