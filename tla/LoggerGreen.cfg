\* The documentation: green requires every node to respond.
SPECIFICATION LoggerSpec
CONSTANTS
  Targets = 3
  Name = {1, 2, 3}
  FirstName <- SameName
  Spare = {}
  Entity = {e1}
  Value = {v1}
  None = None
  Poller = Poller
  Request = {r1}
  MaxEvents = 2
  MaxChanges = 2
INVARIANTS
  GreenHeardEveryTarget
