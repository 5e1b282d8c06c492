\* The second machine is told of the first and may have no route out when it starts;
\* the third hears of it on the local network, restarts (perhaps under another id) and
\* moves, perhaps to where the second was; calls to the first do not all fail.
SPECIFICATION LiveDiscovery
CONSTANTS
  Node = {1, 2, 3}
  NoAddr = NoAddr
  NoId = NoId
  Local = 0
  Tail <- NoTailnet
  Home <- AtHome
  Away <- AwayFromHome
  Bootstrap <- TwoKnowsHub
  Announcing = {1, 3}
  Matching = {1}
  Forgetful = {3}
  Unrouted = {2}
  Slow <- ThirdToHub
  Links <- ToHub
  MaxStarts <- TwiceTheThird
CONSTRAINT MeshBounds
INVARIANTS
  DiscoveryTypeOK
  ListingsGenuine
PROPERTIES
  ExchangeIntroduces
  EveryoneListed
  PairsMeet
