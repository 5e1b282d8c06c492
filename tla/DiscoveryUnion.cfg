\* The table of endpoints: the answer to /v1/peers is the union of what both know.
SPECIFICATION DiscoverySpec
CONSTANTS
  Node = {1, 2, 3}
  NoAddr = NoAddr
  NoId = NoId
  Local = 0
  Tail <- TailnetButTwo
  Home <- AtHome
  Away <- OnlyThird
  Bootstrap <- TwoKnowsHub
  Announcing = {1, 3}
  Matching = {1}
  Forgetful = {3}
  Unrouted = {}
  Slow = {}
  Links <- ToHub
  MaxStarts <- TwiceTheThird
PROPERTIES
  AnswerTellsAll
