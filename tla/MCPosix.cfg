SPECIFICATION Spec
CONSTANTS
  NSlots = 5
  IndexSpan = 8
  HandleGens = 4
  NoObj = NoObj
  Chans = {1}
  RingLen = 2
  MaxPid = 3
  PTabCap = 3
  s1 = s1
  s2 = s2
  Spaces <- MCSpaces
  NFiles = 1
  Victims = {1, 2}
  MaxMade = 2
  MaxGen = 1
  VfsSwaps = 1
  HandleArgs = {4, 5}
  DupTo = {0, 5}
  DupFloors = {3}
  PollWants = {{"IN"}}
  Ops <- MCOps
  Races = {}
SYMMETRY MCSymmetry
CHECK_DEADLOCK FALSE
INVARIANTS
  EndpointRefs
  HandlesBacked
  SleepersNotReady
  SpacesOwned
