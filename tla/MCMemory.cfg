SPECIFICATION Spec
CONSTANTS
  Base = 100
  Size = 796
  PageSize = 64
  WindowPa = 750
  WindowBytes = 160
  HdrBytes = 32
  PoolOrder = 2
  Threads = {t1, t2}
  StackPages = {1, 2}
  MaxSpaces = 2
  BlockPages = 2
  WindowPages = 2
  Loads <- MCLoads
INVARIANTS
  PagesAccounted
  FreeCountExact
  BuddyWhole
SYMMETRY Sym
