SPECIFICATION Spec
CONSTANTS
  Files = {f1}
  Children = {c1, c2}
  f1 = f1
  c1 = c1
  c2 = c2
  Blocks = {1, 2}
  Today = 1
  NUM_FILES = 1
  MAX_HIT = 1
  TURN = 0
  STEP = 1
  EXACT = 1
  TotalMB = 1
  Asked = {0}
  Wanted = {{1, 2}}
  MaxAsked = 0
  Popular = {f1}
INVARIANTS SavedOnDisk
PROPERTIES CleanerEnds
CHECK_DEADLOCK FALSE
