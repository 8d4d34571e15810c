SPECIFICATION Spec
CONSTANTS
  Files = {f1, f2}
  Children = {c1}
  f1 = f1
  f2 = f2
  c1 = c1
  Blocks = {1}
  Today = 1
  NUM_FILES = 1
  MAX_HIT = 2
  TURN = 0
  STEP = 1
  EXACT = 1
  TotalMB = 1
  Asked = {0, 3}
  Wanted = {{1}}
  MaxAsked = 3
  Popular = {f1}
INVARIANTS FilesHaveRows NothingForgotten
PROPERTIES NewestLast
CHECK_DEADLOCK FALSE
