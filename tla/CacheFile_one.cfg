SPECIFICATION Spec
CONSTANTS
  Workers = {w1}
  w1 = w1
  Size = 4
  MaxPart = 2
  Extra = 1
  Kinds = {"whole", "ranges"}
INVARIANTS MapOnDisk MapDisjoint ServesRight
PROPERTIES MapGrows
