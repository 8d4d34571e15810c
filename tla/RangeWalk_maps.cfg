SPECIFICATION Spec
CONSTANTS
  Size = 6
INVARIANTS MapOK WalkAgrees WorkSound OnlyTheTail
