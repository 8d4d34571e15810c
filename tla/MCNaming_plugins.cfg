SPECIFICATION Spec
CONSTANTS
  Visited <- MCVisited
  Asks <- MCAsks
  SIZE = 7
INVARIANTS OwnName RightPlace Survives
