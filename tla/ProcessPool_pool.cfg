SPECIFICATION FairPool
CONSTANTS
  SERVERNUMBER = 2
  MAXSERVERS = 4
  Rooms = {3, 7}
  MaxBacklog = 3
INVARIANTS PoolTypeOK InstancesExact InstancesBound
PROPERTIES SpawnsForWaiting Reloads ReapsAll
