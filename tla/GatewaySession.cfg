SPECIFICATION Spec
CONSTANTS
  u1 = u1
  Users = {u1}
  MaxLife = 2
  MaxGen = 2
INVARIANTS
  TypeOK
  OneLiveGeneration
  DataReadyMeansConnected
  EventQueueInOrder
  ReconnectInOrder
  CloseLeavesNothing
