SPECIFICATION FairSpec
CONSTANTS
  u1 = u1
  u2 = u2
  Users = {u1, u2}
  MaxLife = 1
  MaxGen = 1
PROPERTIES CloseReturns CancelStops
