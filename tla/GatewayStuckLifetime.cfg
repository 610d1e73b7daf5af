SPECIFICATION Spec
CONSTANTS
  u1 = u1
  Users = {u1}
  MaxLife = 1
  MaxGen = 1
INVARIANTS CancelledLifetimeReleased
