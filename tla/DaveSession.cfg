SPECIFICATION FairSpec
CONSTANTS
  alice = alice
  bob = bob
  carol = carol
  Users = {alice, bob, carol}
  Bounds <- MCBounds
INVARIANTS Agreement PendingIsStored KeyIsCurrent
PROPERTIES KeyOnce Converges
CHECK_DEADLOCK FALSE
