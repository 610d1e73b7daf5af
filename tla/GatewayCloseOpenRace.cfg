SPECIFICATION Spec
CONSTANTS
  u1 = u1
  u2 = u2
  Users = {u1, u2}
  MaxLife = 2
  MaxGen = 2
SYMMETRY UserSymmetry
INVARIANTS NoDoubleClose
