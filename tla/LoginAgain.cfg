SPECIFICATION Spec
CONSTANTS
  Identities = {x, y}
  Variants = {1, 2}
  Slots = {a, b}
  MaxSignIns = 2
  MaxDeletes = 1
  MaxFaults = 1
  Nobody = Nobody
  x = x
  y = y
  a = a
  b = b
SYMMETRY Symmetric
INVARIANT
  LoginKeepsTheAccount
CHECK_DEADLOCK FALSE
