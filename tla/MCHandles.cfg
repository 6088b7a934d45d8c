CONSTANTS
  Objects = {o1, o2, o3, o4}
  Resources = {r1, r2, r3, r4}
  None = None
SPECIFICATION Spec
INVARIANT ClosedOnce
SYMMETRY Symmetry
