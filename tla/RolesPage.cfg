CONSTANTS
  r1 = r1
  r2 = r2
  a1 = a1
  a2 = a2
  NoRole = NoRole
  NoAdmin = NoAdmin
  Node <- MCNode
  Root <- MCRoot
  Role = {r1, r2}
  Admin = {a1, a2}
  MaxDeleted = 1
SPECIFICATION Spec
CONSTRAINT Bound
SYMMETRY Alike
INVARIANTS TypeOK 
 
CHECK_DEADLOCK FALSE
