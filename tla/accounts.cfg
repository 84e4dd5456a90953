SPECIFICATION Spec
CONSTANTS
  Request = {q1, q2}
  Email = {e1, e2}
  Role = {"admin", "staff"}
  BuiltIn = {"admin"}
  Perm = {"users", "roles"}
  MaxUsers = 2
INVARIANT TypeOK
INVARIANT RolesExist
PROPERTY NoEscalation
PROPERTY SsoLeavesLocal
SYMMETRY Symmetric
