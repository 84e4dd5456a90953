SPECIFICATION MappingsSpec
CONSTANTS
  Admin = {a1, a2}
  Group = {g1, g2}
  MappedRole = {r1, r2}
  NoRole = NoRole
  MaxMade = 3
  Secret = {s1, s2}
  NoSecret = NoSecret
SYMMETRY Symmetric
CONSTRAINT NotRaced
INVARIANT MappingsTypeOK
INVARIANT FirstMatchWins
PROPERTY SecretKept
