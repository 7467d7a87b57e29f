SPECIFICATION Spec
CONSTANTS
  User = {u, w}
  Device = {d}
  Request = {r1, r2}
  Stores = {"memory", "postgres"}
  MaxAge = 2
  Prefixes <- MCPrefixes
  Malformed <- MCMalformed
  None = None
SYMMETRY Symmetry
INVARIANT RevocationAnnounced
PROPERTY RefusedOnlyWhenSignedOut
CHECK_DEADLOCK FALSE
