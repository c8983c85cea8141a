SPECIFICATION Spec
CONSTANTS
  Call = {c1, c2}
  Provider = {p, q}
  Shared = {s}
  None = None
  Env = Env
  Broken = Broken
  Unloaded = Unloaded
  MaxFaults = 2
SYMMETRY Interchangeable
INVARIANTS
  ChangesKept
  KeysBacked
  SecretsKept
CHECK_DEADLOCK FALSE
