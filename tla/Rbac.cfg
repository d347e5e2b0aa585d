CONSTANTS
  Handlers = {h1, h2}
  Users = {u1, u2}
  Roles = {r1, r2}
  Permissions = {p1}
  Nothing = Nothing
  MaxListed = 2
SYMMETRY HandlerSymmetry
SPECIFICATION Spec
INVARIANTS WaitsForRunning
PROPERTIES Implements AccessTakenOnPurpose OnlyAskedFor
CHECK_DEADLOCK FALSE
