CONSTANTS
  Request = {r1, r2}
  Original = Original
  Down = Down
  NoRequest = NoRequest
  Unrecorded = Unrecorded
  Admin = Admin
SPECIFICATION Spec
SYMMETRY Symmetry
INVARIANT RefusedForCause
