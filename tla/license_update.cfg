CONSTANTS
  Request = {r1, r2, r3}
  Original = Original
  Down = Down
  NoRequest = NoRequest
  Unrecorded = Unrecorded
  Admin = Admin
SPECIFICATION Spec
SYMMETRY Symmetry
INVARIANTS
  UpdateTypeOK
  OutcomeHolds
  CrashRestorable
  MaintenanceHeld
  EndIsTrue
