CONSTANTS
  Request = {r1}
  Original = Original
  Down = Down
  NoRequest = NoRequest
  Unrecorded = Unrecorded
  Admin = Admin
SPECIFICATION FairSpec
PROPERTIES
  UpdateEnds
  MaintenanceReleased
