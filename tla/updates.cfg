CONSTANTS
  Process = {p1}
  NoProcess = NoProcess
  d1 = d1
  a2 = a2
  Request = {d1, a2}
  NoRequest = NoRequest
  MaxVersion = 2
  Reversible = {2}
  NeedsRestore = {}
  RetainReleases = 1
  Scopes = {"page", "requests", "commands"}
  Automatic <- AutomaticId
SPECIFICATION MCSpec
INVARIANTS UpdatesTypeOK InstallationAgrees Recoverable
PROPERTY ReopensWhole
CHECK_DEADLOCK FALSE
