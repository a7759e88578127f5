CONSTANTS
  Process = {p1}
  NoProcess = NoProcess
  d1 = d1
  a2 = a2
  Request = {d1, a2}
  NoRequest = NoRequest
  MaxVersion = 2
  Reversible = {2}
  NeedsRestore = {}
  RetainReleases = 1
  Scopes = {"page"}
  Automatic <- AutomaticId
SPECIFICATION MCSpec
INVARIANT QuietInstall
CHECK_DEADLOCK FALSE
