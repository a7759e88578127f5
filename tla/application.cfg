CONSTANTS
  Components = {"tasks", "accounts", "startup", "panel", "download", "backup", "form", "settings"}
  Tasks = {t1}
  Direct = {d1}
  Smokes = {s1}
  MaxFaults = 1
  Callers = {c1, c2}
  Passwords = {p1, p2}
  FailThreshold = 2
  MaxFails = 3
  MaxVersion = 1
  MaxAccountFaults = 1
  Starters = {i1, i2}
  MaxSchema = 2
  Length = 2
  ApiKeys = {1}
  MaxSecrets = 4
  MaxStartFaults = 1
  Files = {f1, f2}
  MaxLost = 2
  Spec <- ReleaseSpecs
  Key = {k1, k2}
  Trusted = {k1}
  Installation <- Installed
  SizeOf <- Sizes
  Checksums <- Sums
  Ranges = TRUE
  MaxFailures = 1
  Backuper = {b1, b2}
  MaxSecond = 1
  Visitors = {v1, v2}
  Columns = {theme}
  Values = {x1, x2}
  Feeds = {u1, u2}
  DefaultFeed = u1
  MaxEdits = 1
  MaxSettingsFaults = 1
  Forms <- AllForms
  PageCounts = {1, 2, 3, 4, 5, 6, 7}
SPECIFICATION ApplicationSpec
INVARIANTS ApplicationTypeOK DrainedOnce SessionsProved SchemaRecorded KeyServes ResultsShown VerifiedStays BackupsWhole FormAccepted MeantIsSent FileAgrees FeedShown
PROPERTIES ResultsKept TasksEnd LockEnds RunsEnd
CHECK_DEADLOCK FALSE
