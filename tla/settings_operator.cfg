\* The operator has switched the check for releases off, or named a feed.
CONSTANTS
  Visitors = {v1}
  Columns = {theme, banner}
  Values = {x1, x2}
  Feeds = {u1, u2}
  DefaultFeed = u1
  MaxEdits = 1
  MaxSettingsFaults = 0
SPECIFICATION SettingsSpec
PROPERTIES OperatorKeysKept
CHECK_DEADLOCK FALSE
