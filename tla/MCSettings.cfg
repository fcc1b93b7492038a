CONSTANTS
  Browsers = {a, b}
  Titles = {t0, t1}
  NoTitle = t0
  Passwords = {p, q}
  NoPassword = NoPassword
  MaxEvents = 4
SYMMETRY Symmetry
SPECIFICATION Spec
CHECK_DEADLOCK FALSE
INVARIANTS SettingsTypeOK OldSessionsEnd PanelIsOwn
PROPERTIES PasswordIsChosen SaveChangesTouched
