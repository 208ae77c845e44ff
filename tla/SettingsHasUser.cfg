SPECIFICATION SessionSpec
CONSTANTS
  MaxSignIns = 1
  MaxForms = 1
  MaxLaunches = 1
CHECK_DEADLOCK FALSE
INVARIANTS SettingsHasUser
