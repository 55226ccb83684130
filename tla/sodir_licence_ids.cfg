CONSTANTS
  YearDays = 4
  Cooldown = 2
  NumberOf <- MCNumberOf
  Complements <- MCComplements
  Worlds <- LicenceWorlds
SPECIFICATION Spec
INVARIANT LicencesJoined
CHECK_DEADLOCK FALSE
