CONSTANTS
  YearDays = 4
  Cooldown = 2
  NumberOf <- MCNumberOf
  Complements <- MCComplements
  Worlds <- MCWorlds
SPECIFICATION Spec
INVARIANTS TypeOK OutputsCurrent HistoryTiled SnapshotInForce FactsWithinWindow LinksDisjoint VolumesDisjoint
PROPERTIES ServesItsBlueprint CallReturns
CHECK_DEADLOCK FALSE
