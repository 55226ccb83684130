CONSTANTS
  Stems = {field, custom}
  Catalog = {field}
  Workers = {w1}
  NeededSets = {{field}, {field, custom}}
  IndexCooldown = 1
  DatasetCooldown = 2
  MaxRows = 1
  MaxDay = 3
  MaxMoves = 2
  None = None
  Torn = Torn
SPECIFICATION Spec
INVARIANT ProbeCadence
