CONSTANTS
  Size = 2
  Cooldown = 2
  MaxNow = 4
  None = None
SPECIFICATION Spec
INVARIANT LocalMatchesRemote
