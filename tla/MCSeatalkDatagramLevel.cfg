SPECIFICATION Spec
CONSTANTS
  Reports <- ResponseLevels
  Writings <- NoReports
  Modes = {0, 2, 4, 8}
  MaxDamage = 0
INVARIANT LevelIsSentAsDocumented
