SPECIFICATION Spec
CONSTANTS
  StartOfDay = 2
  StopTrading = 3
  Close = 5
  PanicFlags <- WithAndWithout
  Cooldown = 2
  HurriedCooldown = 1
  FlagSettings <- ScoreOnly
INVARIANTS TypeOK UncheckedOnlyInPanic
PROPERTIES OpeningIsAuthorised PanicIsHeard HurryOnlyWhenDue
CHECK_DEADLOCK FALSE
