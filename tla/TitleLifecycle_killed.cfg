SPECIFICATION Spec
CONSTANTS
  KeepFirst = TRUE
  SlowPlaces = {"poll"}
  TimerHeadroom = 1
  MaxTitles = 3
  MaxUnplugs = 0
CHECK_DEADLOCK FALSE
INVARIANT OpenNotRefused
