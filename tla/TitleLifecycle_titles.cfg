SPECIFICATION FairSpec
CONSTANTS
  KeepFirst = TRUE
  SlowPlaces = {"guard", "forget", "open", "opening", "start", "poll", "install", "loop",
                "retry", "stop", "close", "cleanup", "netdown", "axdown"}
  TimerHeadroom = 1
  MaxTitles = 3
  MaxUnplugs = 2
CHECK_DEADLOCK FALSE
INVARIANT NothingStale
INVARIANT TitleEndAbandons
PROPERTY WorkerStops
PROPERTY AdapterRecovered
