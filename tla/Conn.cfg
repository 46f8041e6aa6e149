SPECIFICATION FairSpec
CONSTANTS
  Backoff <- DefaultBackoff
  PollingAfter = 15
  ConnectTimeout = 3
  Off = Off
  MaxStarts = 2
INVARIANTS OneWayOn StoppedIsQuiet ToldTrue PollsAtLast
PROPERTY Recovers
