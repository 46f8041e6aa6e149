SPECIFICATION Spec
CONSTANTS
  Log <- Contest
  FirstEnd = 2
  Me = "me"
  Nobody = Nobody
  None = None
  Urgent = 1
  MaxShown = 1
  Lasting = 1
  Skew = 1
  Delay = 1
  MaxDue = 1
  MaxTime = 3
INVARIANTS ClockBehind AlertsTimed
PROPERTIES EventAlertsOnce
CHECK_DEADLOCK FALSE
