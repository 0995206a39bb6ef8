\* Two streams, with and without a limit, two stops.
CONSTANTS
  s1 = s1
  s2 = s2
  t1 = t1
  t2 = t2
  Absent = Absent
  Stream <- MCStream
  Thread <- MCThread
  Limits <- MCLimits
  MaxStops = 2
SPECIFICATION FairStreamingSpec
INVARIANTS
  UnlimitedRunsOn
PROPERTIES
  StopForGoodEnds
\* All threads may have ended and all calls have been made.
CHECK_DEADLOCK FALSE
