CONSTANTS
  t1 = t1  t2 = t2  p1 = p1  w1 = w1  w2 = w2  r1 = r1  r2 = r2  none = none
  Task = {t1}
  Process = {p1}
  Thread = {w1, w2}
  Owner <- TwoThreads
  NoTask = none
  MaxAttempts = 2
  FailurePercent = 10
  MayGoOverdue = TRUE
  MaxFaults = 1
  Release = {r1, r2}
  DeviceOf <- OneDevice
  TrackOf <- OldAndNew
  Routed = {r2}
  NoRelease = none
  ArchiveThreshold = 2
  Legacy = {t1}
SYMMETRY Symmetry
SPECIFICATION MCSpec
INVARIANTS ScannerTypeOK ReportedReleaseIsAnnounced DiscoveryIsAnnounced 
  HealthFollowsOutcome
PROPERTIES OneStrikePerFailedTask TrackNeverGoesBack
