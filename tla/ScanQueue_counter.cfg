CONSTANTS
  t1 = t1  t2 = t2  p1 = p1  p2 = p2  w1 = w1  w2 = w2  none = none
  Task = {t1, t2}
  Process = {p1}
  Thread = {w1, w2}
  Owner <- OneProcess
  NoTask = none
  MaxAttempts = 2
  FailurePercent = 10
  MayGoOverdue = FALSE
  MaxFaults = 0
SPECIFICATION Spec
INVARIANTS CounterMatchesTasks
