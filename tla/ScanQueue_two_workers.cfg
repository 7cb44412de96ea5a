CONSTANTS
  t1 = t1  t2 = t2  p1 = p1  p2 = p2  w1 = w1  w2 = w2  none = none
  Task = {t1, t2}
  Process = {p1, p2}
  Thread = {w1, w2}
  Owner <- TwoProcesses
  NoTask = none
  MaxAttempts = 2
  FailurePercent = 10
  MayGoOverdue = TRUE
  MaxFaults = 1
SYMMETRY Symmetry
SPECIFICATION Spec
INVARIANTS TypeOK FreshTaskIsExclusive NeverOvercounts
PROPERTIES OutcomeIsFinal
