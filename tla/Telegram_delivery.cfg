CONSTANTS
  n1 = n1  n2 = n2  g1 = g1  g2 = g2  b1 = b1  b2 = b2  none = none
  Notification = {n1, n2}
  Target = {g1}
  TargetOf <- OneTarget
  Bot = {b1, b2}
  OneShot = {b2}
  NoNotification = none
  MaxAttempts = 2
  MaxFaults = 2
SPECIFICATION FairSpec
INVARIANTS TypeOK OneSender DeliveriesAreBounded EveryDuplicateHasACause
PROPERTIES SentIsFinal NotificationIsSettled
