CONSTANTS
  n1 = n1  n2 = n2  g1 = g1  g2 = g2  b1 = b1  b2 = b2  none = none
  Notification = {n1}
  Target = {g1}
  TargetOf <- OnlyOne
  Bot = {b1}
  OneShot = {}
  NoNotification = none
  MaxAttempts = 2
  MaxFaults = 1
SPECIFICATION FairSpec
PROPERTIES SendingIsAgedOut
