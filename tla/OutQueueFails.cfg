CONSTANTS
  Senders = {s1, s2}
  MaxSends = 3
  Capacity = 9
  CanFail = TRUE
SPECIFICATION FairSpec
PROPERTY DataSendDelivers
CHECK_DEADLOCK FALSE
