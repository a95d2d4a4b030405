SPECIFICATION Spec
CONSTANTS
  s1 = s1
  s2 = s2
  Senders <- MCSenders
  First = s1
  Cap = 2
  Quota <- MCQuota
  RecvSpin = 2
INVARIANTS ExactlyOnce EndMeansDrained NoLostWakeup NoStrandedSender
PROPERTIES GlobalFifo
CHECK_DEADLOCK FALSE
