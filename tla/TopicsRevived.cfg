\* One name used for two subscriptions, one after the other.
SPECIFICATION Spec
CONSTANTS
  TopicIds = {t1}
  Subs = {g1, g2}
  NoSub = NoSub
  MaxQueue = 1
  MayBreak = FALSE
INVARIANT UnsubscribedStaysSilent
CHECK_DEADLOCK FALSE
