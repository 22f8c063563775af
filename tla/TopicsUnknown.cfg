\* A topic whose registration is gone when it is asked for.
SPECIFICATION FairSpec
CONSTANTS
  TopicIds = {t1}
  Subs = {g1, g2}
  NoSub = NoSub
  MaxQueue = 1
  MayBreak = FALSE
PROPERTY UnknownTopicIsRefused
CHECK_DEADLOCK FALSE
