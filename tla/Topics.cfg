\* Two topics, two subscriptions that may share one of them.
SPECIFICATION FairSpec
CONSTANTS
  TopicIds = {t1, t2}
  Subs = {g1, g2}
  NoSub = NoSub
  MaxQueue = 1
  MayBreak = TRUE
INVARIANTS
  TypeOK
  NobodyIsLeftWaiting
  NobodyPublishesInVain
PROPERTY UnsubscribeTakesEffect
\* A broken connection and no subscription left: nothing more to do.
CHECK_DEADLOCK FALSE
