\* Two threads, two names, two values, three calls.
SPECIFICATION Spec
CONSTANTS
  Names = {1, 2}
  Values = {va, vb}
  Unset = Unset
  Threads = {t1, t2}
  MaxSets = 3
INVARIANT RemoteFollowsLocal
\* The threads may have made all their calls.
CHECK_DEADLOCK FALSE
