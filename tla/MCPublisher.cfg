\* Four subscribers, callbacks that mark anybody, two overlapping resets.
SPECIFICATION Spec
CONSTANTS
  MaxSubs = 4
  MaxMarks = 5
  MaxResets = 2
  Width = 4
INVARIANTS
  TypeOK
  MarkedAreRemoved
  NobodyElseRemoved
PROPERTY CycleIsStable
