\* Callbacks that unsubscribe others, no reset.
SPECIFICATION Spec
CONSTANTS
  MaxSubs = 3
  MaxMarks = 4
  MaxResets = 0
  Width = 3
INVARIANT AllMarkedAreRemoved
