\* The listener and two threads of the application, three calls or messages.
SPECIFICATION FairSpec
CONSTANTS
  Listener = Listener
  Apps = {a, b}
  MaxDepth = 4
  MaxCalls = 3
INVARIANTS
  TypeOK
  OnlyTheUnlockedRace
  RelocksAreKnown
  NotifiedOnce
  ApplicationHasLeft
PROPERTY KeptPeerIsReleased
\* Threads that wait for themselves, or have nothing left to do.
CHECK_DEADLOCK FALSE
