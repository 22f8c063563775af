\* Two ids: the client may use the first for a second call or callback.
SPECIFICATION FairSpec
CONSTANTS
  Client = Client
  Server = Server
  Calls = {c1, c2}
  NoCall = NoCall
  IdSpace = 2
  MaxIds <- OneTwice
  MayFail = FALSE
INVARIANT CallbackHeldOnce
PROPERTIES
  OutcomeIsFinal
  CallsComplete
CHECK_DEADLOCK FALSE
