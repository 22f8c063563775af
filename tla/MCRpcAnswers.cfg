\* A handler that throws.
SPECIFICATION Spec
CONSTANTS
  Client = Client
  Server = Server
  Calls = {c1, c2}
  NoCall = NoCall
  IdSpace = 2
  MaxIds <- TwoIds
  MayFail = TRUE
SYMMETRY Symmetry
INVARIANT OneAnswerPerCall
CHECK_DEADLOCK FALSE
