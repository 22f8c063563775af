\* Two calls, as many ids as are handed out: _call_id does not wrap.
SPECIFICATION Spec
CONSTANTS
  Client = Client
  Server = Server
  Calls = {c1, c2}
  NoCall = NoCall
  IdSpace = 2
  MaxIds <- TwoIds
  MayFail = TRUE
SYMMETRY Symmetry
INVARIANTS
  TypeOK
  CallbackHeldOnce
  AnswersMatchCalls
  OneAnswerUnlessThrown
  NoCallForgotten
  NamesStayRetired
PROPERTY PromiseSpec
\* Two destroyed peers with no call left to issue have nothing to do.
CHECK_DEADLOCK FALSE
