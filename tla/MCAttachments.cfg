\* A message of two attachments and one of one, from any two senders.
SPECIFICATION FairSpec
CONSTANTS
  m1 = m1
  m2 = m2
  Msgs <- MCMsgs
  Count <- MCCount
  MaxFrames = 2
  MayBreak = TRUE
INVARIANTS
  TypeOK
  FramesInOrder
  PromisesKeptRight
  OneUploadAtATime
PROPERTY AttachmentsArrive
\* When everything has been sent and received nobody has anything to do.
CHECK_DEADLOCK FALSE
