--------------------------- MODULE MCAttachments ---------------------------
(* Attachments with one message of two attachments and one of one.         *)
EXTENDS Attachments

CONSTANTS m1, m2

MCMsgs == {m1, m2}
MCCount == [m \in MCMsgs |-> IF m = m1 THEN 2 ELSE 1]
=============================================================================
