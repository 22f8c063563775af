---------------------------- MODULE Attachments ----------------------------
(***************************************************************************)
(* Messages with attachments from one C++ peer to another: the queue       *)
(* _upld_attachments the sender's threads fill and completed futures drain *)
(* (peer.h build_send_message, peer.cpp run_upload), and the queue         *)
(* _dwnl_attachments of the futures the receiver has promised.             *)
(*                                                                         *)
(* Text and binary frames share one ordered stream; a binary frame carries *)
(* no name, so it is for whoever waits first at the receiver. A sender     *)
(* that holds _lock alone works in one step; one that shares it            *)
(* (publishing) or goes without (an answer) works in four.                 *)
(***************************************************************************)
EXTENDS Naturals, Sequences

CONSTANTS
  Msgs,      \* the messages with attachments that may be sent
  Count,     \* Count[m]: the number of attachments of m
  MaxFrames, \* bound: frames an upload that does not end may send
  MayBreak   \* bound: whether the connection may be lost

ASSUME CountAssumption == Count \in [Msgs -> Nat \ {0}]
ASSUME MaxFramesAssumption == MaxFrames \in Nat
ASSUME MayBreakAssumption == MayBreak \in BOOLEAN

\* An attachment is known by its message and its place there.
Atts == UNION {{<<m, i>> : i \in 1 .. Count[m]} : m \in Msgs}
AttsOf(m) == [i \in 1 .. Count[m] |-> <<m, i>>]

Modes == {"unique", "shared", "no"}

VARIABLES
  sender,    \* sender[m]: how far build_send_message is with m
  upld,      \* _upld_attachments, oldest first
  ready,     \* the attachments whose futures are set, to data or an error
  waiting,   \* waiting[a]: upload callbacks that wait for a
  popping,   \* popping[a]: those that have sent a and have yet to pop it
  spinning,  \* the uploads that go round on an attachment that was set
  wire,      \* the frames on their way; "binary" stands for "-" as well
  dwnl,      \* _dwnl_attachments, the promised futures, oldest first
  got,       \* got[a]: what the future promised for a was set to
  conn,      \* "up", "broken", or "closed" at the receiver
  announced, \* history: the attachments of the messages sent, in order
  frames,    \* history: the attachments whose frames were sent, in order
  disturbed  \* history: senders overlapped, or an upload went round

vars == <<sender, upld, ready, waiting, popping, spinning, wire, dwnl, got,
          conn, announced, frames, disturbed>>

New == [at |-> "new", mode |-> "no", need_start |-> FALSE]
Senders == [at: {"new", "checked", "pushed", "texted", "done"}, mode: Modes,
            need_start: BOOLEAN]
Frames == [kind: {"text"}, msg: Msgs] \cup [kind: {"binary"}, att: Atts]
Nothing == <<>>

\* Queues hold attachments, callbacks are counted, and the receiver has the
\* states disconnect() and the frames can bring it to.
TypeOK ==
  /\ sender \in [Msgs -> Senders]
  /\ upld \in Seq(Atts)
  /\ ready \in SUBSET Atts
  /\ waiting \in [Atts -> Nat]
  /\ popping \in [Atts -> Nat]
  /\ spinning \in SUBSET [att: Atts, mode: Modes]
  /\ wire \in Seq(Frames)
  /\ dwnl \in Seq(Atts)
  /\ got \in [Atts -> Atts \cup {Nothing}]
  /\ conn \in {"up", "broken", "closed"}
  /\ announced \in Seq(Atts)
  /\ frames \in Seq(Atts)
  /\ disturbed \in BOOLEAN

Init ==
  /\ sender = [m \in Msgs |-> New]
  /\ upld = <<>>
  /\ ready = {}
  /\ waiting = [a \in Atts |-> 0]
  /\ popping = [a \in Atts |-> 0]
  /\ spinning = {}
  /\ wire = <<>>
  /\ dwnl = <<>>
  /\ got = [a \in Atts |-> Nothing]
  /\ conn = "up"
  /\ announced = <<>>
  /\ frames = <<>>
  /\ disturbed = FALSE

-----------------------------------------------------------------------------
(* The sender.                                                             *)

Text(m) == [kind |-> "text", msg |-> m]
Binary(a) == [kind |-> "binary", att |-> a]

Send(f) == wire' = IF conn = "up" THEN Append(wire, f) ELSE wire

InProgress(m) == sender[m].at \in {"checked", "pushed", "texted"}
Overlapping(m) == \E k \in Msgs \ {m} : InProgress(k)

\* Nobody holds _lock in a way that excludes this mode.  An upload that goes
\* round holds what its thread holds.
LockFree(mode) ==
  /\ \A s \in spinning : s.mode = "unique" => mode = "no"
  /\ mode = "unique" =>
       /\ \A s \in spinning : s.mode # "shared"
       /\ \A m \in Msgs : InProgress(m) => sender[m].mode # "shared"

\* run_upload for a queue: a callback waits for the first attachment, or, if
\* that is set already, is run at once, which leaves it in the queue and
\* begins again with it.
RunUpload(q, mode) ==
  IF q # <<>> /\ Head(q) \notin ready
  THEN /\ waiting' = [waiting EXCEPT ![Head(q)] = @ + 1]
       /\ UNCHANGED spinning
  ELSE /\ spinning' = IF q = <<>> THEN spinning
                      ELSE spinning \cup {[att |-> Head(q), mode |-> mode]}
       /\ UNCHANGED waiting

GoesRound(q) == q # <<>> /\ Head(q) \in ready

\* Faulty: an upload is begun whether or not one is under way.
SendCallAlwaysStarts(m) ==
  LET q == upld \o AttsOf(m) IN
    /\ sender[m].at = "new"
    /\ LockFree("unique")
    /\ sender' = [sender EXCEPT ![m].at = "done"]
    /\ upld' = q
    /\ Send(Text(m))
    /\ announced' = announced \o AttsOf(m)
    /\ RunUpload(q, "unique")
    /\ disturbed' = (disturbed \/ Overlapping(m) \/ GoesRound(q))
    /\ UNCHANGED <<ready, popping, dwnl, got, conn, frames>>

\* build_send_message for a call, which holds _lock from begin to end.
SendCall(m) ==
  LET q == upld \o AttsOf(m) IN
    /\ sender[m].at = "new"
    /\ LockFree("unique")
    /\ sender' = [sender EXCEPT ![m].at = "done"]
    /\ upld' = q
    /\ Send(Text(m))
    /\ announced' = announced \o AttsOf(m)
    /\ IF upld = <<>> THEN RunUpload(q, "unique")
       ELSE UNCHANGED <<waiting, spinning>>
    /\ disturbed' = (disturbed \/ Overlapping(m)
                       \/ (upld = <<>> /\ GoesRound(q)))
    /\ UNCHANGED <<ready, popping, dwnl, got, conn, frames>>

\* The same for an update (mode "shared") or an answer (mode "no").
Check(m, mode) ==
  /\ sender[m].at = "new"
  /\ LockFree(mode)
  /\ sender' = [sender EXCEPT ![m] = [at |-> "checked", mode |-> mode,
                                      need_start |-> upld = <<>>]]
  /\ disturbed' = (disturbed \/ Overlapping(m))
  /\ UNCHANGED <<upld, ready, waiting, popping, spinning, wire, dwnl, got,
                 conn, announced, frames>>

PushAll(m) ==
  /\ sender[m].at = "checked"
  /\ sender' = [sender EXCEPT ![m].at = "pushed"]
  /\ upld' = upld \o AttsOf(m)
  /\ UNCHANGED <<ready, waiting, popping, spinning, wire, dwnl, got, conn,
                 announced, frames, disturbed>>

SendText(m) ==
  /\ sender[m].at = "pushed"
  /\ sender' = [sender EXCEPT ![m].at = "texted"]
  /\ Send(Text(m))
  /\ announced' = announced \o AttsOf(m)
  /\ UNCHANGED <<upld, ready, waiting, popping, spinning, dwnl, got, conn,
                 frames, disturbed>>

\* Faulty: the same, in a sender that does not exclude others.
StartUploadAlways(m) ==
  /\ sender[m].at = "texted"
  /\ sender' = [sender EXCEPT ![m].at = "done"]
  /\ RunUpload(upld, sender[m].mode)
  /\ disturbed' = (disturbed \/ GoesRound(upld))
  /\ UNCHANGED <<upld, ready, popping, wire, dwnl, got, conn, announced,
                 frames>>

StartUpload(m) ==
  /\ sender[m].at = "texted"
  /\ sender' = [sender EXCEPT ![m].at = "done"]
  /\ IF sender[m].need_start
     THEN /\ RunUpload(upld, sender[m].mode)
          /\ disturbed' = (disturbed \/ GoesRound(upld))
     ELSE UNCHANGED <<waiting, spinning, disturbed>>
  /\ UNCHANGED <<upld, ready, popping, wire, dwnl, got, conn, announced,
                 frames>>

\* The application, or the peer the attachment comes from, sets the future.
SetFuture(a) ==
  /\ a \notin ready
  /\ ready' = ready \cup {a}
  /\ UNCHANGED <<sender, upld, waiting, popping, spinning, wire, dwnl, got,
                 conn, announced, frames, disturbed>>

\* Faulty: a callback runs though none is left.
SendFrameAgain(a) ==
  /\ a \in ready
  /\ waiting' = [waiting EXCEPT ![a] = @ - 1]
  /\ popping' = [popping EXCEPT ![a] = @ + 1]
  /\ Send(Binary(a))
  /\ frames' = Append(frames, a)
  /\ UNCHANGED <<sender, upld, ready, spinning, dwnl, got, conn, announced,
                 disturbed>>

\* A callback that waited runs: it sends the binary frame, or "-", without
\* the lock.
SendFrame(a) ==
  /\ a \in ready /\ waiting[a] > 0
  /\ waiting' = [waiting EXCEPT ![a] = @ - 1]
  /\ popping' = [popping EXCEPT ![a] = @ + 1]
  /\ Send(Binary(a))
  /\ frames' = Append(frames, a)
  /\ UNCHANGED <<sender, upld, ready, spinning, dwnl, got, conn, announced,
                 disturbed>>

\* Faulty: the queue is popped and the next upload is not begun.
PopOnly(a) ==
  /\ popping[a] > 0
  /\ LockFree("unique")
  /\ upld # <<>>
  /\ popping' = [popping EXCEPT ![a] = @ - 1]
  /\ upld' = Tail(upld)
  /\ disturbed' = (disturbed \/ \E m \in Msgs : InProgress(m))
  /\ UNCHANGED <<sender, ready, waiting, spinning, wire, dwnl, got, conn,
                 announced, frames>>

\* Then it pops the queue and runs the next upload under the lock.
PopAndRun(a) ==
  /\ popping[a] > 0
  /\ LockFree("unique")
  /\ upld # <<>>
  /\ popping' = [popping EXCEPT ![a] = @ - 1]
  /\ upld' = Tail(upld)
  /\ RunUpload(Tail(upld), "unique")
  /\ disturbed' = (disturbed \/ (\E m \in Msgs : InProgress(m))
                     \/ GoesRound(Tail(upld)))
  /\ UNCHANGED <<sender, ready, wire, dwnl, got, conn, announced, frames>>

\* An upload whose attachment was ready sends it, and begins again with it.
GoRound(s) ==
  /\ s \in spinning
  /\ Len(frames) < MaxFrames
  /\ Send(Binary(s.att))
  /\ frames' = Append(frames, s.att)
  /\ UNCHANGED <<sender, upld, ready, waiting, popping, spinning, dwnl, got,
                 conn, announced, disturbed>>

-----------------------------------------------------------------------------
(* The receiver.                                                           *)

Receives(kind) == conn # "closed" /\ wire # <<>> /\ Head(wire).kind = kind

\* The prefix A: a future is promised for every attachment, then the message
\* is parsed.
OnAttachment ==
  /\ Receives("text")
  /\ wire' = Tail(wire)
  /\ dwnl' = dwnl \o AttsOf(Head(wire).msg)
  /\ UNCHANGED <<sender, upld, ready, waiting, popping, spinning, got, conn,
                 announced, frames, disturbed>>

\* Faulty: the youngest promise is kept.
KeepYoungest ==
  /\ Receives("binary")
  /\ wire' = Tail(wire)
  /\ IF dwnl = <<>> THEN UNCHANGED <<dwnl, got>>
     ELSE /\ dwnl' = SubSeq(dwnl, 1, Len(dwnl) - 1)
          /\ got' = [got EXCEPT ![dwnl[Len(dwnl)]] = Head(wire).att]
  /\ UNCHANGED <<sender, upld, ready, waiting, popping, spinning, conn,
                 announced, frames, disturbed>>

\* on_binary_message and on_attachment_error: the oldest promise is kept or
\* failed.  (Without one a node error is sent.)
OnBinaryMessage ==
  /\ Receives("binary")
  /\ wire' = Tail(wire)
  /\ IF dwnl = <<>> THEN UNCHANGED <<dwnl, got>>
     ELSE /\ dwnl' = Tail(dwnl)
          /\ got' = [got EXCEPT ![Head(dwnl)] = Head(wire).att]
  /\ UNCHANGED <<sender, upld, ready, waiting, popping, spinning, conn,
                 announced, frames, disturbed>>

\* The connection fails: what is sent from now on is lost.
LinkBreak ==
  /\ MayBreak
  /\ conn = "up"
  /\ conn' = "broken"
  /\ UNCHANGED <<sender, upld, ready, waiting, popping, spinning, wire, dwnl,
                 got, announced, frames, disturbed>>

\* The receiver's disconnect(), after as many of the frames on their way as
\* the connection delivers: the promises go to a local queue, and with it.
OnClose ==
  /\ conn = "broken"
  /\ conn' = "closed"
  /\ wire' = <<>>
  /\ dwnl' = <<>>
  /\ UNCHANGED <<sender, upld, ready, waiting, popping, spinning, got,
                 announced, frames, disturbed>>

-----------------------------------------------------------------------------
Uploading(a) == SendFrame(a) \/ PopAndRun(a)
Sending(m) == PushAll(m) \/ SendText(m) \/ StartUpload(m)
Receiving == OnAttachment \/ OnBinaryMessage

Next ==
  \/ \E m \in Msgs : SendCall(m) \/ Sending(m)
  \/ \E m \in Msgs, mode \in Modes \ {"unique"} : Check(m, mode)
  \/ \E a \in Atts : SetFuture(a) \/ Uploading(a)
  \/ \E s \in spinning : GoRound(s)
  \/ Receiving
  \/ LinkBreak
  \/ OnClose

Spec == Init /\ [][Next]_vars

\* Threads run on, the listener listens, every future is set in the end.
Fairness ==
  /\ \A m \in Msgs : WF_vars(Sending(m))
  /\ \A a \in Atts : WF_vars(SetFuture(a)) /\ WF_vars(Uploading(a))
  /\ WF_vars(Receiving)

FairSpec == Spec /\ Fairness

-----------------------------------------------------------------------------
(* What senders that do not overlap, with attachments that are not ready   *)
(* before their turn, can rely on.                                         *)

\* Binary frames are sent in the order in which the messages announced them,
\* and none before its message (doc/umq_cs.md, "Pravidla pro binární rámce").
FramesInOrder ==
  ~disturbed =>
    /\ Len(frames) <= Len(announced)
    /\ frames = SubSeq(announced, 1, Len(frames))

\* A promise is kept with the attachment it was made for.
PromisesKeptRight ==
  ~disturbed => \A a \in Atts : got[a] # Nothing => got[a] = a

\* A callback waits for the first attachment of the queue, or has sent it and
\* is about to pop it, and there is one at most: nothing is sent twice or
\* skipped.
OneUploadAtATime ==
  ~disturbed =>
    \A a \in Atts :
      waiting[a] + popping[a] > 0 =>
        /\ waiting[a] + popping[a] = 1
        /\ upld # <<>> /\ Head(upld) = a

Announced(a) == \E i \in DOMAIN announced : announced[i] = a

\* Every announced attachment arrives, or its error does, as long as the
\* connection holds.
AttachmentsArrive ==
  \A a \in Atts : Announced(a) ~> got[a] # Nothing \/ disturbed \/ conn # "up"
=============================================================================
