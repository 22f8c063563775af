------------------------- MODULE AttachmentsProofs -------------------------
(***************************************************************************)
(* Proofs about Attachments, for any messages and numbers of attachments:  *)
(* while senders do not overlap and no attachment is ready before its      *)
(* turn, one upload at a time is under way, the binary frames follow the   *)
(* announcements, and every promise is kept with its own attachment.       *)
(***************************************************************************)
EXTENDS Attachments, SequenceTheorems, TLAPS

\* q is what is left of s after its first k members.
Suffix(q, s, k) ==
  /\ Len(s) = k + Len(q)
  /\ \A i \in 1 .. Len(q) : q[i] = s[k + i]

Prefix(f, s) == Len(f) <= Len(s) /\ \A i \in 1 .. Len(f) : f[i] = s[i]

\* The attachments announced and those of the message about to be.
Pushed(m) == sender[m].at = "pushed"
Known ==
  IF \E m \in Msgs : Pushed(m)
  THEN announced \o AttsOf(CHOOSE m \in Msgs : Pushed(m))
  ELSE announced

\* Which upload is under way.
Idle == \A a \in Atts : waiting[a] = 0 /\ popping[a] = 0
WaitingFor(a) ==
  /\ waiting[a] = 1 /\ popping[a] = 0
  /\ \A b \in Atts \ {a} : waiting[b] = 0 /\ popping[b] = 0
PoppingOf(a) ==
  /\ waiting[a] = 0 /\ popping[a] = 1
  /\ \A b \in Atts \ {a} : waiting[b] = 0 /\ popping[b] = 0

\* Nothing waits: the queue is empty, or its sender is about to begin.
PhaseIdle ==
  /\ Idle
  /\ Suffix(upld, Known, Len(frames))
  /\ upld = <<>> \/ \E m \in Msgs : InProgress(m)

\* The first of the queue is waited for; it has been announced.
PhaseWaiting ==
  \E a \in Atts :
    /\ WaitingFor(a)
    /\ upld # <<>> /\ Head(upld) = a
    /\ Suffix(upld, Known, Len(frames))
    /\ Len(frames) < Len(announced)

\* The first of the queue has been sent.
PhasePopping ==
  \E a \in Atts :
    /\ PoppingOf(a)
    /\ upld # <<>> /\ Head(upld) = a
    /\ Len(frames) > 0
    /\ Suffix(upld, Known, Len(frames) - 1)

\* What holds while senders do not overlap and nothing is ready too early.
Orderly ==
  /\ spinning = {}
  /\ \A m, k \in Msgs : InProgress(m) /\ InProgress(k) => m = k
  /\ \A m \in Msgs : InProgress(m) => (sender[m].need_start <=> Idle)
  /\ Prefix(frames, announced)
  /\ PhaseIdle \/ PhaseWaiting \/ PhasePopping

IInv == TypeOK /\ (~disturbed => Orderly)

-----------------------------------------------------------------------------
(* Sequences.                                                              *)

LEMMA AttsOfType ==
  ASSUME NEW m \in Msgs
  PROVE  AttsOf(m) \in Seq(Atts)
<1>1. Count[m] \in Nat
  BY CountAssumption
<1>2. \A i \in 1 .. Count[m] : <<m, i>> \in Atts
  BY DEF Atts
<1>3. QED
  BY <1>1, <1>2, IsASeq DEF AttsOf

\* Both grow by the same.
LEMMA SuffixAppend ==
  ASSUME NEW S, NEW q \in Seq(S), NEW s \in Seq(S), NEW r \in Seq(S),
         NEW k \in Nat, Suffix(q, s, k)
  PROVE  Suffix(q \o r, s \o r, k)
<1>1. /\ Len(q \o r) = Len(q) + Len(r) /\ Len(s \o r) = Len(s) + Len(r)
      /\ Len(q) \in Nat /\ Len(s) \in Nat /\ Len(r) \in Nat
      /\ Len(s) = k + Len(q)
  BY DEF Suffix
<1>2. ASSUME NEW i \in 1 .. Len(q \o r)
      PROVE  (q \o r)[i] = (s \o r)[k + i]
  <2>1. CASE i <= Len(q)
    <3>1. (q \o r)[i] = q[i] /\ (s \o r)[k + i] = s[k + i]
      BY <1>1, <2>1
    <3>2. QED
      BY <1>1, <2>1, <3>1 DEF Suffix
  <2>2. CASE i > Len(q)
    <3>1. (q \o r)[i] = r[i - Len(q)]
      BY <1>1, <2>2
    <3>2. (s \o r)[k + i] = r[k + i - Len(s)]
      BY <1>1, <2>2
    <3>3. k + i - Len(s) = i - Len(q)
      BY <1>1
    <3>4. QED
      BY <3>1, <3>2, <3>3
  <2>3. QED
    BY <1>1, <2>1, <2>2
<1>3. QED
  BY <1>1, <1>2 DEF Suffix

\* One is taken from the front.
LEMMA SuffixTail ==
  ASSUME NEW S, NEW q \in Seq(S), NEW s \in Seq(S), NEW k \in Nat,
         q # <<>>, Suffix(q, s, k)
  PROVE  Suffix(Tail(q), s, k + 1)
<1>1. Len(Tail(q)) = Len(q) - 1 /\ Len(q) \in Nat /\ Len(q) > 0
  BY EmptySeq
<1>2. \A i \in 1 .. Len(Tail(q)) : Tail(q)[i] = q[i + 1]
  BY <1>1
<1>3. \A i \in 1 .. Len(Tail(q)) : q[i + 1] = s[k + (i + 1)]
  BY <1>1 DEF Suffix
<1>4. QED
  BY <1>1, <1>2, <1>3 DEF Suffix

LEMMA PrefixConcat ==
  ASSUME NEW S, NEW f \in Seq(S), NEW s \in Seq(S), NEW r \in Seq(S),
         Prefix(f, s)
  PROVE  Prefix(f, s \o r)
<1>1. Len(s \o r) = Len(s) + Len(r) /\ \A i \in 1 .. Len(s) : (s \o r)[i] = s[i]
  OBVIOUS
<1>2. QED
  BY <1>1 DEF Prefix

LEMMA PrefixAppend ==
  ASSUME NEW S, NEW f \in Seq(S), NEW s \in Seq(S), NEW a \in S,
         Prefix(f, s), Len(f) < Len(s), s[Len(f) + 1] = a
  PROVE  Prefix(Append(f, a), s)
<1>1. /\ Len(Append(f, a)) = Len(f) + 1
      /\ \A i \in 1 .. Len(f) : Append(f, a)[i] = f[i]
      /\ Append(f, a)[Len(f) + 1] = a
  OBVIOUS
<1>2. QED
  BY <1>1 DEF Prefix

-----------------------------------------------------------------------------
(* Types.                                                                  *)

LEMMA InitType == Init => TypeOK
<1>1. SUFFICES ASSUME Init PROVE TypeOK
  OBVIOUS
<1>2. New \in Senders
  BY DEF New, Senders, Modes
<1>3. sender \in [Msgs -> Senders]
  BY <1>1, <1>2 DEF Init
<1>4. got \in [Atts -> Atts \cup {Nothing}]
  BY <1>1 DEF Init
<1>5. /\ waiting \in [Atts -> Nat] /\ popping \in [Atts -> Nat]
      /\ upld \in Seq(Atts) /\ wire \in Seq(Frames) /\ dwnl \in Seq(Atts)
      /\ announced \in Seq(Atts) /\ frames \in Seq(Atts)
  BY <1>1 DEF Init
<1>6. QED
  BY <1>1, <1>3, <1>4, <1>5 DEF Init, TypeOK

LEMMA SendType ==
  ASSUME TypeOK, NEW f \in Frames, Send(f)
  PROVE  wire' \in Seq(Frames)
BY DEF Send, TypeOK

LEMMA TextType ==
  ASSUME NEW m \in Msgs
  PROVE  Text(m) \in Frames
BY DEF Text, Frames

LEMMA BinaryType ==
  ASSUME NEW a \in Atts
  PROVE  Binary(a) \in Frames
BY DEF Binary, Frames

LEMMA RunUploadType ==
  ASSUME TypeOK, NEW q \in Seq(Atts), NEW mode \in Modes, RunUpload(q, mode)
  PROVE  /\ waiting' \in [Atts -> Nat]
         /\ spinning' \in SUBSET [att: Atts, mode: Modes]
<1>1. CASE q = <<>>
  BY <1>1 DEF RunUpload, TypeOK
<1>2. CASE q # <<>>
  <2>1. Head(q) \in Atts
    BY <1>2
  <2>2. CASE Head(q) \in ready
    <3>1. /\ spinning' = spinning \cup {[att |-> Head(q), mode |-> mode]}
          /\ waiting' = waiting
      BY <1>2, <2>2 DEF RunUpload
    <3>2. [att |-> Head(q), mode |-> mode] \in [att: Atts, mode: Modes]
      BY <2>1
    <3>3. QED
      BY <3>1, <3>2 DEF TypeOK
  <2>3. CASE Head(q) \notin ready
    <3>1. /\ waiting' = [waiting EXCEPT ![Head(q)] = @ + 1]
          /\ spinning' = spinning
      BY <1>2, <2>3 DEF RunUpload
    <3>2. QED
      BY <2>1, <3>1 DEF TypeOK
  <2>4. QED
    BY <2>2, <2>3
<1>3. QED
  BY <1>1, <1>2

LEMMA SendersType ==
  ASSUME NEW s \in Senders, NEW at \in {"new", "checked", "pushed", "texted",
                                        "done"}
  PROVE  [s EXCEPT !.at = at] \in Senders
BY DEF Senders

LEMMA SendCallType ==
  ASSUME TypeOK, NEW m \in Msgs, SendCall(m)
  PROVE  TypeOK'
<1>1. AttsOf(m) \in Seq(Atts)
  BY AttsOfType
<1>2. upld \o AttsOf(m) \in Seq(Atts) /\ announced \o AttsOf(m) \in Seq(Atts)
  BY <1>1 DEF TypeOK
<1>3. wire' \in Seq(Frames)
  BY SendType, TextType DEF SendCall
<1>4. sender[m] \in Senders
  BY DEF TypeOK
<1>5. sender' = [sender EXCEPT ![m] = [sender[m] EXCEPT !.at = "done"]]
  BY DEF SendCall
<1>6. sender' \in [Msgs -> Senders]
  BY <1>4, <1>5, SendersType DEF TypeOK
<1>7. "unique" \in Modes
  BY DEF Modes
<1>8. /\ waiting' \in [Atts -> Nat]
      /\ spinning' \in SUBSET [att: Atts, mode: Modes]
  <2>1. CASE upld = <<>>
    BY <1>2, <1>7, <2>1, RunUploadType DEF SendCall
  <2>2. CASE upld # <<>>
    BY <2>2 DEF SendCall, TypeOK
  <2>3. QED
    BY <2>1, <2>2
<1>9. disturbed' \in BOOLEAN
  BY DEF SendCall
<1>10. QED
  BY <1>2, <1>3, <1>6, <1>8, <1>9 DEF SendCall, TypeOK

LEMMA CheckType ==
  ASSUME TypeOK, NEW m \in Msgs, NEW mode \in Modes, Check(m, mode)
  PROVE  TypeOK'
<1>1. [at |-> "checked", mode |-> mode, need_start |-> upld = <<>>] \in Senders
  BY DEF Senders
<1>2. sender' \in [Msgs -> Senders]
  BY <1>1 DEF Check, TypeOK
<1>3. disturbed' \in BOOLEAN
  BY DEF Check
<1>4. QED
  BY <1>2, <1>3 DEF Check, TypeOK

LEMMA SendingType ==
  ASSUME TypeOK, NEW m \in Msgs, Sending(m)
  PROVE  TypeOK'
<1>1. AttsOf(m) \in Seq(Atts) /\ sender[m] \in Senders
  BY AttsOfType DEF TypeOK
<1>2. CASE PushAll(m)
  <2>1. sender' = [sender EXCEPT ![m] = [sender[m] EXCEPT !.at = "pushed"]]
    BY <1>2 DEF PushAll
  <2>2. sender' \in [Msgs -> Senders]
    BY <1>1, <2>1, SendersType DEF TypeOK
  <2>3. upld' \in Seq(Atts)
    BY <1>1, <1>2 DEF PushAll, TypeOK
  <2>4. QED
    BY <1>2, <2>2, <2>3 DEF PushAll, TypeOK
<1>3. CASE SendText(m)
  <2>1. sender' = [sender EXCEPT ![m] = [sender[m] EXCEPT !.at = "texted"]]
    BY <1>3 DEF SendText
  <2>2. sender' \in [Msgs -> Senders]
    BY <1>1, <2>1, SendersType DEF TypeOK
  <2>3. announced' \in Seq(Atts)
    BY <1>1, <1>3 DEF SendText, TypeOK
  <2>4. wire' \in Seq(Frames)
    BY <1>3, SendType, TextType DEF SendText
  <2>5. QED
    BY <1>3, <2>2, <2>3, <2>4 DEF SendText, TypeOK
<1>4. CASE StartUpload(m)
  <2>1. sender' = [sender EXCEPT ![m] = [sender[m] EXCEPT !.at = "done"]]
    BY <1>4 DEF StartUpload
  <2>2. sender' \in [Msgs -> Senders]
    BY <1>1, <2>1, SendersType DEF TypeOK
  <2>3. sender[m].mode \in Modes /\ upld \in Seq(Atts)
    BY <1>1 DEF Senders, TypeOK
  <2>4. /\ waiting' \in [Atts -> Nat]
        /\ spinning' \in SUBSET [att: Atts, mode: Modes]
        /\ disturbed' \in BOOLEAN
    <3>1. CASE sender[m].need_start
      <4>1. RunUpload(upld, sender[m].mode)
        BY <1>4, <3>1 DEF StartUpload
      <4>2. disturbed' \in BOOLEAN
        BY <1>4, <3>1 DEF StartUpload
      <4>3. QED
        BY <2>3, <4>1, <4>2, RunUploadType
    <3>2. CASE ~sender[m].need_start
      BY <1>4, <3>2 DEF StartUpload, TypeOK
    <3>3. QED
      BY <3>1, <3>2
  <2>5. QED
    BY <1>4, <2>2, <2>4 DEF StartUpload, TypeOK
<1>5. QED
  BY <1>2, <1>3, <1>4 DEF Sending

LEMMA UploadingType ==
  ASSUME TypeOK, NEW a \in Atts, Uploading(a) \/ SetFuture(a)
  PROVE  TypeOK'
<1>1. CASE SendFrame(a)
  <2>1. wire' \in Seq(Frames)
    BY <1>1, SendType, BinaryType DEF SendFrame
  <2>2. waiting' \in [Atts -> Nat] /\ popping' \in [Atts -> Nat]
    BY <1>1 DEF SendFrame, TypeOK
  <2>3. frames' \in Seq(Atts)
    BY <1>1 DEF SendFrame, TypeOK
  <2>4. QED
    BY <1>1, <2>1, <2>2, <2>3 DEF SendFrame, TypeOK
<1>2. CASE PopAndRun(a)
  <2>1. Tail(upld) \in Seq(Atts)
    BY <1>2 DEF PopAndRun, TypeOK
  <2>2. popping' \in [Atts -> Nat]
    BY <1>2 DEF PopAndRun, TypeOK
  <2>3. "unique" \in Modes
    BY DEF Modes
  <2>4. /\ waiting' \in [Atts -> Nat]
        /\ spinning' \in SUBSET [att: Atts, mode: Modes]
    BY <1>2, <2>1, <2>3, RunUploadType DEF PopAndRun
  <2>5. disturbed' \in BOOLEAN
    BY <1>2 DEF PopAndRun
  <2>6. QED
    BY <1>2, <2>1, <2>2, <2>4, <2>5 DEF PopAndRun, TypeOK
<1>3. CASE SetFuture(a)
  BY <1>3 DEF SetFuture, TypeOK
<1>4. QED
  BY <1>1, <1>2, <1>3 DEF Uploading

LEMMA GoRoundType ==
  ASSUME TypeOK, NEW s \in spinning, GoRound(s)
  PROVE  TypeOK'
<1>1. s.att \in Atts
  BY DEF TypeOK
<1>2. wire' \in Seq(Frames) /\ frames' \in Seq(Atts)
  BY <1>1, SendType, BinaryType DEF GoRound, TypeOK
<1>3. QED
  BY <1>2 DEF GoRound, TypeOK

LEMMA ReceiverType ==
  ASSUME TypeOK, Receiving \/ LinkBreak \/ OnClose
  PROVE  TypeOK'
<1>1. CASE OnAttachment
  <2>1. wire \in Seq(Frames) /\ wire # <<>> /\ Head(wire).kind = "text"
    BY <1>1 DEF OnAttachment, Receives, TypeOK
  <2>2. Head(wire) \in Frames /\ Tail(wire) \in Seq(Frames)
    BY <2>1
  <2>3. Head(wire).msg \in Msgs
    BY <2>1, <2>2 DEF Frames
  <2>4. dwnl' \in Seq(Atts)
    BY <1>1, <2>3, AttsOfType DEF OnAttachment, TypeOK
  <2>5. QED
    BY <1>1, <2>2, <2>4 DEF OnAttachment, TypeOK
<1>2. CASE OnBinaryMessage
  <2>1. wire \in Seq(Frames) /\ wire # <<>> /\ Head(wire).kind = "binary"
    BY <1>2 DEF OnBinaryMessage, Receives, TypeOK
  <2>2. Head(wire) \in Frames /\ Tail(wire) \in Seq(Frames)
    BY <2>1
  <2>3. Head(wire).att \in Atts
    BY <2>1, <2>2 DEF Frames
  <2>4. dwnl' \in Seq(Atts) /\ got' \in [Atts -> Atts \cup {Nothing}]
    <3>1. CASE dwnl = <<>>
      BY <1>2, <3>1 DEF OnBinaryMessage, TypeOK
    <3>2. CASE dwnl # <<>>
      <4>1. dwnl' = Tail(dwnl) /\ got' = [got EXCEPT ![Head(dwnl)] = Head(wire).att]
        BY <1>2, <3>2 DEF OnBinaryMessage
      <4>2. Head(dwnl) \in Atts /\ Tail(dwnl) \in Seq(Atts)
        BY <3>2 DEF TypeOK
      <4>3. QED
        BY <2>3, <4>1, <4>2 DEF TypeOK
    <3>3. QED
      BY <3>1, <3>2
  <2>5. QED
    BY <1>2, <2>2, <2>4 DEF OnBinaryMessage, TypeOK
<1>3. CASE LinkBreak
  BY <1>3 DEF LinkBreak, TypeOK
<1>4. CASE OnClose
  BY <1>4 DEF OnClose, TypeOK
<1>5. QED
  BY <1>1, <1>2, <1>3, <1>4 DEF Receiving

LEMMA TypeInv == TypeOK /\ [Next]_vars => TypeOK'
<1>1. SUFFICES ASSUME TypeOK, [Next]_vars PROVE TypeOK'
  OBVIOUS
<1>2. CASE \E m \in Msgs : SendCall(m)
  BY <1>1, <1>2, SendCallType
<1>3. CASE \E m \in Msgs : Sending(m)
  BY <1>1, <1>3, SendingType
<1>4. CASE \E m \in Msgs, mode \in Modes \ {"unique"} : Check(m, mode)
  BY <1>1, <1>4, CheckType
<1>5. CASE \E a \in Atts : SetFuture(a) \/ Uploading(a)
  BY <1>1, <1>5, UploadingType
<1>6. CASE \E s \in spinning : GoRound(s)
  BY <1>1, <1>6, GoRoundType
<1>7. CASE Receiving \/ LinkBreak \/ OnClose
  BY <1>1, <1>7, ReceiverType
<1>8. CASE UNCHANGED vars
  BY <1>1, <1>8 DEF vars, TypeOK
<1>9. QED
  BY <1>1, <1>2, <1>3, <1>4, <1>5, <1>6, <1>7, <1>8 DEF Next

\* Every variable keeps its type, for any messages, whatever races.
THEOREM TypeCorrect == Spec => []TypeOK
BY InitType, TypeInv, PTL DEF Spec

-----------------------------------------------------------------------------
(* The order.                                                              *)

Nobody == \A m \in Msgs : ~InProgress(m)

LEMMA KnownWithout ==
  ASSUME \A m \in Msgs : ~Pushed(m)
  PROVE  Known = announced
BY DEF Known

LEMMA KnownWithoutNext ==
  ASSUME \A m \in Msgs : ~Pushed(m)'
  PROVE  Known' = announced'
BY DEF Known

LEMMA KnownWith ==
  ASSUME NEW m \in Msgs, Pushed(m), \A k \in Msgs : Pushed(k) => k = m
  PROVE  Known = announced \o AttsOf(m)
<1>1. (CHOOSE k \in Msgs : Pushed(k)) = m
  OBVIOUS
<1>2. QED
  BY <1>1 DEF Known

LEMMA KnownWithNext ==
  ASSUME NEW m \in Msgs, Pushed(m)', \A k \in Msgs : Pushed(k)' => k = m
  PROVE  Known' = announced' \o AttsOf(m)
<1>1. (CHOOSE k \in Msgs : Pushed(k)') = m
  OBVIOUS
<1>2. QED
  BY <1>1 DEF Known

LEMMA PushedInProgress ==
  ASSUME NEW m \in Msgs, Pushed(m)
  PROVE  InProgress(m)
BY DEF Pushed, InProgress

LEMMA KnownIfNobody ==
  ASSUME Nobody
  PROVE  Known = announced
BY KnownWithout, PushedInProgress DEF Nobody

LEMMA KnownIfNobodyNext ==
  ASSUME Nobody'
  PROVE  Known' = announced'
<1>1. \A m \in Msgs : ~Pushed(m)'
  BY DEF Nobody, Pushed, InProgress
<1>2. QED
  BY <1>1, KnownWithoutNext

LEMMA KnownType ==
  ASSUME TypeOK
  PROVE  Known \in Seq(Atts)
<1>1. announced \in Seq(Atts)
  BY DEF TypeOK
<1>2. CASE \E m \in Msgs : Pushed(m)
  <2>1. (CHOOSE m \in Msgs : Pushed(m)) \in Msgs
    BY <1>2
  <2>2. QED
    BY <1>1, <1>2, <2>1, AttsOfType DEF Known
<1>3. CASE ~\E m \in Msgs : Pushed(m)
  BY <1>1, <1>3 DEF Known
<1>4. QED
  BY <1>2, <1>3

\* The three phases exclude each other.
LEMMA PhasesDiffer ==
  /\ PhaseWaiting => ~Idle /\ upld # <<>>
  /\ PhasePopping => ~Idle /\ upld # <<>>
BY DEF PhaseWaiting, PhasePopping, WaitingFor, PoppingOf, Idle

LEMMA WaitingPhase ==
  ASSUME Orderly, NEW a \in Atts, waiting[a] > 0, TypeOK
  PROVE  /\ WaitingFor(a) /\ upld # <<>> /\ Head(upld) = a
         /\ Suffix(upld, Known, Len(frames))
         /\ Len(frames) < Len(announced)
<1>1. waiting[a] # 0
  BY DEF TypeOK
<1>2. ~PhaseIdle
  BY <1>1 DEF PhaseIdle, Idle
<1>3. ~PhasePopping
  BY <1>1 DEF PhasePopping, PoppingOf
<1>4. PICK b \in Atts :
        /\ WaitingFor(b) /\ upld # <<>> /\ Head(upld) = b
        /\ Suffix(upld, Known, Len(frames))
        /\ Len(frames) < Len(announced)
  BY <1>2, <1>3 DEF Orderly, PhaseWaiting
<1>5. b = a
  BY <1>1, <1>4 DEF WaitingFor
<1>6. QED
  BY <1>4, <1>5

LEMMA PoppingPhase ==
  ASSUME Orderly, NEW a \in Atts, popping[a] > 0, TypeOK
  PROVE  /\ PoppingOf(a) /\ upld # <<>> /\ Head(upld) = a
         /\ Len(frames) > 0
         /\ Suffix(upld, Known, Len(frames) - 1)
<1>1. popping[a] # 0
  BY DEF TypeOK
<1>2. ~PhaseIdle
  BY <1>1 DEF PhaseIdle, Idle
<1>3. ~PhaseWaiting
  BY <1>1 DEF PhaseWaiting, WaitingFor
<1>4. PICK b \in Atts :
        /\ PoppingOf(b) /\ upld # <<>> /\ Head(upld) = b
        /\ Len(frames) > 0
        /\ Suffix(upld, Known, Len(frames) - 1)
  BY <1>2, <1>3 DEF Orderly, PhasePopping
<1>5. b = a
  BY <1>1, <1>4 DEF PoppingOf
<1>6. QED
  BY <1>4, <1>5

\* Attachments that are pushed as their message becomes known change neither
\* of the phases in which something waits.
LEMMA PhasesAppend ==
  ASSUME TypeOK, NEW r \in Seq(Atts), upld' = upld \o r, Known' = Known \o r,
         UNCHANGED <<waiting, popping, frames>>,
         Len(announced') >= Len(announced), Len(announced') \in Nat
  PROVE  /\ PhaseWaiting => PhaseWaiting'
         /\ PhasePopping => PhasePopping'
<1>1. /\ upld \in Seq(Atts) /\ Known \in Seq(Atts)
      /\ Len(frames) \in Nat /\ Len(announced) \in Nat
  BY KnownType DEF TypeOK
<1>2. upld # <<>> => upld' # <<>> /\ Head(upld') = Head(upld)
  BY <1>1
<1>3. ASSUME PhaseWaiting PROVE PhaseWaiting'
  <2>1. PICK a \in Atts :
          /\ WaitingFor(a) /\ upld # <<>> /\ Head(upld) = a
          /\ Suffix(upld, Known, Len(frames))
          /\ Len(frames) < Len(announced)
    BY <1>3 DEF PhaseWaiting
  <2>2. Suffix(upld \o r, Known \o r, Len(frames))
    BY <1>1, <2>1, SuffixAppend
  <2>3. Suffix(upld', Known', Len(frames)')
    BY <2>2
  <2>4. WaitingFor(a)'
    BY <2>1 DEF WaitingFor
  <2>5. Len(frames') < Len(announced')
    BY <1>1, <2>1
  <2>6. QED
    BY <1>2, <2>1, <2>3, <2>4, <2>5 DEF PhaseWaiting
<1>4. ASSUME PhasePopping PROVE PhasePopping'
  <2>1. PICK a \in Atts :
          /\ PoppingOf(a) /\ upld # <<>> /\ Head(upld) = a
          /\ Len(frames) > 0
          /\ Suffix(upld, Known, Len(frames) - 1)
    BY <1>4 DEF PhasePopping
  <2>2. Len(frames) - 1 \in Nat
    BY <1>1, <2>1
  <2>3. Suffix(upld \o r, Known \o r, Len(frames) - 1)
    BY <1>1, <2>1, <2>2, SuffixAppend
  <2>4. Suffix(upld', Known', Len(frames') - 1)
    BY <2>3
  <2>5. PoppingOf(a)'
    BY <2>1 DEF PoppingOf
  <2>6. QED
    BY <1>2, <2>1, <2>4, <2>5 DEF PhasePopping
<1>5. QED
  BY <1>3, <1>4

\* An upload that begins in an orderly way, with a queue q that is to be the
\* new one, waits for its first attachment, or has nothing to do.
LEMMA UploadBegins ==
  ASSUME TypeOK, NEW q \in Seq(Atts), NEW mode \in Modes,
         \A a \in Atts : waiting[a] = 0 /\ popping'[a] = 0,
         RunUpload(q, mode), ~GoesRound(q), upld' = q,
         frames' = frames, Nobody', Len(announced') \in Nat,
         Suffix(q, announced', Len(frames))
  PROVE  /\ PhaseIdle' \/ PhaseWaiting'
         /\ spinning' = spinning
<1>1. Known' = announced'
  BY KnownIfNobodyNext
<1>2. CASE q = <<>>
  <2>1. waiting' = waiting /\ spinning' = spinning
    BY <1>2 DEF RunUpload
  <2>2. Idle'
    BY <2>1 DEF Idle
  <2>3. QED
    BY <1>1, <1>2, <2>1, <2>2 DEF PhaseIdle
<1>3. CASE q # <<>>
  <2>1. Head(q) \in Atts /\ Head(q) \notin ready
    BY <1>3 DEF GoesRound
  <2>2. waiting' = [waiting EXCEPT ![Head(q)] = @ + 1] /\ spinning' = spinning
    BY <1>3, <2>1 DEF RunUpload
  <2>3. /\ waiting'[Head(q)] = 1
        /\ \A b \in Atts \ {Head(q)} : waiting'[b] = 0
    BY <2>1, <2>2 DEF TypeOK
  <2>4. WaitingFor(Head(q))'
    BY <2>1, <2>3 DEF WaitingFor
  <2>5. Len(q) > 0 /\ Len(q) \in Nat /\ Len(frames) \in Nat
    BY <1>3, EmptySeq DEF TypeOK
  <2>6. Len(frames') < Len(announced')
    BY <2>5 DEF Suffix
  <2>7. QED
    BY <1>1, <1>3, <2>1, <2>2, <2>4, <2>6 DEF PhaseWaiting
<1>4. QED
  BY <1>2, <1>3

LEMMA SendCallOrder ==
  ASSUME TypeOK, ~disturbed => Orderly, NEW m \in Msgs, SendCall(m),
         ~disturbed'
  PROVE  Orderly'
<1> DEFINE q == upld \o AttsOf(m)
<1>1. /\ Orderly /\ ~Overlapping(m) /\ ~(upld = <<>> /\ GoesRound(q))
      /\ upld' = q /\ announced' = announced \o AttsOf(m)
      /\ sender[m].at = "new"
      /\ sender' = [sender EXCEPT ![m].at = "done"]
      /\ UNCHANGED <<popping, frames>>
  BY DEF SendCall
<1>2. Nobody
  BY <1>1 DEF Nobody, Overlapping, InProgress
<1>3. Nobody'
  BY <1>1, <1>2 DEF Nobody, InProgress, TypeOK
<1>4. /\ AttsOf(m) \in Seq(Atts) /\ upld \in Seq(Atts) /\ q \in Seq(Atts)
      /\ announced \in Seq(Atts) /\ frames \in Seq(Atts)
      /\ announced' \in Seq(Atts) /\ Len(frames) \in Nat
  BY <1>1, AttsOfType DEF TypeOK
<1>5. Known = announced /\ Known' = announced'
  BY <1>2, <1>3, KnownIfNobody, KnownIfNobodyNext
<1>6. Prefix(frames', announced')
  BY <1>1, <1>4, PrefixConcat DEF Orderly
<1>7. Len(announced') >= Len(announced) /\ Len(announced') \in Nat
  BY <1>1, <1>4
<1>8. /\ spinning' = {}
      /\ PhaseIdle' \/ PhaseWaiting' \/ PhasePopping'
  <2>1. CASE upld = <<>>
    <3>1. RunUpload(q, "unique") /\ ~GoesRound(q)
      BY <1>1, <2>1 DEF SendCall
    <3>2. PhaseIdle
      BY <1>1, <2>1, PhasesDiffer DEF Orderly
    <3>3. Suffix(q, announced', Len(frames))
      BY <1>1, <1>4, <1>5, <3>2, SuffixAppend DEF PhaseIdle
    <3>4. \A a \in Atts : waiting[a] = 0 /\ popping'[a] = 0
      BY <1>1, <3>2 DEF PhaseIdle, Idle
    <3>5. "unique" \in Modes
      BY DEF Modes
    <3> HIDE DEF q
    <3>6. (PhaseIdle' \/ PhaseWaiting') /\ spinning' = spinning
      BY <1>1, <1>3, <1>4, <1>7, <3>1, <3>3, <3>4, <3>5, UploadBegins
    <3>7. QED
      BY <1>1, <3>6 DEF Orderly
  <2>2. CASE upld # <<>>
    <3>1. waiting' = waiting /\ spinning' = spinning
      BY <2>2 DEF SendCall
    <3>2. PhaseWaiting \/ PhasePopping
      BY <1>1, <1>2, <2>2 DEF Orderly, PhaseIdle, Nobody
    <3>3. QED
      BY <1>1, <1>4, <1>5, <1>7, <3>1, <3>2, PhasesAppend DEF Orderly
  <2>3. QED
    BY <2>1, <2>2
<1>9. QED
  BY <1>3, <1>6, <1>8 DEF Orderly, Nobody

LEMMA CheckOrder ==
  ASSUME TypeOK, ~disturbed => Orderly, NEW m \in Msgs, NEW mode \in Modes,
         Check(m, mode), ~disturbed'
  PROVE  Orderly'
<1>1. /\ Orderly /\ ~Overlapping(m) /\ sender[m].at = "new"
      /\ sender' = [sender EXCEPT ![m] = [at |-> "checked", mode |-> mode,
                                          need_start |-> upld = <<>>]]
      /\ UNCHANGED <<upld, waiting, popping, spinning, frames, announced>>
  BY DEF Check
<1>2. Nobody
  BY <1>1 DEF Nobody, Overlapping, InProgress
<1>3. /\ sender'[m].at = "checked" /\ sender'[m].need_start = (upld = <<>>)
      /\ \A k \in Msgs \ {m} : sender'[k] = sender[k]
  BY <1>1 DEF TypeOK
<1>4. \A k \in Msgs : InProgress(k)' <=> k = m
  BY <1>2, <1>3 DEF Nobody, InProgress
<1>5. Known = announced /\ Known' = announced'
  <2>1. \A k \in Msgs : ~Pushed(k)'
    BY <1>2, <1>3 DEF Nobody, InProgress, Pushed
  <2>2. QED
    BY <1>2, <2>1, KnownIfNobody, KnownWithoutNext
<1>6. upld = <<>> <=> Idle
  <2>1. PhaseIdle => upld = <<>> /\ Idle
    BY <1>2 DEF PhaseIdle, Nobody
  <2>2. QED
    BY <1>1, <2>1, PhasesDiffer DEF Orderly
<1>7. Idle' <=> Idle
  BY <1>1 DEF Idle
<1>8. PhaseIdle' \/ PhaseWaiting' \/ PhasePopping'
  <2>1. CASE PhaseIdle
    BY <1>1, <1>4, <1>5, <1>7, <2>1 DEF PhaseIdle
  <2>2. CASE PhaseWaiting
    BY <1>1, <1>5, <2>2 DEF PhaseWaiting, WaitingFor
  <2>3. CASE PhasePopping
    BY <1>1, <1>5, <2>3 DEF PhasePopping, PoppingOf
  <2>4. QED
    BY <1>1, <2>1, <2>2, <2>3 DEF Orderly
<1>9. sender'[m].need_start <=> Idle'
  BY <1>3, <1>6, <1>7
<1>10. spinning' = {} /\ Prefix(frames', announced')
  BY <1>1 DEF Orderly
<1>11. QED
  BY <1>4, <1>8, <1>9, <1>10 DEF Orderly

LEMMA PushAllOrder ==
  ASSUME TypeOK, Orderly, NEW m \in Msgs, PushAll(m)
  PROVE  Orderly'
<1>1. /\ sender[m].at = "checked"
      /\ sender' = [sender EXCEPT ![m].at = "pushed"]
      /\ upld' = upld \o AttsOf(m)
      /\ UNCHANGED <<waiting, popping, spinning, frames, announced>>
  BY DEF PushAll
<1>2. /\ sender'[m].at = "pushed" /\ sender'[m].need_start = sender[m].need_start
      /\ \A k \in Msgs \ {m} : sender'[k] = sender[k]
  BY <1>1 DEF TypeOK, Senders
<1>3. \A k \in Msgs : InProgress(k) <=> k = m
  BY <1>1 DEF Orderly, InProgress
<1>4. \A k \in Msgs : InProgress(k)' <=> k = m
  BY <1>2, <1>3 DEF InProgress
<1>5. Known = announced
  <2>1. \A k \in Msgs : ~Pushed(k)
    BY <1>1, <1>3, PushedInProgress DEF Pushed
  <2>2. QED
    BY <2>1, KnownWithout
<1>6. Known' = Known \o AttsOf(m)
  <2>1. Pushed(m)' /\ \A k \in Msgs : Pushed(k)' => k = m
    BY <1>2, <1>4 DEF Pushed, InProgress
  <2>2. QED
    BY <1>1, <1>5, <2>1, KnownWithNext
<1>7. /\ AttsOf(m) \in Seq(Atts) /\ upld \in Seq(Atts) /\ Known \in Seq(Atts)
      /\ Len(frames) \in Nat /\ Len(announced) \in Nat
  BY AttsOfType, KnownType DEF TypeOK
<1>8. Idle' <=> Idle
  BY <1>1 DEF Idle
<1>9. PhaseIdle' \/ PhaseWaiting' \/ PhasePopping'
  <2>1. CASE PhaseIdle
    <3>1. Suffix(upld', Known', Len(frames)')
      BY <1>1, <1>6, <1>7, <2>1, SuffixAppend DEF PhaseIdle
    <3>2. QED
      BY <1>4, <1>8, <2>1, <3>1 DEF PhaseIdle
  <2>2. CASE PhaseWaiting \/ PhasePopping
    <3>1. Len(announced') >= Len(announced) /\ Len(announced') \in Nat
      BY <1>1, <1>7
    <3>2. QED
      BY <1>1, <1>6, <1>7, <2>2, <3>1, PhasesAppend
  <2>3. QED
    BY <2>1, <2>2 DEF Orderly
<1>10. sender'[m].need_start <=> Idle'
  BY <1>2, <1>3, <1>8 DEF Orderly
<1>11. spinning' = {} /\ Prefix(frames', announced')
  BY <1>1 DEF Orderly
<1>12. QED
  BY <1>4, <1>9, <1>10, <1>11 DEF Orderly

LEMMA SendTextOrder ==
  ASSUME TypeOK, Orderly, NEW m \in Msgs, SendText(m)
  PROVE  Orderly'
<1>1. /\ sender[m].at = "pushed"
      /\ sender' = [sender EXCEPT ![m].at = "texted"]
      /\ announced' = announced \o AttsOf(m)
      /\ UNCHANGED <<upld, waiting, popping, spinning, frames>>
  BY DEF SendText
<1>2. /\ sender'[m].at = "texted" /\ sender'[m].need_start = sender[m].need_start
      /\ \A k \in Msgs \ {m} : sender'[k] = sender[k]
  BY <1>1 DEF TypeOK, Senders
<1>3. \A k \in Msgs : InProgress(k) <=> k = m
  BY <1>1 DEF Orderly, InProgress
<1>4. \A k \in Msgs : InProgress(k)' <=> k = m
  BY <1>2, <1>3 DEF InProgress
<1>5. Known = announced \o AttsOf(m)
  <2>1. Pushed(m) /\ \A k \in Msgs : Pushed(k) => k = m
    BY <1>1, <1>3, PushedInProgress DEF Pushed
  <2>2. QED
    BY <2>1, KnownWith
<1>6. Known' = Known
  <2>1. \A k \in Msgs : ~Pushed(k)'
    BY <1>2, <1>4 DEF Pushed, InProgress
  <2>2. QED
    BY <1>1, <1>5, <2>1, KnownWithoutNext
<1>7. /\ AttsOf(m) \in Seq(Atts) /\ announced \in Seq(Atts)
      /\ frames \in Seq(Atts)
      /\ Len(frames) \in Nat /\ Len(announced) \in Nat
  BY AttsOfType DEF TypeOK
<1>8. Len(announced') >= Len(announced) /\ Len(announced') \in Nat
  BY <1>1, <1>7
<1>9. Idle' <=> Idle
  BY <1>1 DEF Idle
<1>10. PhaseIdle' \/ PhaseWaiting' \/ PhasePopping'
  <2>1. CASE PhaseIdle
    BY <1>1, <1>4, <1>6, <1>9, <2>1 DEF PhaseIdle
  <2>2. CASE PhaseWaiting
    <3>1. PICK a \in Atts :
            /\ WaitingFor(a) /\ upld # <<>> /\ Head(upld) = a
            /\ Suffix(upld, Known, Len(frames))
            /\ Len(frames) < Len(announced)
      BY <2>2 DEF PhaseWaiting
    <3>2. WaitingFor(a)'
      BY <1>1, <3>1 DEF WaitingFor
    <3>3. Len(frames') < Len(announced')
      BY <1>1, <1>7, <1>8, <3>1
    <3>4. QED
      BY <1>1, <1>6, <3>1, <3>2, <3>3 DEF PhaseWaiting
  <2>3. CASE PhasePopping
    BY <1>1, <1>6, <2>3 DEF PhasePopping, PoppingOf
  <2>4. QED
    BY <2>1, <2>2, <2>3 DEF Orderly
<1>11. sender'[m].need_start <=> Idle'
  BY <1>2, <1>3, <1>9 DEF Orderly
<1>12. spinning' = {} /\ Prefix(frames', announced')
  BY <1>1, <1>7, PrefixConcat DEF Orderly
<1>13. QED
  BY <1>4, <1>10, <1>11, <1>12 DEF Orderly

LEMMA StartUploadOrder ==
  ASSUME TypeOK, ~disturbed => Orderly, NEW m \in Msgs, StartUpload(m),
         ~disturbed'
  PROVE  Orderly'
<1>1. /\ sender[m].at = "texted"
      /\ sender' = [sender EXCEPT ![m].at = "done"]
      /\ UNCHANGED <<upld, popping, frames, announced>>
  BY DEF StartUpload
<1>2. Orderly
  BY DEF StartUpload
<1>3. \A k \in Msgs : InProgress(k) <=> k = m
  BY <1>1, <1>2 DEF Orderly, InProgress
<1>4. Nobody'
  BY <1>1, <1>3 DEF Nobody, InProgress, TypeOK
<1>5. Known = announced /\ Known' = announced'
  <2>1. \A k \in Msgs : ~Pushed(k)
    BY <1>1, <1>3, PushedInProgress DEF Pushed
  <2>2. QED
    BY <1>4, <2>1, KnownWithout, KnownIfNobodyNext
<1>6. /\ spinning' = {}
      /\ PhaseIdle' \/ PhaseWaiting' \/ PhasePopping'
  <2>1. CASE sender[m].need_start
    <3>1. RunUpload(upld, sender[m].mode) /\ ~GoesRound(upld)
      BY <2>1 DEF StartUpload
    <3>2. PhaseIdle
      BY <1>2, <1>3, <2>1, PhasesDiffer DEF Orderly
    <3>3. Suffix(upld, announced', Len(frames))
      BY <1>1, <1>5, <3>2 DEF PhaseIdle
    <3>4. \A a \in Atts : waiting[a] = 0 /\ popping'[a] = 0
      BY <1>1, <3>2 DEF PhaseIdle, Idle
    <3>5. /\ sender[m].mode \in Modes /\ upld \in Seq(Atts)
          /\ Len(announced') \in Nat
      BY <1>1 DEF TypeOK, Senders
    <3>6. (PhaseIdle' \/ PhaseWaiting') /\ spinning' = spinning
      BY <1>1, <1>4, <3>1, <3>3, <3>4, <3>5, UploadBegins
    <3>7. QED
      BY <1>2, <3>6 DEF Orderly
  <2>2. CASE ~sender[m].need_start
    <3>1. waiting' = waiting /\ spinning' = spinning
      BY <2>2 DEF StartUpload
    <3>2. PhaseWaiting \/ PhasePopping
      BY <1>2, <1>3, <2>2 DEF Orderly, PhaseIdle
    <3>3. PhaseWaiting => PhaseWaiting'
      BY <1>1, <1>5, <3>1 DEF PhaseWaiting, WaitingFor
    <3>4. PhasePopping => PhasePopping'
      BY <1>1, <1>5, <3>1 DEF PhasePopping, PoppingOf
    <3>5. QED
      BY <1>2, <3>1, <3>2, <3>3, <3>4 DEF Orderly
  <2>3. QED
    BY <2>1, <2>2
<1>7. Prefix(frames', announced')
  BY <1>1, <1>2 DEF Orderly
<1>8. QED
  BY <1>4, <1>6, <1>7 DEF Orderly, Nobody

LEMMA SendFrameOrder ==
  ASSUME TypeOK, Orderly, NEW a \in Atts, SendFrame(a)
  PROVE  Orderly'
<1>1. /\ waiting[a] > 0
      /\ waiting' = [waiting EXCEPT ![a] = @ - 1]
      /\ popping' = [popping EXCEPT ![a] = @ + 1]
      /\ frames' = Append(frames, a)
      /\ UNCHANGED <<sender, upld, spinning, announced>>
  BY DEF SendFrame
<1>2. /\ WaitingFor(a) /\ upld # <<>> /\ Head(upld) = a
      /\ Suffix(upld, Known, Len(frames))
      /\ Len(frames) < Len(announced)
  BY <1>1, WaitingPhase
<1>3. Known' = Known
  BY <1>1 DEF Known, Pushed
<1>4. /\ frames \in Seq(Atts) /\ announced \in Seq(Atts) /\ upld \in Seq(Atts)
      /\ Known \in Seq(Atts)
  BY KnownType DEF TypeOK
<1>5. Len(frames') = Len(frames) + 1 /\ Len(frames) \in Nat
  BY <1>1, <1>4
<1>6. announced[Len(frames) + 1] = a
  <2>1. Known[Len(frames) + 1] = upld[1] /\ upld[1] = a
    BY <1>2, <1>4, EmptySeq DEF Suffix
  <2>2. \A i \in 1 .. Len(announced) : Known[i] = announced[i]
    <3>1. CASE \E m \in Msgs : Pushed(m)
      <4>1. PICK r \in Seq(Atts) : Known = announced \o r
        BY <3>1, AttsOfType DEF Known
      <4>2. QED
        BY <1>4, <4>1
    <3>2. CASE ~\E m \in Msgs : Pushed(m)
      BY <3>2 DEF Known
    <3>3. QED
      BY <3>1, <3>2
  <2>3. Len(frames) + 1 \in 1 .. Len(announced)
    BY <1>2, <1>4, <1>5
  <2>4. QED
    BY <2>1, <2>2, <2>3
<1>7. Prefix(frames', announced')
  BY <1>1, <1>2, <1>4, <1>6, PrefixAppend DEF Orderly
<1>8. PoppingOf(a)'
  BY <1>1, <1>2 DEF WaitingFor, PoppingOf, TypeOK
<1>9. PhasePopping'
  <2>1. Len(frames') - 1 = Len(frames) /\ Len(frames') > 0
    BY <1>5
  <2>2. QED
    BY <1>1, <1>2, <1>3, <1>8, <2>1 DEF PhasePopping
<1>10. ~Idle /\ ~Idle'
  BY <1>2, <1>8 DEF Idle, WaitingFor, PoppingOf
<1>11. \A m \in Msgs : InProgress(m)' <=> InProgress(m)
  BY <1>1 DEF InProgress
<1>12. QED
  BY <1>1, <1>7, <1>9, <1>10, <1>11 DEF Orderly

LEMMA PopAndRunOrder ==
  ASSUME TypeOK, ~disturbed => Orderly, NEW a \in Atts, PopAndRun(a),
         ~disturbed'
  PROVE  Orderly'
<1>1. /\ popping[a] > 0
      /\ popping' = [popping EXCEPT ![a] = @ - 1]
      /\ upld' = Tail(upld)
      /\ RunUpload(Tail(upld), "unique") /\ ~GoesRound(Tail(upld))
      /\ UNCHANGED <<sender, frames, announced>>
  BY DEF PopAndRun
<1>2. Orderly /\ Nobody
  BY DEF PopAndRun, Nobody
<1>3. /\ PoppingOf(a) /\ upld # <<>> /\ Head(upld) = a
      /\ Len(frames) > 0
      /\ Suffix(upld, Known, Len(frames) - 1)
  BY <1>1, <1>2, PoppingPhase
<1>4. Nobody'
  BY <1>1, <1>2 DEF Nobody, InProgress
<1>5. Known = announced
  BY <1>2, KnownIfNobody
<1>6. /\ upld \in Seq(Atts) /\ Tail(upld) \in Seq(Atts)
      /\ announced \in Seq(Atts) /\ Len(frames) \in Nat
      /\ Len(announced') \in Nat
  <2>1. upld \in Seq(Atts) /\ announced \in Seq(Atts) /\ frames \in Seq(Atts)
    BY DEF TypeOK
  <2>2. Tail(upld) \in Seq(Atts)
    BY <1>3, <2>1
  <2>3. Len(frames) \in Nat /\ Len(announced) \in Nat
    BY <2>1
  <2>4. announced' = announced
    BY <1>1
  <2>5. QED
    BY <2>1, <2>2, <2>3, <2>4
<1>7. Suffix(Tail(upld), announced', Len(frames))
  <2>1. Len(frames) - 1 \in Nat /\ (Len(frames) - 1) + 1 = Len(frames)
    BY <1>3, <1>6
  <2>2. Suffix(Tail(upld), announced, (Len(frames) - 1) + 1)
    BY <1>3, <1>5, <1>6, <2>1, SuffixTail
  <2>3. QED
    BY <1>1, <2>1, <2>2
<1>8. \A b \in Atts : waiting[b] = 0 /\ popping'[b] = 0
  BY <1>1, <1>3 DEF PoppingOf, TypeOK
<1>9. "unique" \in Modes
  BY DEF Modes
<1>10. (PhaseIdle' \/ PhaseWaiting') /\ spinning' = spinning
  BY <1>1, <1>4, <1>6, <1>7, <1>8, <1>9, UploadBegins
<1>11. spinning' = {} /\ Prefix(frames', announced')
  BY <1>1, <1>2, <1>10 DEF Orderly
<1>12. QED
  BY <1>4, <1>10, <1>11 DEF Orderly, Nobody

\* The receiver and the futures have no part in it.
LEMMA OrderUnchanged ==
  ASSUME Orderly, UNCHANGED <<sender, upld, waiting, popping, spinning,
                              announced, frames>>
  PROVE  Orderly'
BY DEF Orderly, InProgress, PhaseIdle, PhaseWaiting, PhasePopping, Idle,
       WaitingFor, PoppingOf, Known, Pushed

LEMMA OrderInv ==
  ASSUME IInv, [Next]_vars, ~disturbed'
  PROVE  Orderly'
<1>1. TypeOK /\ (~disturbed => Orderly)
  BY DEF IInv
<1>2. ASSUME NEW m \in Msgs, SendCall(m) PROVE Orderly'
  BY <1>1, <1>2, SendCallOrder
<1>3. ASSUME NEW m \in Msgs, Sending(m) PROVE Orderly'
  <2>1. CASE PushAll(m)
    BY <1>1, <2>1, PushAllOrder DEF PushAll
  <2>2. CASE SendText(m)
    BY <1>1, <2>2, SendTextOrder DEF SendText
  <2>3. CASE StartUpload(m)
    BY <1>1, <2>3, StartUploadOrder
  <2>4. QED
    BY <1>3, <2>1, <2>2, <2>3 DEF Sending
<1>4. ASSUME NEW m \in Msgs, NEW mode \in Modes, Check(m, mode) PROVE Orderly'
  BY <1>1, <1>4, CheckOrder
<1>5. ASSUME NEW a \in Atts, SetFuture(a) \/ Uploading(a) PROVE Orderly'
  <2>1. CASE SetFuture(a)
    BY <1>1, <2>1, OrderUnchanged DEF SetFuture
  <2>2. CASE SendFrame(a)
    BY <1>1, <2>2, SendFrameOrder DEF SendFrame
  <2>3. CASE PopAndRun(a)
    BY <1>1, <2>3, PopAndRunOrder
  <2>4. QED
    BY <1>5, <2>1, <2>2, <2>3 DEF Uploading
<1>6. ASSUME NEW s \in spinning, GoRound(s) PROVE Orderly'
  <2>1. ~disturbed
    BY <1>6 DEF GoRound
  <2>2. QED
    BY <1>1, <2>1 DEF Orderly
<1>7. CASE Receiving \/ LinkBreak \/ OnClose
  BY <1>1, <1>7, OrderUnchanged DEF Receiving, OnAttachment, OnBinaryMessage,
     LinkBreak, OnClose
<1>8. CASE UNCHANGED vars
  BY <1>1, <1>8, OrderUnchanged DEF vars
<1>9. QED
  BY <1>2, <1>3, <1>4, <1>5, <1>6, <1>7, <1>8 DEF Next

LEMMA InitOrder == Init => Orderly
<1>1. SUFFICES ASSUME Init PROVE Orderly
  OBVIOUS
<1>2. /\ frames = <<>> /\ announced = <<>> /\ upld = <<>> /\ spinning = {}
      /\ \A m \in Msgs : sender[m].at = "new"
      /\ \A a \in Atts : waiting[a] = 0 /\ popping[a] = 0
  BY <1>1 DEF Init, New
<1>3. Nobody
  BY <1>2 DEF Nobody, InProgress
<1>4. Known = announced
  BY <1>3, KnownIfNobody
<1>5. Prefix(frames, announced) /\ Suffix(upld, Known, Len(frames))
  BY <1>2, <1>4 DEF Prefix, Suffix
<1>6. PhaseIdle
  BY <1>2, <1>5 DEF PhaseIdle, Idle
<1>7. QED
  BY <1>2, <1>3, <1>5, <1>6 DEF Orderly, Nobody

LEMMA IInvAlways == Spec => []IInv
<1>1. Init => IInv
  BY InitType, InitOrder DEF IInv
<1>2. IInv /\ [Next]_vars => IInv'
  BY TypeInv, OrderInv DEF IInv
<1>3. QED
  BY <1>1, <1>2, PTL DEF Spec

\* While senders do not overlap and no attachment is ready before its turn,
\* binary frames are sent in the order in which the messages announced them,
\* for any number of messages and attachments, and whichever lock the senders
\* hold (peer.h:602-628, peer.cpp:292-316).
THEOREM FramesOrdered == Spec => []FramesInOrder
<1>1. IInv => FramesInOrder
  <2>1. SUFFICES ASSUME IInv, ~disturbed
                 PROVE  /\ Len(frames) <= Len(announced)
                        /\ frames = SubSeq(announced, 1, Len(frames))
    BY DEF FramesInOrder
  <2>2. /\ frames \in Seq(Atts) /\ announced \in Seq(Atts)
        /\ Prefix(frames, announced)
    BY <2>1 DEF IInv, TypeOK, Orderly
  <2>3. Len(frames) <= Len(announced) /\ Len(frames) \in Nat
    BY <2>2 DEF Prefix
  <2> DEFINE s == SubSeq(announced, 1, Len(frames))
  <2>4. /\ s \in Seq(Atts) /\ Len(s) = Len(frames)
        /\ \A i \in 1 .. Len(frames) : s[i] = announced[i]
    BY <2>2, <2>3
  <2> HIDE DEF s
  <2>5. \A i \in 1 .. Len(frames) : frames[i] = s[i]
    BY <2>2, <2>4 DEF Prefix
  <2>6. frames = s
    BY <2>2, <2>4, <2>5, SeqEqual
  <2>7. QED
    BY <2>3, <2>6 DEF s
<1>2. QED
  BY <1>1, IInvAlways, PTL

\* Under the same conditions one callback at most waits for an attachment or
\* has sent it, and it is the first of the queue.
THEOREM OneUpload == Spec => []OneUploadAtATime
<1>1. IInv => OneUploadAtATime
  <2>1. SUFFICES ASSUME IInv, ~disturbed, NEW a \in Atts,
                        waiting[a] + popping[a] > 0
                 PROVE  /\ waiting[a] + popping[a] = 1
                        /\ upld # <<>> /\ Head(upld) = a
    BY DEF OneUploadAtATime
  <2>2. TypeOK /\ Orderly /\ waiting[a] \in Nat /\ popping[a] \in Nat
    BY <2>1 DEF IInv, TypeOK
  <2>3. CASE waiting[a] > 0
    BY <2>2, <2>3, WaitingPhase DEF WaitingFor
  <2>4. CASE popping[a] > 0
    BY <2>2, <2>4, PoppingPhase DEF PoppingOf
  <2>5. QED
    BY <2>1, <2>2, <2>3, <2>4
<1>2. QED
  BY <1>1, IInvAlways, PTL
-----------------------------------------------------------------------------
(* The promises.                                                           *)

\* A receiver that was told of the first t attachments of s, and had the
\* first b of them, is told of t1 and has b1 after the frame f.
Moves(f, t, b, t1, b1, s) ==
  /\ t1 <= Len(s)
  /\ \/ /\ f.kind = "text" /\ b1 = b /\ t1 = t + Count[f.msg]
        /\ \A j \in 1 .. Count[f.msg] : s[t + j] = <<f.msg, j>>
     \/ /\ f.kind = "binary" /\ t1 = t /\ b1 = b + 1
        /\ b1 <= t /\ s[b1] = f.att

\* It has promised what it was told of and does not have.
Promised(d, t, b, s) ==
  /\ t \in Nat /\ b \in Nat
  /\ t = b + Len(d) /\ t <= Len(s)
  /\ \A j \in 1 .. Len(d) : d[j] = s[b + j]

Marks == [Nat -> Nat]

\* heard[n] and taken[n]: what it was told of and has before it receives the
\* nth frame on its way.
Flow(heard, taken, w, d, s) ==
  /\ \A n \in 1 .. Len(w) :
       Moves(w[n], heard[n], taken[n], heard[n + 1], taken[n + 1], s)
  /\ Promised(d, heard[1], taken[1], s)

OnTheWay ==
  \E heard, taken \in Marks :
    /\ Flow(heard, taken, wire, dwnl, announced)
    /\ conn = "up" => /\ heard[Len(wire) + 1] = Len(announced)
                      /\ taken[Len(wire) + 1] = Len(frames)

Kept == \A a \in Atts : got[a] # Nothing => got[a] = a

\* The promises are kept right, and will be.
PInv == ~disturbed => Kept /\ (conn # "closed" => OnTheWay)

LEMMA ConcatIs ==
  ASSUME NEW s \in Seq(Atts), NEW x \in Seq(Atts)
  PROVE  /\ Len(s) \in Nat /\ Len(s \o x) \in Nat /\ Len(s) <= Len(s \o x)
         /\ Len(s \o x) = Len(s) + Len(x)
         /\ \A i \in 1 .. Len(s) : (s \o x)[i] = s[i]
         /\ \A i \in 1 .. Len(x) : (s \o x)[Len(s) + i] = x[i]
OBVIOUS

LEMMA SentIs ==
  ASSUME NEW w \in Seq(Frames), NEW f \in Frames
  PROVE  /\ Len(w) \in Nat /\ Len(Append(w, f)) = Len(w) + 1
         /\ Append(w, f)[Len(w) + 1] = f
         /\ \A n \in 1 .. Len(w) : Append(w, f)[n] = w[n]
OBVIOUS

LEMMA UpdateIs ==
  ASSUME NEW g \in Marks, NEW i \in Nat, NEW x \in Nat
  PROVE  /\ [g EXCEPT ![i] = x] \in Marks
         /\ [g EXCEPT ![i] = x][i] = x
         /\ \A n \in Nat : n # i => [g EXCEPT ![i] = x][n] = g[n]
BY DEF Marks

LEMMA ShiftIs ==
  ASSUME NEW g \in Marks
  PROVE  /\ [n \in Nat |-> g[n + 1]] \in Marks
         /\ \A n \in Nat : [m \in Nat |-> g[m + 1]][n] = g[n + 1]
BY DEF Marks

LEMMA MarkIs ==
  ASSUME NEW g \in Marks, NEW n \in Nat
  PROVE  g[n] \in Nat /\ g[n + 1] \in Nat
BY DEF Marks

LEMMA MovesGrow ==
  ASSUME NEW f \in Frames, NEW t \in Nat, NEW b \in Nat, NEW t1 \in Nat,
         NEW b1 \in Nat, NEW s \in Seq(Atts), NEW x \in Seq(Atts),
         Moves(f, t, b, t1, b1, s)
  PROVE  Moves(f, t, b, t1, b1, s \o x)
<1>0. t1 <= Len(s)
  BY DEF Moves
<1>1. /\ Len(s) \in Nat /\ Len(s \o x) \in Nat /\ Len(s) <= Len(s \o x)
      /\ \A i \in 1 .. Len(s) : (s \o x)[i] = s[i]
  BY ConcatIs
<1> DEFINE y == s \o x
<1> HIDE DEF y
<1>2. CASE f.kind = "text" /\ b1 = b /\ t1 = t + Count[f.msg]
           /\ \A j \in 1 .. Count[f.msg] : s[t + j] = <<f.msg, j>>
  <2>1. f.msg \in Msgs /\ Count[f.msg] \in Nat
    BY <1>2, CountAssumption DEF Frames
  <2>2. \A j \in 1 .. Count[f.msg] : y[t + j] = s[t + j]
    BY <1>0, <1>1, <1>2, <2>1 DEF y
  <2>3. Moves(f, t, b, t1, b1, y)
    BY <1>0, <1>1, <1>2, <2>1, <2>2 DEF Moves, y
  <2> QED BY <2>3 DEF y
<1>3. CASE f.kind = "binary" /\ t1 = t /\ b1 = b + 1 /\ b1 <= t
           /\ s[b1] = f.att
  <2>1. y[b1] = s[b1]
    <3>1. b1 \in 1 .. Len(s)
      BY <1>0, <1>1, <1>3
    <3> QED BY <1>1, <3>1 DEF y
  <2>2. t1 <= Len(y)
    BY <1>1 DEF Moves, y
  <2>3. Moves(f, t, b, t1, b1, y)
    BY <1>3, <2>1, <2>2 DEF Moves
  <2> QED BY <2>3 DEF y
<1> QED BY <1>2, <1>3 DEF Moves

\* More is announced, which may or may not be sent.
LEMMA FlowGrows ==
  ASSUME TypeOK, NEW heard \in Marks, NEW taken \in Marks,
         Flow(heard, taken, wire, dwnl, announced), NEW x \in Seq(Atts)
  PROVE  Flow(heard, taken, wire, dwnl, announced \o x)
<1> DEFINE s == announced
           y == s \o x
<1>1. /\ s \in Seq(Atts) /\ wire \in Seq(Frames) /\ dwnl \in Seq(Atts)
      /\ Len(wire) \in Nat
  BY DEF TypeOK
<1>2. /\ Len(s) \in Nat /\ Len(y) \in Nat /\ Len(s) <= Len(y)
      /\ \A i \in 1 .. Len(s) : y[i] = s[i]
  BY <1>1, ConcatIs
<1>3. ASSUME NEW n \in 1 .. Len(wire)
      PROVE  Moves(wire[n], heard[n], taken[n], heard[n + 1], taken[n + 1], y)
  <2>1. /\ wire[n] \in Frames /\ heard[n] \in Nat /\ taken[n] \in Nat
        /\ heard[n + 1] \in Nat /\ taken[n + 1] \in Nat
    <3>1. n \in Nat
      OBVIOUS
    <3> QED BY <1>1, <3>1, MarkIs
  <2>2. Moves(wire[n], heard[n], taken[n], heard[n + 1], taken[n + 1], s)
    BY DEF Flow
  <2> QED BY <1>1, <2>1, <2>2, MovesGrow
<1> HIDE DEF y, s
<1>4. Promised(dwnl, heard[1], taken[1], y)
  <2> DEFINE t == heard[1]
             b == taken[1]
  <2>1. Promised(dwnl, t, b, s)
    BY DEF Flow, s
  <2> HIDE DEF t, b
  <2>2. \A j \in 1 .. Len(dwnl) : y[b + j] = s[b + j]
    BY <1>1, <1>2, <2>1 DEF Promised
  <2>3. Promised(dwnl, t, b, y)
    BY <1>1, <1>2, <2>1, <2>2 DEF Promised
  <2> QED BY <2>3 DEF t, b
<1> QED BY <1>3, <1>4 DEF Flow, s, y

\* A frame is sent.
LEMMA FlowSends ==
  ASSUME NEW heard \in Marks, NEW taken \in Marks,
         Flow(heard, taken, wire, dwnl, announced'), UNCHANGED dwnl,
         wire \in Seq(Frames), NEW f \in Frames, wire' = Append(wire, f),
         Len(announced') \in Nat, Len(frames') \in Nat,
         Moves(f, heard[Len(wire) + 1], taken[Len(wire) + 1],
               Len(announced'), Len(frames'), announced')
  PROVE  OnTheWay'
<1> DEFINE w == wire
           d == dwnl
           s == announced'
           t1 == Len(announced')
           b1 == Len(frames')
           z == Len(wire)
           r == Append(wire, f)
           h == [heard EXCEPT ![z + 2] = t1]
           k == [taken EXCEPT ![z + 2] = b1]
<1>1. /\ z \in Nat /\ Len(r) = z + 1 /\ r[z + 1] = f
      /\ \A n \in 1 .. z : r[n] = w[n]
  BY SentIs
<1> HIDE DEF z, r, w, d, s, t1, b1
<1>2. /\ h \in Marks /\ k \in Marks
      /\ h[z + 2] = t1 /\ k[z + 2] = b1
      /\ \A n \in Nat : n # z + 2 => h[n] = heard[n] /\ k[n] = taken[n]
  <2>1. z + 2 \in Nat
    BY <1>1
  <2>2. t1 \in Nat /\ b1 \in Nat
    BY DEF t1, b1
  <2> QED BY <2>1, <2>2, UpdateIs
<1> HIDE DEF h, k
<1>3. ASSUME NEW n \in 1 .. Len(r)
      PROVE  Moves(r[n], h[n], k[n], h[n + 1], k[n + 1], s)
  <2>1. CASE n = z + 1
    <3>1. /\ r[n] = f /\ n + 1 = z + 2
          /\ h[n] = heard[n] /\ k[n] = taken[n]
      BY <1>1, <1>2, <2>1
    <3> QED BY <1>2, <2>1, <3>1 DEF z, t1, b1, s, w
  <2>2. CASE n # z + 1
    <3>1. n \in 1 .. z /\ n # z + 2 /\ n + 1 # z + 2 /\ n \in Nat /\ n + 1 \in Nat
      BY <1>1, <2>2
    <3>2. /\ r[n] = w[n] /\ h[n] = heard[n] /\ k[n] = taken[n]
          /\ h[n + 1] = heard[n + 1] /\ k[n + 1] = taken[n + 1]
      BY <1>1, <1>2, <3>1
    <3> QED BY <3>1, <3>2 DEF Flow, z, w, s
  <2> QED BY <2>1, <2>2
<1>4. Promised(d, h[1], k[1], s)
  <2>1. h[1] = heard[1] /\ k[1] = taken[1]
    BY <1>1, <1>2
  <2> QED BY <2>1 DEF Flow, d, s
<1>5. Flow(h, k, r, d, s)
  BY <1>3, <1>4 DEF Flow
<1>6. Flow(h, k, wire', dwnl', announced') /\ Len(wire') + 1 = z + 2
  BY <1>1, <1>5 DEF r, d, s
<1> QED BY <1>2, <1>6 DEF OnTheWay, t1, b1

\* A frame is received.
LEMMA FlowReceives ==
  ASSUME NEW heard \in Marks, NEW taken \in Marks,
         wire \in Seq(Frames), wire # <<>>, wire' = Tail(wire),
         UNCHANGED <<conn, announced, frames>>,
         Flow(heard, taken, wire, dwnl, announced),
         conn = "up" => /\ heard[Len(wire) + 1] = Len(announced)
                        /\ taken[Len(wire) + 1] = Len(frames),
         Promised(dwnl', heard[2], taken[2], announced)
  PROVE  OnTheWay'
<1> DEFINE w == wire
           s == announced
           e == dwnl'
           z == Len(w)
           r == Tail(w)
           h == [n \in Nat |-> heard[n + 1]]
           k == [n \in Nat |-> taken[n + 1]]
<1>1. /\ z \in Nat \ {0} /\ Len(r) = z - 1
      /\ \A n \in 1 .. Len(r) : r[n] = w[n + 1]
  BY EmptySeq
<1> HIDE DEF z, r, w, s, e
<1>2. /\ h \in Marks /\ k \in Marks
      /\ \A n \in Nat : h[n] = heard[n + 1] /\ k[n] = taken[n + 1]
  BY ShiftIs
<1> HIDE DEF h, k
<1>3. ASSUME NEW n \in 1 .. Len(r)
      PROVE  Moves(r[n], h[n], k[n], h[n + 1], k[n + 1], s)
  <2>1. n + 1 \in 1 .. z /\ n \in Nat /\ n + 1 \in Nat
    BY <1>1
  <2>2. /\ r[n] = w[n + 1] /\ h[n] = heard[n + 1] /\ k[n] = taken[n + 1]
        /\ h[n + 1] = heard[(n + 1) + 1] /\ k[n + 1] = taken[(n + 1) + 1]
    BY <1>1, <1>2, <2>1
  <2> QED BY <2>1, <2>2 DEF Flow, z, w, s
<1>4. h[1] = heard[2] /\ k[1] = taken[2]
  BY <1>2
<1>5. Flow(h, k, r, e, s)
  BY <1>3, <1>4 DEF Flow, e, s
<1>6. Len(r) + 1 \in Nat /\ Len(r) + 1 + 1 = z + 1 /\ Len(r) + 1 = z
  BY <1>1
<1>7. h[Len(r) + 1] = heard[z + 1] /\ k[Len(r) + 1] = taken[z + 1]
  BY <1>2, <1>6
<1> QED BY <1>2, <1>5, <1>7 DEF OnTheWay, z, r, w, s, e
LEMMA AttsOfIs ==
  ASSUME NEW m \in Msgs
  PROVE  /\ AttsOf(m) \in Seq(Atts) /\ Len(AttsOf(m)) = Count[m]
         /\ Count[m] \in Nat
         /\ \A j \in 1 .. Count[m] : AttsOf(m)[j] = <<m, j>>
<1>1. Count[m] \in Nat
  BY CountAssumption
<1>2. DOMAIN AttsOf(m) = 1 .. Count[m]
  BY DEF AttsOf
<1>3. Len(AttsOf(m)) = Count[m]
  BY <1>1, <1>2, AttsOfType, LenProperties
<1> QED BY <1>1, <1>3, AttsOfType DEF AttsOf

\* A message is announced and sent, or lost.
LEMMA TextOnTheWay ==
  ASSUME TypeOK, OnTheWay, NEW m \in Msgs, Send(Text(m)),
         announced' = announced \o AttsOf(m), UNCHANGED <<dwnl, conn, frames>>
  PROVE  OnTheWay'
<1> DEFINE x == AttsOf(m)
           f == Text(m)
<1>1. /\ announced \in Seq(Atts) /\ announced' \in Seq(Atts)
      /\ wire \in Seq(Frames) /\ dwnl \in Seq(Atts) /\ frames \in Seq(Atts)
      /\ x \in Seq(Atts) /\ Len(x) = Count[m] /\ Count[m] \in Nat
      /\ \A j \in 1 .. Count[m] : x[j] = <<m, j>>
  <2>1. announced \in Seq(Atts) /\ x \in Seq(Atts)
    BY AttsOfIs DEF TypeOK
  <2>2. announced' \in Seq(Atts)
    BY <2>1
  <2> QED BY <2>1, <2>2, AttsOfIs DEF TypeOK
<1> HIDE DEF x
<1>2. /\ Len(announced) \in Nat /\ Len(announced') = Len(announced) + Count[m]
      /\ \A j \in 1 .. Count[m] : announced'[Len(announced) + j] = x[j]
  <2>1. announced' = announced \o x
    BY DEF x
  <2>2. Len(x) = Count[m]
    BY <1>1
  <2>3. /\ Len(announced) \in Nat
        /\ Len(announced \o x) = Len(announced) + Len(x)
        /\ \A j \in 1 .. Len(x) : (announced \o x)[Len(announced) + j] = x[j]
    BY <1>1, ConcatIs
  <2> QED BY <2>1, <2>2, <2>3
<1>3. f \in Frames /\ f.kind = "text" /\ f.msg = m
  BY DEF Text, Frames
<1> HIDE DEF f
<1>4. PICK heard \in Marks, taken \in Marks :
        /\ Flow(heard, taken, wire, dwnl, announced)
        /\ conn = "up" => /\ heard[Len(wire) + 1] = Len(announced)
                          /\ taken[Len(wire) + 1] = Len(frames)
  BY DEF OnTheWay
<1>5. Flow(heard, taken, wire, dwnl, announced')
  BY <1>1, <1>4, FlowGrows DEF x
<1>6. CASE conn # "up"
  <2>1. wire' = wire
    BY <1>6 DEF Send
  <2> QED BY <1>4, <1>5, <1>6, <2>1 DEF OnTheWay
<1>7. CASE conn = "up"
  <2>1. wire' = Append(wire, f)
    BY <1>7 DEF Send, f
  <2>2. Moves(f, Len(announced), Len(frames), Len(announced'), Len(frames),
              announced')
    BY <1>1, <1>2, <1>3 DEF Moves
  <2>3. Len(announced') \in Nat /\ Len(frames) \in Nat
    BY <1>1
  <2>4. Moves(f, heard[Len(wire) + 1], taken[Len(wire) + 1],
              Len(announced'), Len(frames), announced')
    BY <1>4, <1>7, <2>2
  <2> QED BY <1>1, <1>3, <1>5, <2>1, <2>3, <2>4, FlowSends
<1> QED BY <1>6, <1>7

\* An attachment is sent in its turn.
LEMMA BinaryOnTheWay ==
  ASSUME TypeOK, OnTheWay, NEW a \in Atts, Send(Binary(a)),
         frames' = Append(frames, a), Prefix(frames', announced'),
         UNCHANGED <<dwnl, conn, announced>>
  PROVE  OnTheWay'
<1> DEFINE f == Binary(a)
<1>1. /\ announced \in Seq(Atts) /\ wire \in Seq(Frames)
      /\ dwnl \in Seq(Atts) /\ frames \in Seq(Atts)
  BY DEF TypeOK
<1>2. f \in Frames /\ f.kind = "binary" /\ f.att = a
  BY DEF Binary, Frames
<1> HIDE DEF f
<1>3. /\ Len(frames) \in Nat /\ Len(announced) \in Nat
      /\ Len(frames') = Len(frames) + 1 /\ frames'[Len(frames) + 1] = a
  BY <1>1
<1>4. Len(frames) + 1 <= Len(announced) /\ announced[Len(frames) + 1] = a
  BY <1>3 DEF Prefix
<1>5. PICK heard \in Marks, taken \in Marks :
        /\ Flow(heard, taken, wire, dwnl, announced)
        /\ conn = "up" => /\ heard[Len(wire) + 1] = Len(announced)
                          /\ taken[Len(wire) + 1] = Len(frames)
  BY DEF OnTheWay
<1>6. CASE conn # "up"
  <2>1. wire' = wire
    BY <1>6 DEF Send
  <2> QED BY <1>5, <1>6, <2>1 DEF OnTheWay
<1>7. CASE conn = "up"
  <2>1. wire' = Append(wire, f)
    BY <1>7 DEF Send, f
  <2>2. Moves(f, Len(announced), Len(frames), Len(announced), Len(frames'),
              announced)
    BY <1>2, <1>3, <1>4 DEF Moves
  <2>3. Len(frames') \in Nat
    BY <1>3
  <2>4. Moves(f, heard[Len(wire) + 1], taken[Len(wire) + 1],
              Len(announced), Len(frames'), announced)
    BY <1>5, <1>7, <2>2
  <2> QED BY <1>1, <1>2, <1>3, <1>5, <2>1, <2>3, <2>4, FlowSends
<1> QED BY <1>6, <1>7
\* The receiver hears of a message's attachments.
LEMMA PromisedGrows ==
  ASSUME NEW s \in Seq(Atts), NEW d \in Seq(Atts), NEW t \in Nat, NEW b \in Nat,
         Promised(d, t, b, s), NEW m \in Msgs, NEW t1, t1 = t + Count[m],
         t1 <= Len(s), \A j \in 1 .. Count[m] : s[t + j] = <<m, j>>
  PROVE  Promised(d \o AttsOf(m), t1, b, s)
<1> DEFINE x == AttsOf(m)
           e == d \o x
           c == Count[m]
<1>1. /\ x \in Seq(Atts) /\ Len(x) = c /\ c \in Nat
      /\ \A j \in 1 .. c : x[j] = <<m, j>>
  BY AttsOfIs
<1>2. /\ Len(d) \in Nat /\ Len(e) = Len(d) + Len(x)
      /\ \A i \in 1 .. Len(d) : e[i] = d[i]
      /\ \A i \in 1 .. Len(x) : e[Len(d) + i] = x[i]
  BY <1>1, ConcatIs
<1>3. /\ t = b + Len(d) /\ t1 = t + c
      /\ \A j \in 1 .. Len(d) : d[j] = s[b + j]
      /\ \A j \in 1 .. c : s[t + j] = <<m, j>>
  BY DEF Promised
<1> HIDE DEF x, e, c
<1>4. Len(e) = Len(d) + c /\ t1 \in Nat /\ t1 = b + Len(e)
  BY <1>1, <1>2, <1>3
<1>5. ASSUME NEW j \in 1 .. Len(e) PROVE e[j] = s[b + j]
  <2>1. CASE j \in 1 .. Len(d)
    BY <1>2, <1>3, <2>1
  <2>2. CASE j \notin 1 .. Len(d)
    <3> DEFINE i == j - Len(d)
    <3>1. i \in 1 .. c /\ Len(d) + i = j /\ t + i = b + j
      BY <1>1, <1>2, <1>3, <1>4, <2>2
    <3> HIDE DEF i
    <3>2. e[j] = x[i] /\ x[i] = <<m, i>> /\ s[t + i] = <<m, i>>
      BY <1>1, <1>2, <1>3, <3>1
    <3> QED BY <3>1, <3>2
  <2> QED BY <2>1, <2>2
<1>6. Promised(e, t1, b, s)
  BY <1>4, <1>5 DEF Promised
<1> QED BY <1>6 DEF e, x

\* It gets one.
LEMMA PromisedShrinks ==
  ASSUME NEW s \in Seq(Atts), NEW d \in Seq(Atts), NEW t \in Nat, NEW b \in Nat,
         Promised(d, t, b, s), d # <<>>
  PROVE  Promised(Tail(d), t, b + 1, s) /\ Head(d) = s[b + 1]
<1> DEFINE e == Tail(d)
<1>1. /\ Len(d) \in Nat \ {0} /\ Len(e) = Len(d) - 1 /\ Head(d) = d[1]
      /\ \A i \in 1 .. Len(e) : e[i] = d[i + 1]
  BY EmptySeq
<1>2. t = b + Len(d) /\ t <= Len(s) /\ \A j \in 1 .. Len(d) : d[j] = s[b + j]
  BY DEF Promised
<1> HIDE DEF e
<1>3. Head(d) = s[b + 1]
  BY <1>1, <1>2
<1>4. ASSUME NEW j \in 1 .. Len(e) PROVE e[j] = s[(b + 1) + j]
  <2>1. j + 1 \in 1 .. Len(d) /\ (b + 1) + j = b + (j + 1)
    BY <1>1
  <2> QED BY <1>1, <1>2, <2>1
<1>5. t = (b + 1) + Len(e) /\ b + 1 \in Nat
  BY <1>1, <1>2
<1>6. Promised(e, t, b + 1, s)
  BY <1>2, <1>4, <1>5 DEF Promised
<1> QED BY <1>3, <1>6 DEF e

LEMMA ReceivesRight ==
  ASSUME TypeOK, Kept, OnTheWay, Receiving
  PROVE  Kept' /\ OnTheWay'
<1> DEFINE f == Head(wire)
           s == announced
<1>1. /\ s \in Seq(Atts) /\ wire \in Seq(Frames) /\ wire # <<>>
      /\ dwnl \in Seq(Atts) /\ got \in [Atts -> Atts \cup {Nothing}]
      /\ wire' = Tail(wire) /\ UNCHANGED <<conn, announced, frames>>
  BY DEF TypeOK, Receiving, OnAttachment, OnBinaryMessage, Receives
<1>2. f = wire[1] /\ 1 \in 1 .. Len(wire) /\ f \in Frames
  BY <1>1, EmptySeq
<1>3. PICK heard \in Marks, taken \in Marks :
        /\ Flow(heard, taken, wire, dwnl, s)
        /\ conn = "up" => /\ heard[Len(wire) + 1] = Len(s)
                          /\ taken[Len(wire) + 1] = Len(frames)
  BY DEF OnTheWay
<1> HIDE DEF f
<1> DEFINE t == heard[1]
           b == taken[1]
           t1 == heard[2]
           b1 == taken[2]
<1>4. t \in Nat /\ b \in Nat /\ t1 \in Nat /\ b1 \in Nat
  BY MarkIs
<1>5. Promised(dwnl, t, b, s) /\ Moves(f, t, b, t1, b1, s)
  <2>1. 1 + 1 = 2
    OBVIOUS
  <2>2. Moves(wire[1], heard[1], taken[1], heard[1 + 1], taken[1 + 1], s)
    BY <1>2, <1>3 DEF Flow
  <2> QED BY <1>2, <1>3, <2>1, <2>2 DEF Flow
<1>6. ASSUME Promised(dwnl', t1, b1, s) PROVE OnTheWay'
  BY <1>1, <1>3, <1>6, FlowReceives
<1> HIDE DEF t, b, t1, b1, s
<1>7. CASE OnAttachment
  <2>1. f.kind = "text" /\ dwnl' = dwnl \o AttsOf(f.msg) /\ UNCHANGED got
    BY <1>7 DEF OnAttachment, Receives, f
  <2>2. /\ t1 <= Len(s) /\ b1 = b /\ t1 = t + Count[f.msg]
        /\ \A j \in 1 .. Count[f.msg] : s[t + j] = <<f.msg, j>>
    BY <1>5, <2>1 DEF Moves
  <2>3. f.msg \in Msgs
    BY <1>2, <2>1 DEF Frames
  <2>4. Promised(dwnl', t1, b1, s)
    BY <1>1, <1>4, <1>5, <2>1, <2>2, <2>3, PromisedGrows
  <2> QED BY <1>6, <2>1, <2>4 DEF Kept
<1>8. CASE OnBinaryMessage
  <2>1. f.kind = "binary"
    BY <1>8 DEF OnBinaryMessage, Receives, f
  <2>2. t1 = t /\ b1 = b + 1 /\ b1 <= t /\ s[b1] = f.att
    BY <1>5, <2>1 DEF Moves
  <2>3. dwnl # <<>>
    BY <1>4, <1>5, <2>2 DEF Promised
  <2>4. dwnl' = Tail(dwnl) /\ got' = [got EXCEPT ![Head(dwnl)] = f.att]
    BY <1>8, <2>3 DEF OnBinaryMessage, f
  <2>5. Promised(Tail(dwnl), t, b + 1, s) /\ Head(dwnl) = s[b + 1]
    BY <1>1, <1>4, <1>5, <2>3, PromisedShrinks
  <2>6. OnTheWay'
    BY <1>6, <2>2, <2>4, <2>5
  <2>7. Head(dwnl) = f.att
    BY <2>2, <2>5
  <2>8. Kept'
    BY <1>1, <2>4, <2>7 DEF Kept
  <2> QED BY <2>6, <2>8
<1> QED BY <1>7, <1>8 DEF Receiving

LEMMA PInvStep ==
  ASSUME IInv, PInv, [Next]_vars
  PROVE  PInv'
<1>1. SUFFICES ASSUME ~disturbed'
               PROVE  Kept' /\ (conn' # "closed" => OnTheWay')
  BY DEF PInv
<1>2. disturbed => disturbed'
  <2>1. disturbed \in BOOLEAN
    BY DEF IInv, TypeOK
  <2>2. ASSUME NEW m \in Msgs, SendCall(m) PROVE disturbed => disturbed'
    BY <2>2 DEF SendCall
  <2>3. ASSUME NEW m \in Msgs, Sending(m) PROVE disturbed => disturbed'
    BY <2>3 DEF Sending, PushAll, SendText, StartUpload
  <2>4. ASSUME NEW m \in Msgs, NEW mode, Check(m, mode)
        PROVE  disturbed => disturbed'
    BY <2>4 DEF Check
  <2>5. ASSUME NEW a \in Atts, SetFuture(a) \/ Uploading(a)
        PROVE  disturbed => disturbed'
    BY <2>5 DEF SetFuture, Uploading, SendFrame, PopAndRun
  <2>6. ASSUME NEW g \in spinning, GoRound(g) PROVE disturbed => disturbed'
    BY <2>6 DEF GoRound
  <2>7. CASE Receiving \/ LinkBreak \/ OnClose \/ UNCHANGED vars
    BY <2>7 DEF Receiving, OnAttachment, OnBinaryMessage, LinkBreak, OnClose,
       vars
  <2> QED BY <2>2, <2>3, <2>4, <2>5, <2>6, <2>7 DEF Next
<1>3. IInv'
  BY TypeInv, OrderInv DEF IInv
<1>4. TypeOK /\ Prefix(frames', announced')
  BY <1>1, <1>3 DEF IInv, Orderly
<1> DEFINE Quiet == UNCHANGED <<wire, dwnl, got, conn, announced, frames>>
<1>5. ASSUME ~disturbed, Quiet PROVE Kept' /\ (conn' # "closed" => OnTheWay')
  <2>1. Kept /\ (conn # "closed" => OnTheWay)
    BY <1>5 DEF PInv
  <2>2. Kept'
    BY <1>5, <2>1 DEF Kept
  <2>3. OnTheWay => OnTheWay'
    BY <1>5 DEF OnTheWay
  <2> QED BY <1>5, <2>1, <2>2, <2>3
<1>6. ~disturbed /\ Kept /\ (conn # "closed" => OnTheWay)
  BY <1>1, <1>2 DEF PInv
<1>7. ASSUME NEW m \in Msgs, SendCall(m) \/ SendText(m)
      PROVE  Kept' /\ (conn' # "closed" => OnTheWay')
  <2>1. /\ Send(Text(m)) /\ announced' = announced \o AttsOf(m)
        /\ UNCHANGED <<dwnl, conn, frames, got>>
    BY <1>7 DEF SendCall, SendText
  <2>2. OnTheWay => OnTheWay'
    BY <1>4, <2>1, TextOnTheWay
  <2>3. Kept'
    BY <1>6, <2>1 DEF Kept
  <2> QED BY <1>6, <2>1, <2>2, <2>3
<1>8. ASSUME NEW a \in Atts, SendFrame(a)
      PROVE  Kept' /\ (conn' # "closed" => OnTheWay')
  <2>1. /\ Send(Binary(a)) /\ frames' = Append(frames, a)
        /\ UNCHANGED <<dwnl, conn, announced, got>>
    BY <1>8 DEF SendFrame
  <2>2. OnTheWay => OnTheWay'
    BY <1>4, <2>1, BinaryOnTheWay
  <2>3. Kept'
    BY <1>6, <2>1 DEF Kept
  <2> QED BY <1>6, <2>1, <2>2, <2>3
<1>9. ASSUME NEW g \in spinning PROVE FALSE
  BY <1>6, <1>9 DEF IInv, Orderly
<1>10. CASE \/ \E m \in Msgs : PushAll(m) \/ StartUpload(m)
            \/ \E m \in Msgs, mode \in Modes \ {"unique"} : Check(m, mode)
            \/ \E a \in Atts : SetFuture(a) \/ PopAndRun(a)
            \/ UNCHANGED vars
  <2>1. Quiet
    BY <1>10 DEF PushAll, StartUpload, Check, SetFuture, PopAndRun, vars
  <2> QED BY <1>5, <1>6, <2>1
<1>11. CASE Receiving
  <2>1. conn # "closed"
    BY <1>11 DEF Receiving, OnAttachment, OnBinaryMessage, Receives
  <2> QED BY <1>4, <1>6, <1>11, <2>1, ReceivesRight
<1>12. CASE LinkBreak
  <2>1. /\ UNCHANGED <<wire, dwnl, got, announced, frames>>
        /\ conn = "up" /\ conn' = "broken"
    BY <1>12 DEF LinkBreak
  <2>2. OnTheWay => OnTheWay'
    BY <2>1 DEF OnTheWay
  <2>3. Kept'
    BY <1>6, <2>1 DEF Kept
  <2> QED BY <1>6, <2>1, <2>2, <2>3
<1>13. CASE OnClose
  BY <1>6, <1>13 DEF OnClose, Kept
<1> QED BY <1>7, <1>8, <1>9, <1>10, <1>11, <1>12, <1>13
       DEF Next, Sending, Uploading
LEMMA InitPInv == Init => PInv
<1> SUFFICES ASSUME Init PROVE Kept /\ OnTheWay
  BY DEF PInv
<1>1. Kept
  BY DEF Init, Kept
<1> DEFINE z == [n \in Nat |-> 0]
<1>2. z \in Marks /\ z[1] = 0
  BY DEF Marks
<1> HIDE DEF z
<1>3. /\ Len(wire) = 0 /\ Len(dwnl) = 0 /\ Len(announced) = 0
      /\ Len(frames) = 0
  BY DEF Init
<1>4. Flow(z, z, wire, dwnl, announced)
  BY <1>2, <1>3 DEF Flow, Promised
<1>5. OnTheWay
  BY <1>2, <1>3, <1>4 DEF OnTheWay
<1> QED BY <1>1, <1>5

\* Under the same conditions a promise is only ever kept with the attachment
\* it was made for, though a binary frame does not say which it is: the
\* receiver's futures follow the announcements as the frames do
\* (peer.cpp:204-224, 397-415), also when the connection breaks.
THEOREM KeptRight == Spec => []PromisesKeptRight
<1>1. PInv => PromisesKeptRight
  BY DEF PInv, Kept, PromisesKeptRight
<1>2. IInv /\ PInv /\ [Next]_vars => PInv'
  BY PInvStep
<1> QED BY <1>1, <1>2, InitPInv, IInvAlways, PTL DEF Spec
=============================================================================
