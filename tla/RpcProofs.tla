----------------------------- MODULE RpcProofs -----------------------------
(***************************************************************************)
(* Proofs about Rpc, for every set of calls, every size of the id space    *)
(* and every bound: type correctness, and that the outcome of a call is    *)
(* settled once.                                                           *)
(***************************************************************************)
EXTENDS Rpc, SequenceTheorems, TLAPS

Msgs == RequestMsgs \cup AnswerMsgs

-----------------------------------------------------------------------------
(* Lemmas about the operators the actions are built from.                  *)

\* An id is always in range, whatever the counter has reached.
LEMMA IdInRange == \A n \in Nat : n % IdSpace \in Ids
  BY IdSpaceAssumption, SMT DEF Ids

LEMMA OtherIsPeer == \A p \in Peers : Other(p) \in Peers /\ Other(p) # p
  BY PeersAssumption DEF Peers, Other

\* Sending and receiving keep the queues well-typed.
LEMMA PushType ==
  ASSUME NEW q \in [Peers -> Seq(Msgs)], NEW p \in Peers, NEW m \in Msgs
  PROVE  Push(q, p, m) \in [Peers -> Seq(Msgs)]
<1>1. Append(q[Other(p)], m) \in Seq(Msgs)
  BY OtherIsPeer, AppendProperties
<1> QED BY <1>1, OtherIsPeer DEF Push

LEMMA PopType ==
  ASSUME NEW q \in [Peers -> Seq(Msgs)], NEW p \in Peers, q[p] # <<>>
  PROVE  /\ Pop(q, p) \in [Peers -> Seq(Msgs)]
         /\ Head(q[p]) \in Msgs
<1>1. Tail(q[p]) \in Seq(Msgs) /\ Head(q[p]) \in Msgs
  BY HeadTailProperties
<1> QED BY <1>1 DEF Pop

\* The first message of a queue is what its kind says.
LEMMA HeadOfKind ==
  ASSUME NEW m \in Msgs
  PROVE  /\ m.kind = "request" => m \in RequestMsgs
         /\ m.kind = "answer" => m \in AnswerMsgs
  BY DEF Msgs, RequestMsgs, AnswerMsgs

\* What the listener is doing is what its program point says.
LEMMA ListenerAt ==
  ASSUME NEW l \in Listening
  PROVE  /\ l.at = "handler" => l \in [at: {"handler"}, req: Requests,
                                       sent: BOOLEAN]
         /\ l.at = "catch" => l \in [at: {"catch"}, req: Requests]
         /\ l.at = "deliver" => l \in [at: {"deliver"}, call: Calls,
                                       type: AnswerTypes, for: Calls]
  BY DEF Listening, Idle

\* Sending an answer keeps the queues and the history well-typed.
LEMMA SendAnswerType ==
  ASSUME NEW q \in [Peers -> Seq(Msgs)], NEW p \in Peers,
         NEW r \in Requests, NEW type \in AnswerTypes,
         answers \in [Calls -> Seq(AnswerTypes)],
         SendAnswer(q, p, r, type)
  PROVE  /\ inbox' \in [Peers -> Seq(Msgs)]
         /\ answers' \in [Calls -> Seq(AnswerTypes)]
<1> DEFINE m == [kind |-> "answer", id |-> r.id, call |-> r.call,
                 type |-> type]
<1>1. r.call \in Calls /\ r.id \in Ids
  BY DEF Requests
<1>2. m \in Msgs
  BY <1>1 DEF Msgs, AnswerMsgs
<1>3. inbox' \in [Peers -> Seq(Msgs)]
  <2>1. inbox' = Push(q, p, m)
    BY DEF SendAnswer
  <2> QED BY <1>2, <2>1, PushType
<1>4. Append(answers[r.call], type) \in Seq(AnswerTypes)
  BY <1>1, AppendProperties
<1>5. answers' \in [Calls -> Seq(AnswerTypes)]
  BY <1>4 DEF SendAnswer
<1> QED BY <1>3, <1>5

\* The queues of TypeOK, under the name the lemmas use.
LEMMA QueuesType == TypeOK => inbox \in [Peers -> Seq(Msgs)]
  BY DEF TypeOK, Msgs

LEMMA HandlerAnswersType == \A op : HandlerAnswers(op) \subseteq AnswerTypes
  BY DEF HandlerAnswers, AnswerTypes

-----------------------------------------------------------------------------
(* Type correctness.                                                       *)

LEMMA InitType == Init => TypeOK
<1> SUFFICES ASSUME Init PROVE TypeOK
  OBVIOUS
<1>1. <<>> \in Seq(RequestMsgs \cup AnswerMsgs) /\ <<>> \in Seq(AnswerTypes)
  OBVIOUS
<1> QED
  BY <1>1 DEF Init, TypeOK, Listening, Outcomes

\* Issuing takes an id that is in range, wrapped or not.
LEMMA IssueType ==
  ASSUME TypeOK, NEW p \in Peers, NEW c \in Calls, NEW op \in Ops,
         NEW name \in Ids, Issue(p, c, op, name)
  PROVE  TypeOK'
<1> DEFINE id == call_id[p] % IdSpace
           m == [kind |-> "request", id |-> id, call |-> c, op |-> op,
                 name |-> name]
<1>1. call_id[p] \in Nat
  BY DEF TypeOK
<1>2. id \in Ids
  BY <1>1, IdInRange
<1>3. m \in Msgs
  BY <1>2 DEF Msgs, RequestMsgs
<1>4. inbox' \in [Peers -> Seq(Msgs)]
  BY <1>3, QueuesType, PushType DEF Issue
<1>5. call_id' \in [Peers -> Nat]
  BY <1>1 DEF Issue, TypeOK
<1>6. call_map' \in [Peers -> [Ids -> Calls \cup {NoCall}]]
  BY <1>2 DEF Issue, TypeOK
<1>7. outcome' \in [Calls -> Outcomes]
  BY DEF Issue, TypeOK, Outcomes, Final
<1> QED
  BY <1>4, <1>5, <1>6, <1>7 DEF Issue, TypeOK, Msgs

LEMMA ApplicationType ==
  ASSUME TypeOK, NEW p \in Peers, Application(p)
  PROVE  TypeOK'
<1>1. ASSUME NEW c \in Calls, Call(p, c) \/ Discover(p, c) PROVE TypeOK'
  <2>1. 0 \in Ids
    BY IdSpaceAssumption DEF Ids
  <2> QED BY <1>1, <2>1, IssueType DEF Call, Discover, Ops
<1>2. ASSUME NEW c \in Calls, CallDisconnected(p, c) PROVE TypeOK'
  BY <1>2 DEF CallDisconnected, TypeOK, Outcomes, Final
<1>3. ASSUME NEW c \in Calls, NEW name \in Ids, CallCallback(p, c, name)
      PROVE  TypeOK'
  BY <1>3, IssueType DEF CallCallback, Ops
<1>4. CASE RegCallback(p)
  <2>1. call_id[p] \in Nat
    BY DEF TypeOK
  <2>2. call_id[p] % IdSpace \in Ids
    BY <2>1, IdInRange
  <2> QED BY <1>4, <2>1, <2>2 DEF RegCallback, TypeOK
<1>5. ASSUME NEW name \in Ids, UnregCallback(p, name) PROVE TypeOK'
  BY <1>5 DEF UnregCallback, TypeOK
<1>6. CASE Destroy(p)
  <2>1. inbox' \in [Peers -> Seq(Msgs)]
    BY <1>6, QueuesType DEF Destroy
  <2>2. outcome' \in [Calls -> Outcomes]
    BY <1>6 DEF Destroy, TypeOK, Outcomes, Final
  <2> QED BY <1>6, <2>1, <2>2 DEF Destroy, TypeOK, Msgs
<1> QED BY <1>1, <1>2, <1>3, <1>4, <1>5, <1>6 DEF Application

\* The two ways to serve a request.
LEMMA ServeType ==
  ASSUME TypeOK, NEW p \in Peers, Receives(p, "request"),
         NEW type \in AnswerTypes,
         \/ StartHandler(p, Head(inbox[p]))
         \/ AnswerAtOnce(p, Head(inbox[p]), type)
  PROVE  /\ inbox' \in [Peers -> Seq(Msgs)]
         /\ answers' \in [Calls -> Seq(AnswerTypes)]
         /\ listener' \in [Peers -> Listening]
<1> DEFINE m == Head(inbox[p])
<1>1. m \in RequestMsgs /\ Pop(inbox, p) \in [Peers -> Seq(Msgs)]
  BY QueuesType, PopType, HeadOfKind DEF Receives
<1>2. RequestOf(m) \in Requests
  BY <1>1 DEF RequestOf, RequestMsgs, Requests
<1>3. CASE StartHandler(p, m)
  BY <1>1, <1>2, <1>3 DEF StartHandler, TypeOK, Listening, Handling
<1>4. CASE AnswerAtOnce(p, m, type)
  BY <1>1, <1>2, <1>4, SendAnswerType DEF AnswerAtOnce, TypeOK
<1> QED BY <1>3, <1>4

LEMMA ReceiveType ==
  ASSUME TypeOK, NEW p \in Peers, Receive(p)
  PROVE  TypeOK'
<1> DEFINE m == Head(inbox[p])
           Served == /\ inbox' \in [Peers -> Seq(Msgs)]
                     /\ answers' \in [Calls -> Seq(AnswerTypes)]
                     /\ listener' \in [Peers -> Listening]
<1>1. CASE OnMethodCall(p)
  <2>1. Served
    BY <1>1, ServeType DEF OnMethodCall, AnswerTypes
  <2> QED BY <1>1, <2>1 DEF OnMethodCall, TypeOK, Msgs
<1>2. CASE OnDiscover(p)
  <2>1. Served
    BY <1>2, ServeType DEF OnDiscover, AnswerTypes
  <2> QED BY <1>2, <2>1 DEF OnDiscover, TypeOK, Msgs
<1>3. CASE OnCallback(p)
  <2>1. Served
    BY <1>3, ServeType DEF OnCallback, AnswerTypes
  <2>2. cb_map' \in [Peers -> SUBSET Ids] /\ retired' \in [Peers -> SUBSET Ids]
    <3>1. CASE m.name \in cb_map[p]
      <4>1. m.name \in Ids
        BY <3>1 DEF TypeOK
      <4>2. /\ cb_map' = [cb_map EXCEPT ![p] = @ \ {m.name}]
            /\ retired' = [retired EXCEPT ![p] = @ \cup {m.name}]
        BY <1>3, <3>1 DEF OnCallback
      <4> QED BY <4>1, <4>2 DEF TypeOK
    <3>2. CASE m.name \notin cb_map[p]
      <4>1. UNCHANGED <<cb_map, retired>>
        BY <1>3, <3>2 DEF OnCallback
      <4> QED BY <4>1 DEF TypeOK
    <3> QED BY <3>1, <3>2
  <2> QED BY <1>3, <2>1, <2>2 DEF OnCallback, TypeOK, Msgs
<1>4. CASE FinishCall(p)
  <2>1. m \in AnswerMsgs /\ Pop(inbox, p) \in [Peers -> Seq(Msgs)]
    BY <1>4, QueuesType, PopType, HeadOfKind DEF FinishCall, Receives
  <2>2. m.id \in Ids /\ m.type \in AnswerTypes /\ m.call \in Calls
    BY <2>1 DEF AnswerMsgs
  <2>3. call_map' \in [Peers -> [Ids -> Calls \cup {NoCall}]]
    <3>1. \/ call_map' = [call_map EXCEPT ![p][m.id] = NoCall]
          \/ call_map' = call_map
      BY <1>4 DEF FinishCall
    <3>2. call_map \in [Peers -> [Ids -> Calls \cup {NoCall}]]
      BY DEF TypeOK
    <3>3. [call_map[p] EXCEPT ![m.id] = NoCall]
             \in [Ids -> Calls \cup {NoCall}]
      BY <3>2
    <3> QED BY <3>1, <3>2, <3>3
  <2>4. listener' \in [Peers -> Listening]
    <3>1. CASE call_map[p][m.id] = NoCall
      BY <1>4, <3>1 DEF FinishCall, TypeOK
    <3>2. CASE call_map[p][m.id] # NoCall
      <4>1. call_map[p][m.id] \in Calls
        BY <2>2, <3>2 DEF TypeOK
      <4> DEFINE l == [at |-> "deliver", type |-> m.type,
                       call |-> call_map[p][m.id], for |-> m.call]
      <4>2. l \in Listening
        BY <2>2, <4>1 DEF Listening
      <4>3. listener' = [listener EXCEPT ![p] = l]
        BY <1>4, <3>2 DEF FinishCall
      <4> HIDE DEF l
      <4> QED BY <4>2, <4>3 DEF TypeOK
    <3> QED BY <3>1, <3>2
  <2> QED BY <1>4, <2>1, <2>3, <2>4 DEF FinishCall, TypeOK, Msgs
<1> QED BY <1>1, <1>2, <1>3, <1>4 DEF Receive

\* A handler's Request, whatever the handler does next.
LEMMA HandlingType ==
  ASSUME TypeOK, NEW p \in Peers, listener[p].at = "handler"
  PROVE  /\ listener[p].req \in Requests
         /\ [listener EXCEPT ![p] = Handling(listener[p].req, TRUE)]
              \in [Peers -> Listening]
         /\ [listener EXCEPT ![p] = Idle] \in [Peers -> Listening]
         /\ HandlerAnswers(listener[p].req.op) \subseteq AnswerTypes
<1>1. listener[p] \in [at: {"handler"}, req: Requests, sent: BOOLEAN]
  BY ListenerAt DEF TypeOK
<1>2. Handling(listener[p].req, TRUE) \in Listening
  BY <1>1 DEF Listening, Handling
<1> QED BY <1>1, <1>2, HandlerAnswersType DEF TypeOK, Listening

LEMMA DestroyRequestType ==
  ASSUME TypeOK, NEW p \in Peers, listener[p].at = "handler",
         DestroyRequest(p)
  PROVE  /\ inbox' \in [Peers -> Seq(Msgs)]
         /\ answers' \in [Calls -> Seq(AnswerTypes)]
<1>1. CASE listener[p].sent
  BY <1>1, QueuesType DEF DestroyRequest, TypeOK
<1>2. CASE ~listener[p].sent
  <2>1. SendAnswer(inbox, p, listener[p].req, "result")
    BY <1>2 DEF DestroyRequest
  <2> QED BY <2>1, QueuesType, HandlingType, SendAnswerType
          DEF TypeOK, AnswerTypes
<1> QED BY <1>1, <1>2

LEMMA HandleType ==
  ASSUME TypeOK, NEW p \in Peers, Handle(p)
  PROVE  TypeOK'
<1>1. CASE HandlerAnswer(p)
  <2>1. PICK type \in AnswerTypes :
          SendAnswer(inbox, p, listener[p].req, type)
    BY <1>1, HandlingType DEF HandlerAnswer
  <2>2. /\ inbox' \in [Peers -> Seq(Msgs)]
        /\ answers' \in [Calls -> Seq(AnswerTypes)]
    BY <1>1, <2>1, QueuesType, HandlingType, SendAnswerType
       DEF HandlerAnswer, TypeOK
  <2> QED BY <1>1, <2>2, HandlingType DEF HandlerAnswer, TypeOK, Msgs
<1>2. CASE HandlerKeep(p)
  BY <1>2, HandlingType DEF HandlerKeep, TypeOK
<1>3. CASE HandlerReturn(p)
  <2>1. DestroyRequest(p) /\ listener[p].at = "handler"
    BY <1>3 DEF HandlerReturn
  <2> QED BY <1>3, <2>1, HandlingType, DestroyRequestType
          DEF HandlerReturn, TypeOK, Msgs
<1>4. CASE HandlerThrow(p)
  <2>1. DestroyRequest(p) /\ listener[p].at = "handler"
    BY <1>4 DEF HandlerThrow
  <2>2. listener' \in [Peers -> Listening] /\ threw' \in SUBSET Calls
    BY <1>4, <2>1, HandlingType
       DEF HandlerThrow, TypeOK, Listening, Requests
  <2> QED BY <1>4, <2>1, <2>2, DestroyRequestType
          DEF HandlerThrow, TypeOK, Msgs
<1> QED BY <1>1, <1>2, <1>3, <1>4 DEF Handle

LEMMA TypeStep == TypeOK /\ [Next]_vars => TypeOK'
<1> SUFFICES ASSUME TypeOK, [Next]_vars PROVE TypeOK'
  OBVIOUS
<1>1. CASE LinkBreak
  <2>1. PICK n \in 0 .. Len(inbox[Client]), m \in 0 .. Len(inbox[Server]) :
          inbox' = [inbox EXCEPT ![Client] = SubSeq(@, 1, n),
                                 ![Server] = SubSeq(@, 1, m)]
    BY <1>1 DEF LinkBreak
  <2>2. inbox[Client] \in Seq(Msgs) /\ inbox[Server] \in Seq(Msgs)
    BY QueuesType DEF Peers
  <2>3. /\ SubSeq(inbox[Client], 1, n) \in Seq(Msgs)
        /\ SubSeq(inbox[Server], 1, m) \in Seq(Msgs)
    BY <2>2
  <2>4. inbox' \in [Peers -> Seq(Msgs)]
    BY <2>1, <2>3, QueuesType, PeersAssumption DEF Peers
  <2> QED BY <1>1, <2>4 DEF LinkBreak, TypeOK, Msgs
<1>2. ASSUME NEW p \in Peers, CatchException(p) PROVE TypeOK'
  <2>1. listener[p].req \in Requests
    BY <1>2, ListenerAt DEF CatchException, TypeOK
  <2>2. /\ inbox' \in [Peers -> Seq(Msgs)]
        /\ answers' \in [Calls -> Seq(AnswerTypes)]
    BY <1>2, <2>1, QueuesType, SendAnswerType
       DEF CatchException, TypeOK, AnswerTypes
  <2> QED BY <1>2, <2>2 DEF CatchException, TypeOK, Listening, Msgs
<1>3. ASSUME NEW p \in Peers, FinishRequest(p) PROVE TypeOK'
  <2>1. PICK r \in requests[p] :
          /\ \E type \in HandlerAnswers(r.op) : SendAnswer(inbox, p, r, type)
          /\ requests' = [requests EXCEPT ![p] = @ \ {r}]
    BY <1>3 DEF FinishRequest
  <2>2. r \in Requests
    BY DEF TypeOK
  <2>3. /\ inbox' \in [Peers -> Seq(Msgs)]
        /\ answers' \in [Calls -> Seq(AnswerTypes)]
    BY <2>1, <2>2, QueuesType, HandlerAnswersType, SendAnswerType DEF TypeOK
  <2> QED BY <1>3, <2>1, <2>3 DEF FinishRequest, TypeOK, Msgs
<1>4. ASSUME NEW p \in Peers, Deliver(p) PROVE TypeOK'
  <2>1. listener[p].call \in Calls /\ listener[p].type \in AnswerTypes
    BY <1>4, ListenerAt DEF Deliver, TypeOK
  <2> QED BY <1>4, <2>1 DEF Deliver, TypeOK, Listening, Outcomes, Final
<1>5. ASSUME NEW p \in Peers, OnClose(p) PROVE TypeOK'
  BY <1>5 DEF OnClose, TypeOK
<1>6. CASE UNCHANGED vars
  BY <1>6 DEF vars, TypeOK
<1> QED
  BY <1>1, <1>2, <1>3, <1>4, <1>5, <1>6, ApplicationType, ReceiveType,
     HandleType DEF Next

\* Every reachable state is one the types of Peer's members allow: in
\* particular an id is always a value _call_id can have.
THEOREM TypeCorrect == Spec => []TypeOK
  BY InitType, TypeStep, PTL DEF Spec

-----------------------------------------------------------------------------
(* A callback is held in one place.  The invariant is inductive with the   *)
(* types alone, so it needs neither distinct ids nor an intact connection. *)

HInv == TypeOK /\ CallbackHeldOnce

LEMMA InitHeld == Init => CallbackHeldOnce
  BY NoCallAssumption DEF Init, CallbackHeldOnce, Delivering, Idle

\* A step of p's listener between two points other than "deliver".
Quiet(p) ==
  \/ UNCHANGED listener
  \/ /\ listener[p].at # "deliver"
     /\ \E l : l.at # "deliver" /\ listener' = [listener EXCEPT ![p] = l]

LEMMA QuietStep ==
  ASSUME HInv, NEW p \in Peers, Quiet(p), UNCHANGED <<outcome, call_map>>
  PROVE  CallbackHeldOnce'
<1>1. \A q \in Peers, c \in Calls : Delivering(q, c)' <=> Delivering(q, c)
  BY DEF HInv, TypeOK, Quiet, Delivering
<1> QED BY <1>1 DEF HInv, CallbackHeldOnce

LEMMA IssueHeld ==
  ASSUME HInv, NEW p \in Peers, NEW c \in Calls, NEW op \in Ops,
         NEW name \in Ids, Issue(p, c, op, name)
  PROVE  CallbackHeldOnce'
<1> DEFINE id == call_id[p] % IdSpace
           old == call_map[p][id]
<1>1. id \in Ids
  BY IdInRange DEF HInv, TypeOK
<1>2. /\ call_map' = [call_map EXCEPT ![p][id] = c]
      /\ outcome' = [d \in Calls |-> IF d = c THEN "pending"
                                     ELSE IF d = old THEN "dropped"
                                     ELSE outcome[d]]
      /\ outcome[c] = "idle"
      /\ UNCHANGED listener
  BY DEF Issue
<1>3. \A q \in Peers, i \in Ids :
        call_map'[q][i] = IF q = p /\ i = id THEN c ELSE call_map[q][i]
  BY <1>1, <1>2 DEF HInv, TypeOK
<1>4. \A q \in Peers, d \in Calls : Delivering(q, d)' <=> Delivering(q, d)
  BY <1>2 DEF Delivering
<1>5. /\ \A q \in Peers, i \in Ids : call_map[q][i] # c
      /\ \A q \in Peers : ~Delivering(q, c)
  BY <1>2 DEF HInv, CallbackHeldOnce
<1>6. old \in Calls =>
        /\ outcome[old] = "pending"
        /\ \A q \in Peers : ~Delivering(q, old)
        /\ \A q \in Peers, i \in Ids : call_map[q][i] = old => q = p /\ i = id
  BY <1>1, NoCallAssumption DEF HInv, CallbackHeldOnce
<1> HIDE DEF id, old
<1>7. \A d \in Calls :
        outcome'[d] = "pending" <=>
          \/ \E q \in Peers, i \in Ids : call_map'[q][i] = d
          \/ \E q \in Peers : Delivering(q, d)'
  <2> TAKE d \in Calls
  <2>1. CASE d = c
    BY <1>1, <1>2, <1>3, <2>1
  <2>2. CASE d # c /\ d = old
    BY <1>2, <1>3, <1>4, <1>6, <2>2
  <2>3. CASE d # c /\ d # old
    <3>1. outcome'[d] = outcome[d]
      BY <1>2, <2>3
    <3>2. \A q \in Peers, i \in Ids : call_map'[q][i] = d <=> call_map[q][i] = d
      BY <1>3, <2>3 DEF id, old
    <3> QED BY <1>4, <3>1, <3>2 DEF HInv, CallbackHeldOnce
  <2> QED BY <2>1, <2>2, <2>3
<1>8. \A q, r \in Peers, i, j \in Ids :
        call_map'[q][i] # NoCall /\ call_map'[q][i] = call_map'[r][j]
          => q = r /\ i = j
  BY <1>3, <1>5 DEF HInv, CallbackHeldOnce
<1>9. \A q, r \in Peers, d \in Calls :
        Delivering(q, d)' => /\ \A i \in Ids : call_map'[r][i] # d
                             /\ Delivering(r, d)' => q = r
  BY <1>3, <1>4, <1>5 DEF HInv, CallbackHeldOnce
<1> QED BY <1>7, <1>8, <1>9 DEF CallbackHeldOnce

\* finish_call under the lock: the callback changes hands.
LEMMA FinishCallHeld ==
  ASSUME HInv, NEW p \in Peers, FinishCall(p)
  PROVE  CallbackHeldOnce'
<1> DEFINE m == Head(inbox[p])
           c == call_map[p][m.id]
           l == [at |-> "deliver", type |-> m.type, call |-> c,
                 for |-> m.call]
<1>1. m.id \in Ids
  <2>1. m \in AnswerMsgs
    BY QueuesType, PopType, HeadOfKind DEF HInv, FinishCall, Receives
  <2> QED BY <2>1 DEF AnswerMsgs
<1>2. listener[p] = Idle /\ UNCHANGED outcome
  BY DEF FinishCall, Receives
<1>3. CASE c = NoCall
  <2>1. UNCHANGED <<listener, call_map>>
    BY <1>3 DEF FinishCall
  <2> QED BY <1>2, <2>1, QuietStep DEF Quiet
<1>4. CASE c # NoCall
  <2>1. /\ call_map' = [call_map EXCEPT ![p][m.id] = NoCall]
        /\ listener' = [listener EXCEPT ![p] = l]
    BY <1>4 DEF FinishCall
  <2>2. c \in Calls
    BY <1>1, <1>4 DEF HInv, TypeOK
  <2>3. \A q \in Peers, i \in Ids :
          call_map'[q][i] = IF q = p /\ i = m.id THEN NoCall
                            ELSE call_map[q][i]
    BY <1>1, <2>1 DEF HInv, TypeOK
  <2>4. \A q \in Peers, d \in Calls :
          Delivering(q, d)' <=> IF q = p THEN d = c ELSE Delivering(q, d)
    BY <2>1 DEF HInv, TypeOK, Delivering
  <2>5. \A d \in Calls : ~Delivering(p, d)
    BY <1>2 DEF Delivering, Idle
  <2>6. /\ outcome[c] = "pending"
        /\ \A q \in Peers : ~Delivering(q, c)
        /\ \A q \in Peers, i \in Ids :
             call_map[q][i] = c => q = p /\ i = m.id
    BY <1>1, <1>4, <2>2 DEF HInv, CallbackHeldOnce
  <2> DEFINE k == m.id
  <2>7. k \in Ids /\ call_map[p][k] = c
    BY <1>1
  <2> HIDE DEF m, c, l, k
  <2>8. \A d \in Calls :
          outcome'[d] = "pending" <=>
            \/ \E q \in Peers, i \in Ids : call_map'[q][i] = d
            \/ \E q \in Peers : Delivering(q, d)'
    <3> TAKE d \in Calls
    <3>1. CASE d = c
      BY <1>2, <2>4, <2>6, <3>1
    <3>2. CASE d # c
      <4>1. \A q \in Peers, i \in Ids :
              call_map'[q][i] = d <=> call_map[q][i] = d
        BY <2>3, <2>7, <3>2, NoCallAssumption DEF k
      <4>2. \A q \in Peers : Delivering(q, d)' <=> Delivering(q, d)
        BY <2>4, <2>5, <3>2
      <4> QED BY <1>2, <4>1, <4>2 DEF HInv, CallbackHeldOnce
    <3> QED BY <3>1, <3>2
  <2>9. \A q, r \in Peers, i, j \in Ids :
          call_map'[q][i] # NoCall /\ call_map'[q][i] = call_map'[r][j]
            => q = r /\ i = j
    BY <2>3 DEF HInv, CallbackHeldOnce
  <2>10. \A q, r \in Peers, d \in Calls :
           Delivering(q, d)' => /\ \A i \in Ids : call_map'[r][i] # d
                                /\ Delivering(r, d)' => q = r
    BY <2>2, <2>3, <2>4, <2>6, NoCallAssumption DEF HInv, CallbackHeldOnce, k
  <2> QED BY <2>8, <2>9, <2>10 DEF CallbackHeldOnce
<1> QED BY <1>3, <1>4

\* The invocation: the last place that held the callback lets it go.
LEMMA DeliverHeld ==
  ASSUME HInv, NEW p \in Peers, Deliver(p)
  PROVE  CallbackHeldOnce'
<1> DEFINE c == listener[p].call
           t == listener[p].type
<1>1. c \in Calls /\ t \in AnswerTypes
  BY ListenerAt DEF HInv, Deliver, TypeOK
<1>2. /\ UNCHANGED call_map
      /\ outcome' = [outcome EXCEPT ![c] = t]
      /\ listener' = [listener EXCEPT ![p] = Idle]
      /\ Delivering(p, c)
  BY DEF Deliver, Delivering
<1>3. \A q \in Peers, d \in Calls :
        Delivering(q, d)' <=> q # p /\ Delivering(q, d)
  BY <1>2 DEF HInv, TypeOK, Delivering, Idle
<1>4. \A d \in Calls : Delivering(p, d) => d = c
  BY DEF Delivering
<1>5. /\ \A q \in Peers, i \in Ids : call_map[q][i] # c
      /\ \A q \in Peers : Delivering(q, c) => q = p
  BY <1>1, <1>2 DEF HInv, CallbackHeldOnce
<1>6. \A d \in Calls :
        outcome'[d] = "pending" <=> d # c /\ outcome[d] = "pending"
  <2>1. t # "pending"
    BY <1>1 DEF AnswerTypes
  <2> HIDE DEF c, t
  <2> QED BY <1>1, <1>2, <2>1 DEF HInv, TypeOK
<1> HIDE DEF c, t
<1> QED BY <1>1, <1>2, <1>3, <1>4, <1>5, <1>6 DEF HInv, CallbackHeldOnce

\* ~Peer: every callback of the peer is destroyed with its map.
LEMMA DestroyHeld ==
  ASSUME HInv, NEW p \in Peers, Destroy(p)
  PROVE  CallbackHeldOnce'
<1>1. \A q \in Peers, i \in Ids :
        call_map'[q][i] = IF q = p THEN NoCall ELSE call_map[q][i]
  BY DEF HInv, TypeOK, Destroy
<1>2. \A q \in Peers, d \in Calls : Delivering(q, d)' <=> Delivering(q, d)
  BY DEF Destroy, Delivering
<1>3. \A d \in Calls :
        outcome'[d] = IF \E i \in Ids : call_map[p][i] = d
                      THEN "dropped" ELSE outcome[d]
  BY DEF Destroy
<1> QED BY <1>1, <1>2, <1>3, NoCallAssumption DEF HInv, CallbackHeldOnce

LEMMA ServeQuiet ==
  ASSUME NEW p \in Peers, Receives(p, "request"), NEW m, NEW type,
         StartHandler(p, m) \/ AnswerAtOnce(p, m, type)
  PROVE  Quiet(p)
  BY DEF Receives, StartHandler, AnswerAtOnce, Quiet, Idle, Handling

LEMMA HeldStep == HInv /\ [Next]_vars => CallbackHeldOnce'
<1> SUFFICES ASSUME HInv, [Next]_vars PROVE CallbackHeldOnce'
  OBVIOUS
<1>1. CASE LinkBreak \/ UNCHANGED vars
  <2>1. Client \in Peers
    BY DEF Peers
  <2> QED BY <1>1, <2>1, QuietStep DEF LinkBreak, vars, Quiet
<1>2. ASSUME NEW p \in Peers, Application(p) PROVE CallbackHeldOnce'
  <2>1. ASSUME NEW c \in Calls, Call(p, c) \/ Discover(p, c)
        PROVE  CallbackHeldOnce'
    <3>1. 0 \in Ids
      BY IdSpaceAssumption DEF Ids
    <3> QED BY <2>1, <3>1, IssueHeld DEF Call, Discover, Ops
  <2>2. ASSUME NEW c \in Calls, CallDisconnected(p, c)
        PROVE  CallbackHeldOnce'
    <3>1. /\ UNCHANGED <<call_map, listener>>
          /\ outcome[c] = "idle"
          /\ outcome' = [outcome EXCEPT ![c] = "disconnected"]
      BY <2>2 DEF CallDisconnected
    <3>2. \A d \in Calls : outcome'[d] = "pending" <=> outcome[d] = "pending"
      BY <3>1 DEF HInv, TypeOK
    <3>3. \A q \in Peers, d \in Calls : Delivering(q, d)' <=> Delivering(q, d)
      BY <3>1 DEF Delivering
    <3> QED BY <3>1, <3>2, <3>3 DEF HInv, CallbackHeldOnce
  <2>3. ASSUME NEW c \in Calls, NEW name \in Ids, CallCallback(p, c, name)
        PROVE  CallbackHeldOnce'
    BY <2>3, IssueHeld DEF CallCallback, Ops
  <2>4. ASSUME RegCallback(p) \/ \E name \in Ids : UnregCallback(p, name)
        PROVE  CallbackHeldOnce'
    BY <2>4, QuietStep DEF RegCallback, UnregCallback, Quiet
  <2> QED BY <1>2, <2>1, <2>2, <2>3, <2>4, DestroyHeld DEF Application
<1>3. ASSUME NEW p \in Peers, Receive(p) PROVE CallbackHeldOnce'
  <2>1. CASE OnMethodCall(p) \/ OnDiscover(p) \/ OnCallback(p)
    <3>1. Quiet(p)
      BY <2>1, ServeQuiet DEF OnMethodCall, OnDiscover, OnCallback
    <3> QED BY <2>1, <3>1, QuietStep DEF OnMethodCall, OnDiscover, OnCallback
  <2> QED BY <1>3, <2>1, FinishCallHeld DEF Receive
<1>4. ASSUME NEW p \in Peers, Handle(p) \/ CatchException(p)
      PROVE  CallbackHeldOnce'
  <2>1. Quiet(p)
    BY <1>4 DEF Handle, HandlerAnswer, HandlerKeep, HandlerReturn,
                HandlerThrow, CatchException, Quiet, Idle, Handling
  <2> QED BY <1>4, <2>1, QuietStep
          DEF Handle, HandlerAnswer, HandlerKeep, HandlerReturn,
              HandlerThrow, CatchException
<1>5. ASSUME NEW p \in Peers, FinishRequest(p) \/ OnClose(p)
      PROVE  CallbackHeldOnce'
  BY <1>5, QuietStep DEF FinishRequest, OnClose, Quiet
<1> QED BY <1>1, <1>2, <1>3, <1>4, <1>5, DeliverHeld DEF Next

\* A response callback is in one place from the call to its invocation, for
\* any number of calls and even after _call_id has wrapped round.
THEOREM HeldOnce == Spec => []CallbackHeldOnce
<1>1. Init => HInv
  BY InitType, InitHeld DEF HInv
<1>2. HInv /\ [Next]_vars => HInv'
  BY TypeStep, HeldStep DEF HInv
<1>3. HInv => CallbackHeldOnce
  BY DEF HInv
<1> QED BY <1>1, <1>2, <1>3, PTL DEF Spec

-----------------------------------------------------------------------------
(* The outcome of a call is settled once.  Three steps write outcome: Issue *)
(* and Destroy touch calls with an entry in _call_map, Deliver the call the *)
(* listener holds, and by CallbackHeldOnce all of these are pending.        *)

LEMMA FinalStep ==
  ASSUME HInv, [Next]_vars, NEW c \in Calls, outcome[c] \in Final
  PROVE  outcome'[c] = outcome[c]
<1>1. outcome[c] # "pending" /\ outcome[c] # "idle"
  BY DEF Final, AnswerTypes
<1>2. /\ \A p \in Peers, i \in Ids : call_map[p][i] # c
      /\ \A p \in Peers : ~Delivering(p, c)
  BY <1>1 DEF HInv, CallbackHeldOnce
<1>3. ASSUME NEW p \in Peers, Application(p) PROVE outcome'[c] = outcome[c]
  <2>1. ASSUME NEW d \in Calls, NEW op, NEW name, Issue(p, d, op, name)
        PROVE  outcome'[c] = outcome[c]
    <3>1. call_id[p] % IdSpace \in Ids
      BY IdInRange DEF HInv, TypeOK
    <3>2. c # d
      BY <1>1, <2>1 DEF Issue
    <3> QED BY <1>2, <2>1, <3>1, <3>2 DEF Issue
  <2>2. ASSUME NEW d \in Calls, CallDisconnected(p, d)
        PROVE  outcome'[c] = outcome[c]
    BY <1>1, <2>2 DEF CallDisconnected, HInv, TypeOK
  <2>3. CASE Destroy(p)
    BY <1>2, <2>3 DEF Destroy
  <2>4. CASE RegCallback(p) \/ \E name \in Ids : UnregCallback(p, name)
    BY <2>4 DEF RegCallback, UnregCallback
  <2> QED BY <1>3, <2>1, <2>2, <2>3, <2>4
          DEF Application, Call, Discover, CallCallback
<1>4. ASSUME NEW p \in Peers, Deliver(p) PROVE outcome'[c] = outcome[c]
  <2>1. listener[p].call \in Calls /\ listener[p].call # c
    BY <1>2, <1>4, ListenerAt DEF Deliver, Delivering, HInv, TypeOK
  <2> QED BY <1>4, <2>1 DEF Deliver, HInv, TypeOK
<1>5. ASSUME NEW p \in Peers,
             Receive(p) \/ Handle(p) \/ CatchException(p)
               \/ FinishRequest(p) \/ OnClose(p)
      PROVE  UNCHANGED outcome
  BY <1>5 DEF Receive, OnMethodCall, OnDiscover, OnCallback, FinishCall,
              Handle, HandlerAnswer, HandlerKeep, HandlerReturn,
              HandlerThrow, CatchException, FinishRequest, OnClose
<1>6. CASE LinkBreak \/ UNCHANGED vars
  BY <1>6 DEF LinkBreak, vars
<1> QED BY <1>3, <1>4, <1>5, <1>6 DEF Next

\* A late, second or stray answer, the reuse of an id, a disconnect or the
\* end of the Peer never changes an outcome the issuer has been told.
THEOREM OutcomeFinality == Spec => OutcomeIsFinal
<1>1. Init => HInv
  BY InitType, InitHeld DEF HInv
<1>2. HInv /\ [Next]_vars => HInv'
  BY TypeStep, HeldStep DEF HInv
<1>3. HInv /\ [Next]_vars
        => [\A c \in Calls : outcome[c] \in Final => outcome'[c] = outcome[c]]_vars
  BY FinalStep
<1> QED BY <1>1, <1>2, <1>3, PTL DEF Spec, OutcomeIsFinal

=============================================================================
