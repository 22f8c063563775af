-------------------------- MODULE RpcAnswersProofs --------------------------
(***************************************************************************)
(* Proofs about the answers of Rpc, for any calls and bounds: no call is   *)
(* forgotten or answered once too often, whatever ids are used; and, as    *)
(* long as _call_id has not wrapped round, answers find their calls, names *)
(* stay retired and Rpc implements RpcPromise.                             *)
(***************************************************************************)
EXTENDS RpcProofs

\* The messages about a call, in a queue.
Asks(m, c) == m.kind = "request" /\ m.call = c
Answers(m, c) == m.kind = "answer" /\ m.call = c
AskedIn(s, c) == \E n \in 1 .. Len(s) : Asks(s[n], c)
AnsweredIn(s, c) == \E n \in 1 .. Len(s) : Answers(s[n], c)
AskedOnce(s, c) ==
  \A n, k \in 1 .. Len(s) : Asks(s[n], c) /\ Asks(s[k], c) => n = k
Has(s, kind, i, c) ==
  \E n \in 1 .. Len(s) : s[n].kind = kind /\ s[n].id = i /\ s[n].call = c

\* What q's listener does for a call, and the Requests kept for it.
Handles(q, c) == listener[q].at = "handler" /\ listener[q].req.call = c
Owes(q, c) == Handles(q, c) /\ ~listener[q].sent
Catches(q, c) == listener[q].at = "catch" /\ listener[q].req.call = c
Keeps(q, c) == \E r \in requests[q] : r.call = c

-----------------------------------------------------------------------------
(* The invariants.                                                         *)

\* How far c has come. It is asked for, then handled, then perhaps caught,
\* by one peer; its Request is in one place; and the answers already given
\* are those that the remaining places do not owe.
Accounted(c) ==
  /\ outcome[c] = "idle" =>
       /\ answers[c] = <<>> /\ c \notin threw
       /\ \A q \in Peers : /\ ~AskedIn(inbox[q], c) /\ ~Handles(q, c)
                           /\ ~Catches(q, c) /\ ~Keeps(q, c)
  /\ \A q \in Peers : AskedOnce(inbox[q], c)
  /\ \A q, r \in Peers :
       AskedIn(inbox[q], c) =>
         /\ AskedIn(inbox[r], c) => q = r
         /\ ~Handles(r, c) /\ ~Catches(r, c) /\ ~Keeps(r, c)
         /\ answers[c] = <<>> /\ c \notin threw
  /\ \A q, r \in Peers :
       Handles(q, c) => /\ Handles(r, c) => q = r
                        /\ ~Catches(r, c) /\ c \notin threw
                        /\ Owes(q, c) => ~Keeps(r, c) /\ answers[c] = <<>>
  /\ \A q, r \in Peers : Catches(q, c) /\ Catches(r, c) => q = r
  /\ \A q \in Peers : Catches(q, c) => c \in threw /\ Len(answers[c]) <= 1
  /\ \A q, r \in Peers : Keeps(q, c) /\ Keeps(r, c) => q = r
  /\ \A q \in Peers : \A r, s \in requests[q] :
       r.call = c /\ s.call = c => r = s
  /\ \A q \in Peers : Keeps(q, c) =>
       /\ Len(answers[c]) <= 1
       /\ c \notin threw => answers[c] = <<>>
       /\ \A r \in Peers : Catches(r, c) => answers[c] = <<>>
  /\ Len(answers[c]) <= IF c \in threw THEN 2 ELSE 1

AInv == TypeOK /\ \A c \in Calls : Accounted(c)

\* What q holds, and what it is to serve, for the id i of the other peer.
Holds(q, i, c) ==
  \/ /\ listener[q].at \in {"handler", "catch"}
     /\ listener[q].req.id = i
     /\ listener[q].req.call = c
  \/ \E r \in requests[q] : r.id = i /\ r.call = c
Due(q, i, c) == Has(inbox[q], "request", i, c) \/ Holds(q, i, c)

\* Something carries the id i of peer p for the call c.
Carries(p, i, c) ==
  \/ call_map[p][i] = c
  \/ Due(Other(p), i, c)
  \/ Has(inbox[p], "answer", i, c)

\* Before the counter wraps round an id is used for one call or one name.
IdsDiffer ==
  /\ \A p \in Peers, i \in Ids, c \in Calls :
       Carries(p, i, c) => i < call_id[p] /\ outcome[c] # "idle"
  /\ \A p \in Peers, i \in Ids, c, d \in Calls :
       Carries(p, i, c) /\ Carries(p, i, d) => c = d
  /\ \A p, q \in Peers, i, j \in Ids, c \in Calls :
       Carries(p, i, c) /\ Carries(q, j, c) => p = q /\ i = j
  /\ \A p \in Peers : \A name \in cb_map[p] \cup retired[p] :
       name < call_id[p]

IInv == HInv /\ IdsDiffer /\ AnswersMatchCalls /\ NamesStayRetired

\* The first answer to c in s has this type.
FirstAnswerIs(s, c, type) ==
  \A n \in 1 .. Len(s) :
    Answers(s[n], c) =>
      s[n].type = type \/ \E k \in 1 .. n - 1 : Answers(s[k], c)

Owns(p, c) == \E i \in Ids : call_map[p][i] = c

\* The first answer to a call is on its way to the callback or in its hands.
VerdictOnItsWay(p, c) ==
  /\ Owns(p, c) =>
       /\ AnsweredIn(inbox[p], c) =>
            /\ answers[c] # <<>>
            /\ FirstAnswerIs(inbox[p], c, Head(answers[c]))
       /\ answers[c] # <<>> /\ Delivers(p) => AnsweredIn(inbox[p], c)
  /\ Delivering(p, c) =>
       answers[c] # <<>> /\ listener[p].type = Head(answers[c])

\* A call somebody is to answer first is pending, unless its issuer is gone.
Awaited(q, c) ==
  (\E i \in Ids : Due(q, i, c)) =>
    \/ outcome[c] = "pending"
    \/ answers[c] # <<>>
    \/ peer[Other(q)] = "destroyed"

RInv ==
  /\ IInv
  /\ AInv
  /\ \A p \in Peers, c \in Calls : VerdictOnItsWay(p, c) /\ Awaited(p, c)

-----------------------------------------------------------------------------
(* Queues.                                                                 *)

LEMMA AppendIs ==
  ASSUME NEW s \in Seq(Msgs), NEW m \in Msgs
  PROVE  /\ Append(s, m) \in Seq(Msgs)
         /\ Len(Append(s, m)) = Len(s) + 1 /\ Len(s) \in Nat
         /\ \A n \in 1 .. Len(s) : Append(s, m)[n] = s[n]
         /\ Append(s, m)[Len(s) + 1] = m
  BY AppendProperties

LEMMA TailIs ==
  ASSUME NEW s \in Seq(Msgs), s # <<>>
  PROVE  /\ Tail(s) \in Seq(Msgs)
         /\ Len(Tail(s)) = Len(s) - 1 /\ Len(s) \in Nat \ {0}
         /\ \A n \in 1 .. Len(s) - 1 : Tail(s)[n] = s[n + 1]
         /\ Head(s) = s[1]
  BY HeadTailProperties

LEMMA SubSeqIs ==
  ASSUME NEW s \in Seq(Msgs), NEW k \in 0 .. Len(s)
  PROVE  /\ SubSeq(s, 1, k) \in Seq(Msgs)
         /\ Len(SubSeq(s, 1, k)) = k
         /\ \A n \in 1 .. k : SubSeq(s, 1, k)[n] = s[n]
  BY SubSeqProperties

\* A message is sent.
LEMMA AskedAppend ==
  ASSUME NEW s \in Seq(Msgs), NEW m \in Msgs, NEW c
  PROVE  /\ AskedIn(Append(s, m), c) <=> AskedIn(s, c) \/ Asks(m, c)
         /\ AskedOnce(s, c) /\ (Asks(m, c) => ~AskedIn(s, c))
              => AskedOnce(Append(s, m), c)
<1> DEFINE t == Append(s, m)
<1>1. /\ Len(t) = Len(s) + 1 /\ Len(s) \in Nat
      /\ \A n \in 1 .. Len(s) : t[n] = s[n]
      /\ t[Len(s) + 1] = m
  BY AppendIs
<1> HIDE DEF t
<1>2. \A n \in 1 .. Len(t) : n \in 1 .. Len(s) \/ n = Len(s) + 1
  BY <1>1
<1>3. \A n \in 1 .. Len(s) : n \in 1 .. Len(t)
  BY <1>1
<1>4. Len(s) + 1 \in 1 .. Len(t)
  BY <1>1
<1>5. AskedIn(t, c) <=> AskedIn(s, c) \/ Asks(m, c)
  BY <1>1, <1>2, <1>3, <1>4 DEF AskedIn
<1>6. AskedOnce(s, c) /\ (Asks(m, c) => ~AskedIn(s, c)) => AskedOnce(t, c)
  BY <1>1, <1>2 DEF AskedOnce, AskedIn
<1> QED BY <1>5, <1>6 DEF t

\* The oldest is taken.
LEMMA AskedTail ==
  ASSUME NEW s \in Seq(Msgs), s # <<>>, NEW c
  PROVE  /\ AskedIn(Tail(s), c) => AskedIn(s, c)
         /\ AskedOnce(s, c) => AskedOnce(Tail(s), c)
         /\ AskedOnce(s, c) /\ Asks(Head(s), c) => ~AskedIn(Tail(s), c)
         /\ Asks(Head(s), c) => AskedIn(s, c)
<1>1. /\ \A n \in 1 .. Len(Tail(s)) :
           n + 1 \in 1 .. Len(s) /\ Tail(s)[n] = s[n + 1] /\ n + 1 # 1
      /\ \A n, k \in 1 .. Len(Tail(s)) : n + 1 = k + 1 => n = k
      /\ Head(s) = s[1] /\ 1 \in 1 .. Len(s)
  BY TailIs
<1> QED BY <1>1 DEF AskedIn, AskedOnce

\* The youngest are lost.
LEMMA AskedSubSeq ==
  ASSUME NEW s \in Seq(Msgs), NEW k \in 0 .. Len(s), NEW c
  PROVE  /\ AskedIn(SubSeq(s, 1, k), c) => AskedIn(s, c)
         /\ AskedOnce(s, c) => AskedOnce(SubSeq(s, 1, k), c)
<1>1. \A n \in 1 .. Len(SubSeq(s, 1, k)) :
        n \in 1 .. Len(s) /\ SubSeq(s, 1, k)[n] = s[n]
  BY SubSeqIs
<1> QED BY <1>1 DEF AskedIn, AskedOnce

-----------------------------------------------------------------------------
(* What is still owed to a call.                                           *)

\* No new place holds something that is to be answered for c.
Fewer(c) ==
  /\ \A q \in Peers :
       /\ AskedIn(inbox'[q], c) => AskedIn(inbox[q], c)
       /\ AskedOnce(inbox[q], c) => AskedOnce(inbox'[q], c)
       /\ Handles(q, c)' => Handles(q, c)
       /\ Owes(q, c)' => Owes(q, c)
       /\ Catches(q, c)' => Catches(q, c)
       /\ \A r \in requests'[q] : r.call = c => r \in requests[q]
  /\ outcome'[c] = "idle" => outcome[c] = "idle"
  /\ c \in threw' <=> c \in threw

LEMMA FewerKeeps ==
  ASSUME NEW c, Fewer(c)
  PROVE  \A q \in Peers : Keeps(q, c)' => Keeps(q, c)
BY DEF Fewer, Keeps

LEMMA NothingAnswered ==
  ASSUME NEW c, Accounted(c), Fewer(c), answers'[c] = answers[c]
  PROVE  Accounted(c)'
BY FewerKeeps DEF Fewer, Accounted

LEMMA AnswersAppend ==
  ASSUME NEW s \in Seq(AnswerTypes), NEW type \in AnswerTypes
  PROVE  /\ Append(s, type) # <<>>
         /\ Len(s) \in Nat /\ Len(Append(s, type)) = Len(s) + 1
         /\ s = <<>> <=> Len(s) = 0
BY AppendProperties, EmptySeq

\* One place that owes an answer, or adds one after a throw, has given it, or
\* tried to.
LEMMA OneAnswered ==
  ASSUME TypeOK, NEW c \in Calls, Accounted(c), Fewer(c),
         NEW type \in AnswerTypes,
         answers'[c] \in {answers[c], Append(answers[c], type)},
         NEW p \in Peers,
         \/ AskedIn(inbox[p], c) /\ ~AskedIn(inbox'[p], c)
         \/ Owes(p, c) /\ ~Owes(p, c)'
         \/ Catches(p, c) /\ ~Catches(p, c)'
         \/ Keeps(p, c) /\ ~Keeps(p, c)'
  PROVE  Accounted(c)'
<1>1. /\ Append(answers[c], type) # <<>>
      /\ Len(answers[c]) \in Nat
      /\ Len(Append(answers[c], type)) = Len(answers[c]) + 1
      /\ answers[c] = <<>> <=> Len(answers[c]) = 0
  BY AnswersAppend DEF TypeOK
<1>2. CASE answers'[c] = answers[c]
  BY <1>2, NothingAnswered
<1>3. CASE answers'[c] = Append(answers[c], type)
  <2>1. CASE AskedIn(inbox[p], c) /\ ~AskedIn(inbox'[p], c)
    BY <1>1, <1>3, <2>1, FewerKeeps DEF Fewer, Accounted, Owes
  <2>2. CASE Owes(p, c) /\ ~Owes(p, c)'
    BY <1>1, <1>3, <2>2, FewerKeeps DEF Fewer, Accounted, Owes
  <2>3. CASE Catches(p, c) /\ ~Catches(p, c)'
    BY <1>1, <1>3, <2>3, FewerKeeps DEF Fewer, Accounted, Owes
  <2>4. CASE Keeps(p, c) /\ ~Keeps(p, c)'
    BY <1>1, <1>3, <2>4, FewerKeeps DEF Fewer, Accounted, Owes
  <2> QED BY <2>1, <2>2, <2>3, <2>4
<1> QED BY <1>2, <1>3

\* Sending an answer disturbs nothing but the answers to its call.
LEMMA AnswerSent ==
  ASSUME TypeOK, NEW q \in [Peers -> Seq(Msgs)], NEW p \in Peers,
         NEW r \in Requests, NEW type \in AnswerTypes,
         SendAnswer(q, p, r, type), NEW c \in Calls
  PROVE  /\ \A k \in Peers :
              /\ AskedIn(inbox'[k], c) <=> AskedIn(q[k], c)
              /\ AskedOnce(q[k], c) => AskedOnce(inbox'[k], c)
         /\ answers'[c] \in {answers[c], Append(answers[c], type)}
         /\ c # r.call => answers'[c] = answers[c]
<1> DEFINE m == [kind |-> "answer", id |-> r.id, call |-> r.call,
                 type |-> type]
<1>1. r.call \in Calls /\ r.id \in Ids
  BY DEF Requests
<1>2. m \in Msgs /\ ~Asks(m, c)
  BY <1>1 DEF Msgs, AnswerMsgs, Asks
<1>3. inbox' = Push(q, p, m)
  BY DEF SendAnswer
<1> HIDE DEF m
<1>4. \A k \in Peers : inbox'[k] = q[k] \/ inbox'[k] = Append(q[k], m)
  BY <1>3 DEF Push
<1>5. ASSUME NEW k \in Peers
      PROVE  /\ AskedIn(inbox'[k], c) <=> AskedIn(q[k], c)
             /\ AskedOnce(q[k], c) => AskedOnce(inbox'[k], c)
  <2>1. q[k] \in Seq(Msgs)
    OBVIOUS
  <2>2. /\ AskedIn(Append(q[k], m), c) <=> AskedIn(q[k], c)
        /\ AskedOnce(q[k], c) => AskedOnce(Append(q[k], m), c)
    BY <1>2, <2>1, AskedAppend
  <2> QED BY <1>4, <2>2
<1>6. /\ answers'[c] \in {answers[c], Append(answers[c], type)}
      /\ c # r.call => answers'[c] = answers[c]
  BY <1>1 DEF SendAnswer, TypeOK
<1> QED BY <1>5, <1>6

\* Taking a message that asks for nothing disturbs nothing.
LEMMA Popped ==
  ASSUME TypeOK, NEW p \in Peers, inbox[p] # <<>>, NEW c
  PROVE  \A k \in Peers :
           LET s == Pop(inbox, p)[k] IN
             /\ AskedIn(s, c) => AskedIn(inbox[k], c)
             /\ AskedOnce(inbox[k], c) => AskedOnce(s, c)
             /\ k = p /\ AskedOnce(inbox[k], c) /\ Asks(Head(inbox[p]), c)
                  => ~AskedIn(s, c) /\ AskedIn(inbox[k], c)
<1>1. \A k \in Peers : /\ inbox[k] \in Seq(Msgs)
                       /\ Pop(inbox, p)[k] = IF k = p THEN Tail(inbox[p])
                                             ELSE inbox[k]
  BY QueuesType DEF Pop
<1> QED BY <1>1, AskedTail

-----------------------------------------------------------------------------
(* One answer, and one more after a throw: the actions.                    *)

LEMMA InitAccounted == Init => AInv
<1>1. ASSUME Init, NEW c \in Calls PROVE Accounted(c)
  <2>1. Len(<<>>) = 0
    OBVIOUS
  <2>2. \A q \in Peers : /\ inbox[q] = <<>> /\ ~Handles(q, c)
                         /\ ~Catches(q, c) /\ ~Keeps(q, c)
                         /\ requests[q] = {}
    BY <1>1 DEF Init, Handles, Catches, Keeps, Idle
  <2>3. ~AskedIn(<<>>, c) /\ AskedOnce(<<>>, c)
    BY <2>1 DEF AskedIn, AskedOnce
  <2> QED BY <1>1, <2>1, <2>2, <2>3 DEF Init, Accounted
<1> QED BY <1>1, InitType DEF AInv

LEMMA IssueAccounted ==
  ASSUME AInv, NEW p \in Peers, NEW c \in Calls, NEW op \in Ops,
         NEW name \in Ids, Issue(p, c, op, name), NEW d \in Calls
  PROVE  Accounted(d)'
<1> DEFINE id == call_id[p] % IdSpace
           m == [kind |-> "request", id |-> id, call |-> c, op |-> op,
                 name |-> name]
<1>1. TypeOK /\ Accounted(d)
  BY DEF AInv
<1>2. id \in Ids
  BY <1>1, IdInRange DEF TypeOK
<1>3. m \in Msgs /\ (Asks(m, d) <=> d = c)
  BY <1>2 DEF Msgs, RequestMsgs, Asks
<1>4. /\ inbox' = Push(inbox, p, m)
      /\ outcome[c] = "idle"
      /\ outcome'[d] = IF d = c THEN "pending"
                       ELSE IF d = call_map[p][id] THEN "dropped"
                       ELSE outcome[d]
      /\ UNCHANGED <<listener, requests, answers, threw>>
  BY DEF Issue
<1> HIDE DEF m, id
<1>5. \A k \in Peers : \/ inbox'[k] = inbox[k]
                       \/ k = Other(p) /\ inbox'[k] = Append(inbox[k], m)
  BY <1>1, <1>4, QueuesType DEF Push
<1>6. ASSUME NEW k \in Peers
      PROVE  /\ AskedIn(Append(inbox[k], m), d)
                   <=> AskedIn(inbox[k], d) \/ d = c
             /\ AskedOnce(inbox[k], d) /\ (d = c => ~AskedIn(inbox[k], d))
                  => AskedOnce(Append(inbox[k], m), d)
  <2>1. inbox[k] \in Seq(Msgs)
    BY <1>1, QueuesType
  <2> QED BY <1>3, <2>1, AskedAppend
<1>7. \A q \in Peers : /\ Handles(q, d)' <=> Handles(q, d)
                       /\ Owes(q, d)' <=> Owes(q, d)
                       /\ Catches(q, d)' <=> Catches(q, d)
                       /\ Keeps(q, d)' <=> Keeps(q, d)
                       /\ requests'[q] = requests[q]
  BY <1>4 DEF Handles, Owes, Catches, Keeps
<1>8. CASE d # c
  <2>1. Fewer(d) /\ answers'[d] = answers[d]
    BY <1>4, <1>5, <1>6, <1>7, <1>8 DEF Fewer
  <2> QED BY <1>1, <2>1, NothingAnswered
<1>9. CASE d = c
  <2>1. /\ answers'[d] = <<>> /\ d \notin threw' /\ Len(<<>>) = 0
        /\ outcome'[d] # "idle"
        /\ \A q \in Peers :
             /\ ~AskedIn(inbox[q], d) /\ AskedOnce(inbox[q], d)
             /\ ~Handles(q, d)' /\ ~Catches(q, d)' /\ ~Keeps(q, d)'
    BY <1>1, <1>4, <1>7, <1>9 DEF Accounted
  <2>2. \A q \in Peers : /\ AskedIn(inbox'[q], d) => q = Other(p)
                         /\ AskedOnce(inbox'[q], d)
    BY <1>5, <1>6, <2>1
  <2>3. \A q \in Peers : \A r, s \in requests'[q] :
          r.call = d /\ s.call = d => r = s
    BY <2>1 DEF Keeps
  <2> QED BY <2>1, <2>2, <2>3 DEF Accounted
<1> QED BY <1>8, <1>9

\* Steps that touch neither the inboxes nor the Requests.
LEMMA AsideAccounted ==
  ASSUME AInv, UNCHANGED <<inbox, listener, requests, answers, threw>>,
         NEW c \in Calls, outcome'[c] = "idle" => outcome[c] = "idle"
  PROVE  Accounted(c)'
<1>1. Fewer(c) /\ answers'[c] = answers[c]
  BY DEF Fewer, Handles, Owes, Catches
<1> QED BY <1>1, NothingAnswered DEF AInv

LEMMA ApplicationAccounted ==
  ASSUME AInv, NEW p \in Peers, Application(p), NEW c \in Calls
  PROVE  Accounted(c)'
<1>1. ASSUME NEW d \in Calls, Call(p, d) \/ Discover(p, d)
      PROVE  Accounted(c)'
  <2>1. 0 \in Ids
    BY IdSpaceAssumption DEF Ids
  <2> QED BY <1>1, <2>1, IssueAccounted DEF Call, Discover, Ops
<1>2. ASSUME NEW d \in Calls, NEW name \in Ids, CallCallback(p, d, name)
      PROVE  Accounted(c)'
  BY <1>2, IssueAccounted DEF CallCallback, Ops
<1>3. ASSUME NEW d \in Calls, CallDisconnected(p, d) PROVE Accounted(c)'
  <2>1. outcome'[c] = "idle" => outcome[c] = "idle"
    BY <1>3 DEF CallDisconnected, AInv, TypeOK
  <2> QED BY <1>3, <2>1, AsideAccounted DEF CallDisconnected
<1>4. CASE RegCallback(p) \/ \E name \in Ids : UnregCallback(p, name)
  BY <1>4, AsideAccounted DEF RegCallback, UnregCallback
<1>5. CASE Destroy(p)
  <2>1. \A q \in Peers : inbox'[q] = IF q = p THEN <<>> ELSE inbox[q]
    BY <1>5, QueuesType DEF AInv, Destroy
  <2>2. ~AskedIn(<<>>, c) /\ AskedOnce(<<>>, c)
    BY DEF AskedIn, AskedOnce
  <2>3. /\ UNCHANGED <<listener, requests, threw>>
        /\ answers'[c] = answers[c]
        /\ outcome'[c] = "idle" => outcome[c] = "idle"
    BY <1>5 DEF Destroy
  <2>4. Fewer(c)
    BY <2>1, <2>2, <2>3 DEF Fewer, Handles, Owes, Catches
  <2> QED BY <2>3, <2>4, NothingAnswered DEF AInv
<1> QED BY <1>1, <1>2, <1>3, <1>4, <1>5 DEF Application

\* The oldest message, a request, is served.
LEMMA ServeAccounted ==
  ASSUME AInv, NEW p \in Peers, Receives(p, "request"),
         NEW type \in AnswerTypes,
         \/ StartHandler(p, Head(inbox[p]))
         \/ AnswerAtOnce(p, Head(inbox[p]), type),
         UNCHANGED <<requests, outcome, threw>>, NEW c \in Calls
  PROVE  Accounted(c)'
<1> DEFINE m == Head(inbox[p])
           r == RequestOf(m)
<1>1. TypeOK /\ Accounted(c) /\ inbox[p] # <<>> /\ listener[p] = Idle
  BY DEF AInv, Receives
<1>2. m \in RequestMsgs /\ Pop(inbox, p) \in [Peers -> Seq(Msgs)]
  BY QueuesType, PopType, HeadOfKind DEF Receives, AInv
<1>3. r \in Requests /\ r.call = m.call /\ (Asks(m, c) <=> c = r.call)
  BY <1>2 DEF RequestOf, RequestMsgs, Requests, Asks
<1>4. \A k \in Peers :
        /\ AskedIn(Pop(inbox, p)[k], c) => AskedIn(inbox[k], c)
        /\ AskedOnce(inbox[k], c) => AskedOnce(Pop(inbox, p)[k], c)
        /\ k = p /\ c = r.call => /\ ~AskedIn(Pop(inbox, p)[k], c)
                                 /\ AskedIn(inbox[k], c)
  BY <1>1, <1>3, Popped DEF Accounted
<1>5. CASE StartHandler(p, m)
  <2>1. /\ inbox' = Pop(inbox, p) /\ answers'[c] = answers[c]
        /\ listener' = [listener EXCEPT ![p] = Handling(r, FALSE)]
    BY <1>5 DEF StartHandler
  <2>2. \A q \in Peers :
          /\ listener'[q] = IF q = p THEN Handling(r, FALSE) ELSE listener[q]
          /\ requests'[q] = requests[q]
    BY <1>1, <2>1 DEF TypeOK
  <2> HIDE DEF r
  <2>3. \A q \in Peers :
          /\ Handles(q, c)' <=> IF q = p THEN c = r.call ELSE Handles(q, c)
          /\ Owes(q, c)' <=> IF q = p THEN c = r.call ELSE Owes(q, c)
          /\ Catches(q, c)' <=> q # p /\ Catches(q, c)
          /\ Keeps(q, c)' <=> Keeps(q, c)
    BY <2>2 DEF Handles, Owes, Catches, Keeps, Handling
  <2>4. CASE c = r.call
    BY <1>1, <1>4, <2>1, <2>2, <2>3, <2>4 DEF Accounted
  <2>5. CASE c # r.call
    <3>1. Fewer(c)
      BY <1>4, <2>1, <2>2, <2>3, <2>5 DEF Fewer
    <3> QED BY <1>1, <2>1, <3>1, NothingAnswered
  <2> QED BY <2>4, <2>5
<1>6. CASE AnswerAtOnce(p, m, type)
  <2>1. SendAnswer(Pop(inbox, p), p, r, type) /\ UNCHANGED listener
    BY <1>6 DEF AnswerAtOnce
  <2> HIDE DEF r, m
  <2>2. /\ \A k \in Peers :
             /\ AskedIn(inbox'[k], c) <=> AskedIn(Pop(inbox, p)[k], c)
             /\ AskedOnce(Pop(inbox, p)[k], c) => AskedOnce(inbox'[k], c)
        /\ answers'[c] \in {answers[c], Append(answers[c], type)}
        /\ c # r.call => answers'[c] = answers[c]
    BY <1>1, <1>2, <1>3, <2>1, AnswerSent
  <2>3. Fewer(c)
    BY <1>4, <2>1, <2>2 DEF Fewer, Handles, Owes, Catches
  <2>4. CASE c = r.call
    BY <1>1, <1>4, <2>2, <2>3, <2>4, OneAnswered
  <2>5. CASE c # r.call
    BY <1>1, <2>2, <2>3, <2>5, NothingAnswered
  <2> QED BY <2>4, <2>5
<1> QED BY <1>5, <1>6

LEMMA ReceiveAccounted ==
  ASSUME AInv, NEW p \in Peers, Receive(p), NEW c \in Calls
  PROVE  Accounted(c)'
<1>1. CASE OnMethodCall(p)
  BY <1>1, ServeAccounted DEF OnMethodCall, AnswerTypes
<1>2. CASE OnDiscover(p)
  BY <1>2, ServeAccounted DEF OnDiscover, AnswerTypes
<1>3. CASE OnCallback(p)
  BY <1>3, ServeAccounted DEF OnCallback, AnswerTypes
<1>4. CASE FinishCall(p)
  <2>1. /\ inbox' = Pop(inbox, p) /\ inbox[p] # <<>>
        /\ UNCHANGED <<requests, outcome, answers, threw>>
        /\ \/ UNCHANGED listener
           \/ \E l : l.at = "deliver" /\ listener' = [listener EXCEPT ![p] = l]
    BY <1>4 DEF FinishCall, Receives
  <2>2. \A q \in Peers :
          listener'[q] = listener[q] \/ listener'[q].at = "deliver"
    BY <2>1 DEF AInv, TypeOK
  <2>3. \A k \in Peers :
          /\ AskedIn(inbox'[k], c) => AskedIn(inbox[k], c)
          /\ AskedOnce(inbox[k], c) => AskedOnce(inbox'[k], c)
    BY <2>1, Popped DEF AInv
  <2>4. Fewer(c)
    BY <2>1, <2>2, <2>3 DEF Fewer, Handles, Owes, Catches
  <2> QED BY <2>1, <2>4, NothingAnswered DEF AInv
<1> QED BY <1>1, <1>2, <1>3, <1>4 DEF Receive

\* The destructor answers for a handler that has not.
LEMMA RequestDestroyed ==
  ASSUME AInv, NEW p \in Peers, listener[p].at = "handler",
         DestroyRequest(p), NEW c \in Calls
  PROVE  /\ \A k \in Peers :
              /\ AskedIn(inbox'[k], c) <=> AskedIn(inbox[k], c)
              /\ AskedOnce(inbox[k], c) => AskedOnce(inbox'[k], c)
         /\ answers'[c] \in {answers[c], Append(answers[c], "result")}
         /\ ~Owes(p, c) => answers'[c] = answers[c]
<1>1. CASE listener[p].sent
  BY <1>1 DEF DestroyRequest
<1>2. CASE ~listener[p].sent
  <2>1. SendAnswer(inbox, p, listener[p].req, "result")
    BY <1>2 DEF DestroyRequest
  <2>2. listener[p].req \in Requests /\ TypeOK
    BY HandlingType DEF AInv
  <2>3. Owes(p, c) <=> c = listener[p].req.call
    BY <1>2 DEF Owes, Handles
  <2> QED BY <2>1, <2>2, <2>3, QueuesType, AnswerSent DEF AnswerTypes
<1> QED BY <1>1, <1>2

LEMMA HandleAccounted ==
  ASSUME AInv, NEW p \in Peers, Handle(p), NEW c \in Calls
  PROVE  Accounted(c)'
<1> DEFINE r == listener[p].req
<1>1. TypeOK /\ Accounted(c) /\ listener[p].at = "handler" /\ r \in Requests
  BY HandlingType
     DEF AInv, Handle, HandlerAnswer, HandlerKeep, HandlerReturn, HandlerThrow
<1>2. CASE HandlerAnswer(p)
  <2>1. PICK type \in AnswerTypes : SendAnswer(inbox, p, r, type)
    BY <1>2, HandlingType DEF HandlerAnswer, AInv
  <2>2. /\ \A q \in Peers :
             listener'[q] = IF q = p THEN Handling(r, TRUE) ELSE listener[q]
        /\ UNCHANGED <<requests, outcome, threw>> /\ ~listener[p].sent
    BY <1>1, <1>2 DEF HandlerAnswer, TypeOK
  <2>3. \A q \in Peers :
          /\ Handles(q, c)' <=> Handles(q, c)
          /\ Owes(q, c)' <=> q # p /\ Owes(q, c)
          /\ Catches(q, c)' <=> Catches(q, c)
    BY <1>1, <2>2 DEF Handles, Owes, Catches, Handling
  <2>4. Owes(p, c) <=> c = r.call
    BY <1>1, <2>2 DEF Owes, Handles
  <2> HIDE DEF r
  <2>5. /\ \A k \in Peers :
             /\ AskedIn(inbox'[k], c) <=> AskedIn(inbox[k], c)
             /\ AskedOnce(inbox[k], c) => AskedOnce(inbox'[k], c)
        /\ answers'[c] \in {answers[c], Append(answers[c], type)}
        /\ c # r.call => answers'[c] = answers[c]
    BY <1>1, <2>1, QueuesType, AnswerSent
  <2>6. Fewer(c)
    BY <2>2, <2>3, <2>5 DEF Fewer
  <2>7. CASE c = r.call
    BY <1>1, <2>3, <2>4, <2>5, <2>6, <2>7, OneAnswered
  <2>8. CASE c # r.call
    BY <1>1, <2>5, <2>6, <2>8, NothingAnswered
  <2> QED BY <2>7, <2>8
<1>3. CASE HandlerKeep(p)
  <2>0. \A q \in Peers :
          requests'[q] = IF q = p THEN requests[q] \cup {r} ELSE requests[q]
    BY <1>1, <1>3 DEF HandlerKeep, TypeOK
  <2>1. /\ \A q \in Peers :
             listener'[q] = IF q = p THEN Handling(r, TRUE) ELSE listener[q]
        /\ UNCHANGED <<inbox, outcome, answers, threw>> /\ ~listener[p].sent
    BY <1>1, <1>3 DEF HandlerKeep, TypeOK
  <2>2. \A q \in Peers :
          /\ Handles(q, c)' <=> Handles(q, c)
          /\ Owes(q, c)' <=> q # p /\ Owes(q, c)
          /\ Catches(q, c)' <=> Catches(q, c)
    BY <1>1, <2>1 DEF Handles, Owes, Catches, Handling
  <2>3. Owes(p, c) <=> c = r.call
    BY <1>1, <2>1 DEF Owes, Handles
  <2> HIDE DEF r
  <2>4. CASE c = r.call
    <3>1. /\ answers[c] = <<>> /\ c \notin threw
          /\ outcome[c] # "idle" /\ Len(<<>>) = 0
          /\ \A q \in Peers : /\ ~AskedIn(inbox[q], c) /\ ~Catches(q, c)
                              /\ ~Keeps(q, c)
                              /\ Handles(q, c) => q = p
      BY <1>1, <2>3, <2>4 DEF Accounted, Owes
    <3>2. \A q \in Peers : \A x \in requests'[q] :
            x.call = c => q = p /\ x = r
      <4>1. \A q \in Peers : \A x \in requests[q] : x.call # c
        BY <3>1 DEF Keeps
      <4> QED BY <2>0, <4>1
    <3>3. \A q \in Peers :
            /\ AskedOnce(inbox'[q], c) /\ ~AskedIn(inbox'[q], c)
            /\ ~Owes(q, c)' /\ ~Catches(q, c)'
            /\ Handles(q, c)' => q = p
            /\ Keeps(q, c)' => q = p
      <4>1. \A q \in Peers : Keeps(q, c)' => q = p
        BY <3>2 DEF Keeps
      <4>2. \A q \in Peers : AskedOnce(inbox[q], c)
        BY <1>1 DEF Accounted
      <4>3. \A q \in Peers : ~Owes(q, c)'
        BY <2>2, <3>1 DEF Owes
      <4> QED BY <2>1, <2>2, <3>1, <4>1, <4>2, <4>3
    <3>4. outcome'[c] # "idle" /\ answers'[c] = <<>> /\ c \notin threw'
      BY <2>1, <3>1
    <3> QED BY <3>1, <3>2, <3>3, <3>4 DEF Accounted
  <2>5. CASE c # r.call
    <3>1. \A q \in Peers : \A x \in requests'[q] :
            x.call = c => x \in requests[q]
      BY <2>0, <2>5
    <3>2. Fewer(c) /\ answers'[c] = answers[c]
      BY <2>1, <2>2, <3>1 DEF Fewer
    <3> QED BY <1>1, <3>2, NothingAnswered
  <2> QED BY <2>4, <2>5
<1>4. CASE HandlerReturn(p)
  <2>1. /\ \A q \in Peers :
             listener'[q] = IF q = p THEN Idle ELSE listener[q]
        /\ UNCHANGED <<requests, outcome, threw>>
        /\ DestroyRequest(p)
    BY <1>1, <1>4 DEF HandlerReturn, TypeOK
  <2>2. \A q \in Peers :
          /\ Handles(q, c)' <=> q # p /\ Handles(q, c)
          /\ Owes(q, c)' <=> q # p /\ Owes(q, c)
          /\ Catches(q, c)' <=> q # p /\ Catches(q, c)
    BY <2>1 DEF Handles, Owes, Catches, Idle
  <2>3. Fewer(c)
    BY <1>1, <2>1, <2>2, RequestDestroyed DEF Fewer
  <2>4. CASE Owes(p, c)
    BY <1>1, <2>1, <2>2, <2>3, <2>4, RequestDestroyed, OneAnswered
       DEF AnswerTypes
  <2>5. CASE ~Owes(p, c)
    BY <1>1, <2>1, <2>3, <2>5, RequestDestroyed, NothingAnswered
  <2> QED BY <2>4, <2>5
<1>5. CASE HandlerThrow(p)
  <2>1. /\ \A q \in Peers :
             listener'[q] = IF q = p THEN [at |-> "catch", req |-> r]
                            ELSE listener[q]
        /\ UNCHANGED <<requests, outcome>>
        /\ threw' = threw \cup {r.call}
        /\ DestroyRequest(p)
    BY <1>1, <1>5 DEF HandlerThrow, TypeOK
  <2>2. \A q \in Peers :
          /\ Handles(q, c)' <=> q # p /\ Handles(q, c)
          /\ Owes(q, c)' <=> q # p /\ Owes(q, c)
          /\ Catches(q, c)' <=> IF q = p THEN c = r.call ELSE Catches(q, c)
          /\ Keeps(q, c)' <=> Keeps(q, c)
    BY <2>1 DEF Handles, Owes, Catches, Keeps
  <2>3. Handles(p, c) <=> c = r.call
    BY <1>1 DEF Handles
  <2>4. /\ \A k \in Peers :
             /\ AskedIn(inbox'[k], c) <=> AskedIn(inbox[k], c)
             /\ AskedOnce(inbox[k], c) => AskedOnce(inbox'[k], c)
        /\ answers'[c] \in {answers[c], Append(answers[c], "result")}
        /\ ~Owes(p, c) => answers'[c] = answers[c]
    BY <1>1, <2>1, RequestDestroyed
  <2> HIDE DEF r
  <2>5. CASE c = r.call
    <3>1. /\ outcome[c] # "idle" /\ c \notin threw
          /\ Len(answers[c]) <= 1
          /\ \A q \in Peers :
               /\ ~AskedIn(inbox[q], c) /\ ~Catches(q, c)
               /\ Handles(q, c) => q = p
               /\ Owes(p, c) => ~Keeps(q, c) /\ answers[c] = <<>>
               /\ Keeps(q, c) => answers[c] = <<>>
      BY <1>1, <2>3, <2>5 DEF Accounted
    <3>2. /\ Len(answers'[c]) <= 1 /\ Len(answers'[c]) \in Nat
          /\ \A q \in Peers : Keeps(q, c) => answers'[c] = <<>>
      <4>1. /\ Len(answers[c]) \in Nat
            /\ Len(Append(answers[c], "result")) = Len(answers[c]) + 1
            /\ answers[c] = <<>> <=> Len(answers[c]) = 0
        BY <1>1, AnswersAppend DEF TypeOK, AnswerTypes
      <4> QED BY <2>4, <3>1, <4>1
    <3>3. /\ c \in threw' /\ outcome'[c] # "idle"
          /\ Len(answers'[c]) <= IF c \in threw' THEN 2 ELSE 1
      BY <2>1, <2>5, <3>1, <3>2
    <3>4. \A q \in Peers :
            /\ ~AskedIn(inbox'[q], c) /\ AskedOnce(inbox'[q], c)
            /\ ~Handles(q, c)'
            /\ Catches(q, c)' => q = p
      BY <1>1, <2>2, <2>4, <3>1 DEF Accounted
    <3>5. \A q \in Peers : requests'[q] = requests[q]
      BY <2>1
    <3>6. /\ \A q, k \in Peers : Keeps(q, c)' /\ Keeps(k, c)' => q = k
          /\ \A q \in Peers : Keeps(q, c)' => answers'[c] = <<>>
          /\ \A q \in Peers : \A x, y \in requests'[q] :
               x.call = c /\ y.call = c => x = y
      BY <1>1, <2>2, <3>2, <3>5 DEF Accounted
    <3> QED BY <3>2, <3>3, <3>4, <3>6 DEF Accounted
  <2>6. CASE c # r.call
    <3>1. answers'[c] = answers[c]
      BY <2>3, <2>4, <2>6 DEF Owes
    <3>2. Fewer(c)
      BY <2>1, <2>2, <2>4, <2>6 DEF Fewer
    <3> QED BY <1>1, <3>1, <3>2, NothingAnswered
  <2> QED BY <2>5, <2>6
<1> QED BY <1>2, <1>3, <1>4, <1>5 DEF Handle

\* The catch adds its answer, whether or not there was one.
LEMMA CatchAccounted ==
  ASSUME AInv, NEW p \in Peers, CatchException(p), NEW c \in Calls
  PROVE  Accounted(c)'
<1> DEFINE r == listener[p].req
<1>1. TypeOK /\ Accounted(c) /\ listener[p].at = "catch" /\ r \in Requests
  BY ListenerAt DEF AInv, TypeOK, CatchException
<1>2. /\ \A q \in Peers :
           listener'[q] = IF q = p THEN Idle ELSE listener[q]
      /\ UNCHANGED <<requests, outcome, threw>>
      /\ SendAnswer(inbox, p, r, "exception")
  BY <1>1 DEF CatchException, TypeOK
<1>3. Catches(p, c) <=> c = r.call
  BY <1>1 DEF Catches
<1> HIDE DEF r
<1>4. \A q \in Peers : /\ Handles(q, c)' <=> q # p /\ Handles(q, c)
                       /\ Owes(q, c)' <=> q # p /\ Owes(q, c)
                       /\ Catches(q, c)' <=> q # p /\ Catches(q, c)
  BY <1>2 DEF Handles, Owes, Catches, Idle
<1>5. /\ \A k \in Peers :
           /\ AskedIn(inbox'[k], c) <=> AskedIn(inbox[k], c)
           /\ AskedOnce(inbox[k], c) => AskedOnce(inbox'[k], c)
      /\ answers'[c] \in {answers[c], Append(answers[c], "exception")}
      /\ c # r.call => answers'[c] = answers[c]
  BY <1>1, <1>2, QueuesType, AnswerSent DEF AnswerTypes
<1>6. Fewer(c)
  BY <1>2, <1>4, <1>5 DEF Fewer
<1>7. CASE c = r.call
  BY <1>1, <1>3, <1>4, <1>5, <1>6, <1>7, OneAnswered DEF AnswerTypes
<1>8. CASE c # r.call
  BY <1>1, <1>5, <1>6, <1>8, NothingAnswered
<1> QED BY <1>7, <1>8

LEMMA FinishRequestAccounted ==
  ASSUME AInv, NEW p \in Peers, FinishRequest(p), NEW c \in Calls
  PROVE  Accounted(c)'
<1>1. TypeOK /\ Accounted(c)
  BY DEF AInv
<1>2. PICK r \in requests[p] :
        /\ \E type \in HandlerAnswers(r.op) : SendAnswer(inbox, p, r, type)
        /\ requests' = [requests EXCEPT ![p] = @ \ {r}]
  BY DEF FinishRequest
<1>3. r \in Requests
  BY <1>1 DEF TypeOK
<1>4. PICK type \in AnswerTypes : SendAnswer(inbox, p, r, type)
  BY <1>2, HandlerAnswersType
<1>5. \A q \in Peers :
        requests'[q] = IF q = p THEN requests[q] \ {r} ELSE requests[q]
  BY <1>1, <1>2 DEF TypeOK
<1>6. UNCHANGED <<listener, outcome, threw>>
  BY DEF FinishRequest
<1>7. /\ \A k \in Peers :
           /\ AskedIn(inbox'[k], c) <=> AskedIn(inbox[k], c)
           /\ AskedOnce(inbox[k], c) => AskedOnce(inbox'[k], c)
      /\ answers'[c] \in {answers[c], Append(answers[c], type)}
      /\ c # r.call => answers'[c] = answers[c]
  BY <1>1, <1>3, <1>4, QueuesType, AnswerSent
<1>8. Fewer(c)
  <2>1. \A q \in Peers : /\ Handles(q, c)' => Handles(q, c)
                         /\ Owes(q, c)' => Owes(q, c)
                         /\ Catches(q, c)' => Catches(q, c)
    BY <1>6 DEF Handles, Owes, Catches
  <2> QED BY <1>5, <1>6, <1>7, <2>1 DEF Fewer
<1>9. CASE c = r.call
  <2>1. \A x \in requests[p] : x.call = c => x = r
    BY <1>1, <1>9 DEF Accounted
  <2>2. Keeps(p, c) /\ ~Keeps(p, c)'
    BY <1>5, <1>9, <2>1 DEF Keeps
  <2> QED BY <1>1, <1>7, <1>8, <2>2, OneAnswered
<1>10. CASE c # r.call
  BY <1>1, <1>7, <1>8, <1>10, NothingAnswered
<1> QED BY <1>9, <1>10

LEMMA DeliverAccounted ==
  ASSUME AInv, NEW p \in Peers, Deliver(p), NEW c \in Calls
  PROVE  Accounted(c)'
<1>1. listener[p].call \in Calls /\ listener[p].type \in AnswerTypes
  BY ListenerAt DEF AInv, Deliver, TypeOK
<1>2. outcome'[c] = "idle" => outcome[c] = "idle"
  BY <1>1 DEF Deliver, AInv, TypeOK, AnswerTypes
<1>3. \A q \in Peers : listener'[q] = listener[q] \/ listener'[q] = Idle
  BY DEF Deliver, AInv, TypeOK
<1>4. UNCHANGED <<inbox, requests, answers, threw>>
  BY DEF Deliver
<1>5. Fewer(c) /\ answers'[c] = answers[c]
  BY <1>2, <1>3, <1>4 DEF Fewer, Handles, Owes, Catches, Idle
<1> QED BY <1>5, NothingAnswered DEF AInv

LEMMA LinkBreakAccounted ==
  ASSUME AInv, LinkBreak, NEW c \in Calls
  PROVE  Accounted(c)'
<1>1. PICK n \in 0 .. Len(inbox[Client]), m \in 0 .. Len(inbox[Server]) :
        inbox' = [inbox EXCEPT ![Client] = SubSeq(@, 1, n),
                               ![Server] = SubSeq(@, 1, m)]
  BY DEF LinkBreak
<1>2. inbox \in [Peers -> Seq(Msgs)]
  BY QueuesType DEF AInv
<1>3. \A q \in Peers :
        \E k \in 0 .. Len(inbox[q]) : inbox'[q] = SubSeq(inbox[q], 1, k)
  BY <1>1, <1>2, PeersAssumption DEF Peers
<1>4. ASSUME NEW q \in Peers
      PROVE  /\ AskedIn(inbox'[q], c) => AskedIn(inbox[q], c)
             /\ AskedOnce(inbox[q], c) => AskedOnce(inbox'[q], c)
  <2>1. PICK k \in 0 .. Len(inbox[q]) : inbox'[q] = SubSeq(inbox[q], 1, k)
    BY <1>3
  <2>2. inbox[q] \in Seq(Msgs)
    BY <1>2
  <2> QED BY <2>1, <2>2, AskedSubSeq
<1>5. UNCHANGED <<listener, requests, outcome, answers, threw>>
  BY DEF LinkBreak
<1>6. Fewer(c) /\ answers'[c] = answers[c]
  BY <1>4, <1>5 DEF Fewer, Handles, Owes, Catches
<1> QED BY <1>6, NothingAnswered DEF AInv

LEMMA AccountedStep == AInv /\ [Next]_vars => AInv'
<1> SUFFICES ASSUME AInv, [Next]_vars PROVE AInv'
  OBVIOUS
<1>1. ASSUME NEW c \in Calls PROVE Accounted(c)'
  <2>1. ASSUME NEW p \in Peers, OnClose(p) PROVE Accounted(c)'
    BY <2>1, AsideAccounted DEF OnClose
  <2>2. CASE UNCHANGED vars
    BY <2>2, AsideAccounted DEF vars
  <2> QED
    BY <2>1, <2>2, LinkBreakAccounted, ApplicationAccounted,
       ReceiveAccounted, HandleAccounted, CatchAccounted,
       FinishRequestAccounted, DeliverAccounted DEF Next
<1> QED BY <1>1, TypeStep DEF AInv

\* Whatever a handler does with its Request, moves included, its call gets at
\* most one answer, and one more from parse_text_message's catch if the
\* handler threw; reused ids, disconnects and destroyed peers included.
THEOREM OneAnswer == Spec => []OneAnswerUnlessThrown
<1>1. AInv => OneAnswerUnlessThrown
  BY DEF AInv, Accounted, OneAnswerUnlessThrown
<1> QED BY <1>1, InitAccounted, AccountedStep, PTL DEF Spec

-----------------------------------------------------------------------------
(* No call is forgotten while the connection stands.                       *)

Standing == link = "up" /\ \A p \in Peers : peer[p] = "open"

\* The places an answer to the other peer's id i can come from at q.
OwesId(q, i) ==
  listener[q].at = "handler" /\ ~listener[q].sent /\ listener[q].req.id = i
CatchesId(q, i) == listener[q].at = "catch" /\ listener[q].req.id = i
KeepsId(q, i) == \E r \in requests[q] : r.id = i

LEMMA InQueueAppend ==
  ASSUME NEW s \in Seq(Msgs), NEW m \in Msgs, NEW kind, NEW i
  PROVE  /\ InQueue(s, kind, i) => InQueue(Append(s, m), kind, i)
         /\ m.kind = kind /\ m.id = i => InQueue(Append(s, m), kind, i)
<1> DEFINE t == Append(s, m)
<1>1. /\ \A n \in 1 .. Len(s) : n \in 1 .. Len(t) /\ t[n] = s[n]
      /\ Len(t) \in 1 .. Len(t) /\ t[Len(t)] = m
  BY AppendIs
<1> HIDE DEF t
<1>2. /\ InQueue(s, kind, i) => InQueue(t, kind, i)
      /\ m.kind = kind /\ m.id = i => InQueue(t, kind, i)
  BY <1>1 DEF InQueue
<1> QED BY <1>2 DEF t

LEMMA InQueueTail ==
  ASSUME NEW s \in Seq(Msgs), s # <<>>, NEW kind, NEW i,
         InQueue(s, kind, i), ~(Head(s).kind = kind /\ Head(s).id = i)
  PROVE  InQueue(Tail(s), kind, i)
<1>1. PICK n \in 1 .. Len(s) : s[n].kind = kind /\ s[n].id = i
  BY DEF InQueue
<1>2. n # 1 /\ Len(s) \in Nat
  BY <1>1, TailIs
<1>3. n - 1 \in 1 .. Len(s) - 1 /\ (n - 1) + 1 = n
  BY <1>2
<1>4. n - 1 \in 1 .. Len(Tail(s)) /\ Tail(s)[n - 1] = s[n]
  BY <1>3, TailIs
<1> QED BY <1>1, <1>4 DEF InQueue

\* While the connection stands an answer that is sent is on its way.
LEMMA SentIsComing ==
  ASSUME Standing, NEW q \in [Peers -> Seq(Msgs)], NEW a \in Peers,
         NEW r \in Requests, NEW type \in AnswerTypes,
         SendAnswer(q, a, r, type)
  PROVE  /\ InQueue(inbox'[Other(a)], "answer", r.id)
         /\ \A k \in Peers, kind \in {"request", "answer"}, i \in Ids :
              InQueue(q[k], kind, i) => InQueue(inbox'[k], kind, i)
<1> DEFINE m == [kind |-> "answer", id |-> r.id, call |-> r.call,
                 type |-> type]
<1>1. m \in Msgs /\ m.kind = "answer" /\ m.id = r.id
  BY DEF Msgs, AnswerMsgs, Requests
<1>2. inbox' = Push(q, a, m) /\ Other(a) \in Peers
  BY OtherIsPeer DEF SendAnswer
<1> HIDE DEF m
<1>3. \A k \in Peers :
        inbox'[k] = IF k = Other(a) THEN Append(q[k], m) ELSE q[k]
  BY <1>2 DEF Push, Delivers, Standing
<1>4. ASSUME NEW k \in Peers, NEW kind, NEW i
      PROVE  /\ InQueue(q[k], kind, i) => InQueue(Append(q[k], m), kind, i)
             /\ m.kind = kind /\ m.id = i
                  => InQueue(Append(q[k], m), kind, i)
  <2>1. q[k] \in Seq(Msgs)
    OBVIOUS
  <2> QED BY <1>1, <2>1, InQueueAppend
<1> QED BY <1>1, <1>2, <1>3, <1>4

LEMMA IssueComing ==
  ASSUME TypeOK, Standing, NEW a \in Peers, NEW c \in Calls, NEW op \in Ops,
         NEW name \in Ids, Issue(a, c, op, name),
         NEW p \in Peers, NEW i \in Ids,
         call_map[p][i] # NoCall => AnswerComing(p, i),
         call_map'[p][i] # NoCall
  PROVE  AnswerComing(p, i)'
<1> DEFINE id == call_id[a] % IdSpace
           m == [kind |-> "request", id |-> id, call |-> c, op |-> op,
                 name |-> name]
<1>1. id \in Ids
  BY IdInRange DEF TypeOK
<1>2. m \in Msgs /\ m.kind = "request" /\ m.id = id
  BY <1>1 DEF Msgs, RequestMsgs
<1>3. /\ inbox' = Push(inbox, a, m) /\ UNCHANGED <<listener, requests>>
      /\ call_map' = [call_map EXCEPT ![a][id] = c]
      /\ Other(a) \in Peers /\ Other(p) \in Peers
  BY OtherIsPeer DEF Issue
<1> HIDE DEF m, id
<1>4. \A k \in Peers :
        inbox'[k] = IF k = Other(a) THEN Append(inbox[k], m) ELSE inbox[k]
  BY <1>3, QueuesType DEF Push, Delivers, Standing
<1>5. ASSUME NEW k \in Peers, NEW kind, NEW j
      PROVE  /\ InQueue(inbox[k], kind, j) => InQueue(inbox'[k], kind, j)
             /\ k = Other(a) /\ m.kind = kind /\ m.id = j
                  => InQueue(inbox'[k], kind, j)
  <2>1. inbox[k] \in Seq(Msgs)
    BY QueuesType
  <2>2. /\ InQueue(inbox[k], kind, j)
             => InQueue(Append(inbox[k], m), kind, j)
        /\ m.kind = kind /\ m.id = j
             => InQueue(Append(inbox[k], m), kind, j)
    BY <1>2, <2>1, InQueueAppend
  <2> QED BY <1>4, <2>2
<1>6. CASE p = a /\ i = id
  BY <1>2, <1>3, <1>5, <1>6 DEF AnswerComing
<1>7. CASE ~(p = a /\ i = id)
  <2>1. call_map'[p][i] = call_map[p][i]
    BY <1>1, <1>3, <1>7 DEF TypeOK
  <2> QED BY <1>3, <1>5, <2>1 DEF AnswerComing
<1> QED BY <1>6, <1>7

LEMMA ServeComing ==
  ASSUME TypeOK, Standing, NEW a \in Peers, Receives(a, "request"),
         NEW type \in AnswerTypes,
         \/ StartHandler(a, Head(inbox[a]))
         \/ AnswerAtOnce(a, Head(inbox[a]), type),
         UNCHANGED requests,
         NEW p \in Peers, NEW i \in Ids, AnswerComing(p, i)
  PROVE  AnswerComing(p, i)'
<1> DEFINE m == Head(inbox[a])
           r == RequestOf(m)
<1>1. m \in RequestMsgs /\ Pop(inbox, a) \in [Peers -> Seq(Msgs)]
  BY QueuesType, PopType, HeadOfKind DEF Receives
<1>2. r \in Requests /\ r.id = m.id /\ m.kind = "request"
  BY <1>1 DEF RequestOf, RequestMsgs, Requests
<1>3. Other(p) \in Peers /\ (Other(p) = a => p = Other(a))
  BY PeersAssumption DEF Peers, Other
<1>4. inbox[a] # <<>> /\ listener[a] = Idle
  BY DEF Receives
<1>5. ASSUME NEW k \in Peers, NEW kind \in {"request", "answer"},
             InQueue(inbox[k], kind, i)
      PROVE  \/ InQueue(Pop(inbox, a)[k], kind, i)
             \/ k = a /\ kind = "request" /\ i = m.id
  <2>1. /\ inbox[k] \in Seq(Msgs)
        /\ Pop(inbox, a)[k] = IF k = a THEN Tail(inbox[k]) ELSE inbox[k]
    BY QueuesType DEF Pop
  <2>2. CASE k = a
    BY <1>2, <1>4, <1>5, <2>1, <2>2, InQueueTail
  <2>3. CASE k # a
    BY <1>5, <2>1, <2>3
  <2> QED BY <2>2, <2>3
<1>6. CASE StartHandler(a, m)
  <2>1. /\ inbox' = Pop(inbox, a)
        /\ \A q \in Peers :
             listener'[q] = IF q = a THEN Handling(r, FALSE) ELSE listener[q]
    BY <1>6 DEF StartHandler, TypeOK
  <2>2. /\ listener'[a].at = "handler" /\ ~listener'[a].sent
        /\ listener'[a].req.id = m.id
    BY <1>2, <2>1 DEF Handling
  <2>3. /\ OwesId(Other(p), i) => OwesId(Other(p), i)'
        /\ CatchesId(Other(p), i) => CatchesId(Other(p), i)'
        /\ KeepsId(Other(p), i) => KeepsId(Other(p), i)'
    <3>1. Other(p) = a => ~OwesId(Other(p), i) /\ ~CatchesId(Other(p), i)
      BY <1>4 DEF OwesId, CatchesId, Idle
    <3>2. Other(p) # a => listener'[Other(p)] = listener[Other(p)]
      BY <1>3, <2>1
    <3> QED BY <3>1, <3>2 DEF OwesId, CatchesId, KeepsId
  <2>4. Other(p) = a /\ i = m.id => OwesId(Other(p), i)'
    BY <2>2 DEF OwesId
  <2>5. \/ InQueue(inbox'[Other(p)], "request", i)
        \/ InQueue(inbox'[p], "answer", i)
        \/ Other(p) = a /\ i = m.id
        \/ OwesId(Other(p), i) \/ CatchesId(Other(p), i)
        \/ KeepsId(Other(p), i)
    BY <1>3, <1>5, <2>1 DEF AnswerComing, OwesId, CatchesId, KeepsId
  <2> QED BY <2>3, <2>4, <2>5 DEF AnswerComing, OwesId, CatchesId, KeepsId
<1>7. CASE AnswerAtOnce(a, m, type)
  <2>1. SendAnswer(Pop(inbox, a), a, r, type) /\ UNCHANGED listener
    BY <1>7 DEF AnswerAtOnce
  <2>2. /\ InQueue(inbox'[Other(a)], "answer", m.id)
        /\ \A k \in Peers, kind \in {"request", "answer"}, j \in Ids :
             InQueue(Pop(inbox, a)[k], kind, j) => InQueue(inbox'[k], kind, j)
    BY <1>1, <1>2, <2>1, SentIsComing
  <2> HIDE DEF m, r
  <2> QED BY <1>3, <1>5, <2>1, <2>2 DEF AnswerComing
<1> QED BY <1>6, <1>7

LEMMA FinishCallComing ==
  ASSUME TypeOK, NEW a \in Peers, FinishCall(a),
         NEW p \in Peers, NEW i \in Ids,
         call_map[p][i] # NoCall => AnswerComing(p, i),
         call_map'[p][i] # NoCall
  PROVE  AnswerComing(p, i)'
<1> DEFINE m == Head(inbox[a])
<1>1. m \in AnswerMsgs
  BY QueuesType, PopType, HeadOfKind DEF FinishCall, Receives
<1>2. m.id \in Ids /\ m.kind = "answer"
  BY <1>1 DEF AnswerMsgs
<1>3. /\ inbox[a] # <<>> /\ listener[a] = Idle
      /\ inbox' = Pop(inbox, a) /\ UNCHANGED requests
      /\ Other(p) \in Peers
  BY OtherIsPeer DEF FinishCall, Receives
<1>4. call_map[p][i] # NoCall /\ ~(p = a /\ i = m.id)
  <2>1. CASE call_map[a][m.id] = NoCall
    BY <1>2, <2>1 DEF FinishCall
  <2>2. CASE call_map[a][m.id] # NoCall
    <3>1. call_map' = [call_map EXCEPT ![a][m.id] = NoCall]
      BY <2>2 DEF FinishCall
    <3> HIDE DEF m
    <3> QED BY <1>2, <3>1 DEF TypeOK
  <2> QED BY <2>1, <2>2
<1>5. \A q \in Peers : q # a => listener'[q] = listener[q]
  BY DEF FinishCall, TypeOK
<1>6. ASSUME NEW k \in Peers, NEW kind \in {"request", "answer"},
             InQueue(inbox[k], kind, i)
      PROVE  \/ InQueue(inbox'[k], kind, i)
             \/ k = a /\ kind = "answer" /\ i = m.id
  <2>1. /\ inbox[k] \in Seq(Msgs)
        /\ inbox'[k] = IF k = a THEN Tail(inbox[k]) ELSE inbox[k]
    BY <1>3, QueuesType DEF Pop
  <2>2. CASE k = a
    BY <1>2, <1>3, <1>6, <2>1, <2>2, InQueueTail
  <2>3. CASE k # a
    BY <1>6, <2>1, <2>3
  <2> QED BY <2>2, <2>3
<1> HIDE DEF m
<1>7. /\ OwesId(Other(p), i) => OwesId(Other(p), i)'
      /\ CatchesId(Other(p), i) => CatchesId(Other(p), i)'
      /\ KeepsId(Other(p), i) => KeepsId(Other(p), i)'
  <2>1. Other(p) = a => ~OwesId(Other(p), i) /\ ~CatchesId(Other(p), i)
    BY <1>3 DEF OwesId, CatchesId, Idle
  <2> QED BY <1>3, <1>5, <2>1 DEF OwesId, CatchesId, KeepsId
<1>8. \/ InQueue(inbox'[Other(p)], "request", i)
      \/ InQueue(inbox'[p], "answer", i)
      \/ OwesId(Other(p), i) \/ CatchesId(Other(p), i)
      \/ KeepsId(Other(p), i)
  BY <1>3, <1>4, <1>6 DEF AnswerComing, OwesId, CatchesId, KeepsId
<1> QED BY <1>7, <1>8 DEF AnswerComing, OwesId, CatchesId, KeepsId

\* The handler's Request is answered, kept or destroyed, or its exception
\* caught, and the kept one answered in the end.
LEMMA RequestComing ==
  ASSUME TypeOK, Standing, NEW a \in Peers,
         Handle(a) \/ CatchException(a) \/ FinishRequest(a),
         NEW p \in Peers, NEW i \in Ids, AnswerComing(p, i)
  PROVE  AnswerComing(p, i)'
<1>1. Other(p) \in Peers /\ (Other(p) = a => p = Other(a))
  BY PeersAssumption DEF Peers, Other
<1>2. \A q \in Peers : q # a => /\ listener'[q] = listener[q]
                                /\ requests'[q] = requests[q]
  BY DEF TypeOK, Handle, HandlerAnswer, HandlerKeep, HandlerReturn,
         HandlerThrow, CatchException, FinishRequest
<1> DEFINE Arrives(r) == InQueue(inbox'[Other(a)], "answer", r.id)
           QueuesKept == \A k \in Peers, kind \in {"request", "answer"},
                           j \in Ids :
             InQueue(inbox[k], kind, j) => InQueue(inbox'[k], kind, j)
<1>3. ASSUME NEW r \in Requests, NEW type \in AnswerTypes,
             SendAnswer(inbox, a, r, type)
      PROVE  Arrives(r) /\ QueuesKept
  BY <1>3, QueuesType, SentIsComing
<1>4. UNCHANGED inbox => QueuesKept
  OBVIOUS
<1>5. /\ QueuesKept
      /\ Other(p) = a =>
           /\ OwesId(a, i) => \/ InQueue(inbox'[p], "answer", i)
                              \/ KeepsId(a, i)' \/ OwesId(a, i)'
           /\ CatchesId(a, i) => \/ InQueue(inbox'[p], "answer", i)
                                 \/ CatchesId(a, i)'
           /\ KeepsId(a, i) => \/ InQueue(inbox'[p], "answer", i)
                               \/ KeepsId(a, i)'
  <2> HIDE DEF Arrives, QueuesKept
  <2>1. CASE HandlerAnswer(a)
    <3>1. QueuesKept /\ Arrives(listener[a].req) /\ UNCHANGED requests
          /\ listener[a].at = "handler"
      BY <1>3, <2>1, HandlingType DEF HandlerAnswer
    <3> QED BY <1>1, <3>1 DEF OwesId, CatchesId, KeepsId, Arrives
  <2>2. CASE HandlerKeep(a)
    <3>1. /\ QueuesKept /\ listener[a].at = "handler"
          /\ requests'[a] = requests[a] \cup {listener[a].req}
      BY <1>4, <2>2 DEF HandlerKeep, TypeOK
    <3> QED BY <3>1 DEF OwesId, CatchesId, KeepsId
  <2>3. CASE HandlerReturn(a) \/ HandlerThrow(a)
    <3>1. /\ listener[a].at = "handler" /\ DestroyRequest(a)
          /\ UNCHANGED requests
      BY <2>3 DEF HandlerReturn, HandlerThrow
    <3>2. QueuesKept /\ (~listener[a].sent => Arrives(listener[a].req))
      BY <1>3, <1>4, <3>1, HandlingType DEF DestroyRequest, AnswerTypes
    <3> QED BY <1>1, <3>1, <3>2 DEF OwesId, CatchesId, KeepsId, Arrives
  <2>4. CASE CatchException(a)
    <3>1. /\ listener[a].at = "catch" /\ UNCHANGED requests
          /\ SendAnswer(inbox, a, listener[a].req, "exception")
      BY <2>4 DEF CatchException
    <3>2. listener[a].req \in Requests
      BY <3>1, ListenerAt DEF TypeOK
    <3>3. QueuesKept /\ Arrives(listener[a].req)
      BY <1>3, <3>1, <3>2 DEF AnswerTypes
    <3> QED BY <1>1, <3>1, <3>3 DEF OwesId, CatchesId, KeepsId, Arrives
  <2>5. CASE FinishRequest(a)
    <3>1. PICK r \in requests[a] :
            /\ \E type \in HandlerAnswers(r.op) :
                 SendAnswer(inbox, a, r, type)
            /\ requests' = [requests EXCEPT ![a] = @ \ {r}]
      BY <2>5 DEF FinishRequest
    <3>2. r \in Requests /\ requests'[a] = requests[a] \ {r}
      BY <3>1 DEF TypeOK
    <3>3. QueuesKept /\ Arrives(r)
      BY <1>3, <3>1, <3>2, HandlerAnswersType
    <3>4. listener'[a] = listener[a]
      BY <2>5 DEF FinishRequest
    <3> QED BY <1>1, <3>2, <3>3, <3>4 DEF OwesId, CatchesId, KeepsId, Arrives
  <2> QED BY <2>1, <2>2, <2>3, <2>4, <2>5 DEF Handle
<1>6. Other(p) # a =>
        /\ OwesId(Other(p), i) => OwesId(Other(p), i)'
        /\ CatchesId(Other(p), i) => CatchesId(Other(p), i)'
        /\ KeepsId(Other(p), i) => KeepsId(Other(p), i)'
  BY <1>1, <1>2 DEF OwesId, CatchesId, KeepsId
<1>7. \/ InQueue(inbox[Other(p)], "request", i)
      \/ InQueue(inbox[p], "answer", i)
      \/ OwesId(Other(p), i) \/ CatchesId(Other(p), i)
      \/ KeepsId(Other(p), i)
  BY DEF AnswerComing, OwesId, CatchesId, KeepsId
<1>8. \/ InQueue(inbox'[Other(p)], "request", i)
      \/ InQueue(inbox'[p], "answer", i)
      \/ OwesId(Other(p), i)' \/ CatchesId(Other(p), i)'
      \/ KeepsId(Other(p), i)'
  BY <1>1, <1>5, <1>6, <1>7
<1> QED BY <1>8 DEF AnswerComing, OwesId, CatchesId, KeepsId

LEMMA ComingStep ==
  TypeOK /\ NoCallForgotten /\ [Next]_vars => NoCallForgotten'
<1> SUFFICES ASSUME TypeOK, NoCallForgotten, [Next]_vars, Standing',
                    NEW p \in Peers, NEW i \in Ids,
                    call_map'[p][i] # NoCall
             PROVE  AnswerComing(p, i)'
  BY DEF NoCallForgotten, Standing
<1>1. Standing
  <2>1. ASSUME NEW a \in Peers,
               Receive(a) \/ Handle(a) \/ CatchException(a)
                 \/ FinishRequest(a) \/ Deliver(a)
        PROVE  UNCHANGED <<peer, link>>
    BY <2>1 DEF Receive, OnMethodCall, OnDiscover, OnCallback, FinishCall,
                Handle, HandlerAnswer, HandlerKeep, HandlerReturn,
                HandlerThrow, CatchException, FinishRequest, Deliver
  <2>2. ASSUME NEW a \in Peers, Application(a) \/ OnClose(a)
        PROVE  /\ UNCHANGED link
               /\ \/ UNCHANGED peer
                  \/ \E s \in {"closed", "destroyed"} :
                       peer' = [peer EXCEPT ![a] = s]
    BY <2>2 DEF Application, Call, Discover, CallCallback, Issue,
                CallDisconnected, RegCallback, UnregCallback, Destroy,
                OnClose
  <2>3. CASE LinkBreak
    BY <2>3 DEF LinkBreak, Standing
  <2>4. CASE UNCHANGED vars
    BY <2>4 DEF vars, Standing
  <2>5. ASSUME NEW a \in Peers, NEW s \in {"closed", "destroyed"},
               peer' = [peer EXCEPT ![a] = s]
        PROVE  FALSE
    BY <2>5 DEF TypeOK, Standing
  <2> QED BY <2>1, <2>2, <2>3, <2>4, <2>5 DEF Next, Standing
<1>2. call_map[p][i] # NoCall => AnswerComing(p, i)
  BY <1>1 DEF NoCallForgotten, Standing
<1>3. ASSUME UNCHANGED <<inbox, call_map, listener, requests>>
      PROVE  AnswerComing(p, i)'
  BY <1>2, <1>3 DEF AnswerComing
<1>4. ASSUME NEW a \in Peers, Application(a) PROVE AnswerComing(p, i)'
  <2>1. ASSUME NEW c \in Calls, Call(a, c) \/ Discover(a, c)
        PROVE  AnswerComing(p, i)'
    <3>1. 0 \in Ids
      BY IdSpaceAssumption DEF Ids
    <3> QED BY <1>1, <1>2, <2>1, <3>1, IssueComing DEF Call, Discover, Ops
  <2>2. ASSUME NEW c \in Calls, NEW name \in Ids, CallCallback(a, c, name)
        PROVE  AnswerComing(p, i)'
    BY <1>1, <1>2, <2>2, IssueComing DEF CallCallback, Ops
  <2>3. CASE Destroy(a)
    BY <2>3 DEF Destroy, Standing, TypeOK
  <2>4. ASSUME NEW c \in Calls, CallDisconnected(a, c)
        PROVE  AnswerComing(p, i)'
    BY <1>3, <2>4 DEF CallDisconnected
  <2>5. CASE RegCallback(a) \/ \E name \in Ids : UnregCallback(a, name)
    BY <1>3, <2>5 DEF RegCallback, UnregCallback
  <2> QED BY <1>4, <2>1, <2>2, <2>3, <2>4, <2>5 DEF Application
<1>5. ASSUME NEW a \in Peers, Receive(a) PROVE AnswerComing(p, i)'
  <2>1. CASE FinishCall(a)
    BY <1>2, <2>1, FinishCallComing
  <2>2. CASE ~FinishCall(a)
    <3>1. OnMethodCall(a) \/ OnDiscover(a) \/ OnCallback(a)
      BY <1>5, <2>2 DEF Receive
    <3>2. AnswerComing(p, i)
      BY <1>2, <3>1 DEF OnMethodCall, OnDiscover, OnCallback
    <3>3. CASE OnMethodCall(a)
      BY <1>1, <3>2, <3>3, ServeComing DEF OnMethodCall, AnswerTypes
    <3>4. CASE OnDiscover(a)
      BY <1>1, <3>2, <3>4, ServeComing DEF OnDiscover, AnswerTypes
    <3>5. CASE OnCallback(a)
      BY <1>1, <3>2, <3>5, ServeComing DEF OnCallback, AnswerTypes
    <3> QED BY <3>1, <3>3, <3>4, <3>5
  <2> QED BY <2>1, <2>2
<1>6. ASSUME NEW a \in Peers,
             Handle(a) \/ CatchException(a) \/ FinishRequest(a)
      PROVE  AnswerComing(p, i)'
  <2>1. UNCHANGED call_map
    BY <1>6 DEF Handle, HandlerAnswer, HandlerKeep, HandlerReturn,
                HandlerThrow, CatchException, FinishRequest
  <2> QED BY <1>1, <1>2, <1>6, <2>1, RequestComing
<1>7. ASSUME NEW a \in Peers, Deliver(a) PROVE AnswerComing(p, i)'
  <2>1. /\ UNCHANGED <<inbox, call_map, requests>>
        /\ \A q \in Peers : \/ listener'[q] = listener[q]
                            \/ listener[q].at = "deliver"
    BY <1>7 DEF Deliver, TypeOK
  <2>2. Other(p) \in Peers /\ AnswerComing(p, i)
    BY <1>2, <2>1, OtherIsPeer
  <2> QED BY <2>1, <2>2 DEF AnswerComing
<1>8. ASSUME NEW a \in Peers, OnClose(a) PROVE AnswerComing(p, i)'
  BY <1>3, <1>8 DEF OnClose
<1>9. ~LinkBreak
  BY DEF LinkBreak, Standing
<1> QED BY <1>3, <1>4, <1>5, <1>6, <1>7, <1>8, <1>9 DEF Next, vars

\* While the connection stands every response callback in _call_map has an
\* answer under way or somebody who owes one: no path through a handler, and
\* no reuse of an id, leaves an entry that nothing will ever take out.
THEOREM NoneForgotten == Spec => []NoCallForgotten
<1>1. Init => TypeOK /\ NoCallForgotten
  BY InitType DEF Init, NoCallForgotten
<1> QED BY <1>1, TypeStep, ComingStep, PTL DEF Spec

-----------------------------------------------------------------------------
(* Ids before the counter wraps round.  What carries an id for a call goes  *)
(* from one place to the next and is never copied to another call; only     *)
(* Issue starts a new one, and its id is one no message or name has.        *)

LEMMA FreshId ==
  ASSUME NeverWraps, NEW p \in Peers, NEW n \in Nat, n < MaxIds[p]
  PROVE  n % IdSpace = n /\ n \in Ids
<1>1. MaxIds[p] \in Nat /\ MaxIds[p] <= IdSpace
  BY MaxIdsAssumption DEF NeverWraps
<1> QED BY <1>1, IdSpaceAssumption, SMT DEF Ids

LEMMA OtherTwice == \A p \in Peers : Other(Other(p)) = p
BY PeersAssumption DEF Peers, Other

LEMMA HasAppend ==
  ASSUME NEW s \in Seq(Msgs), NEW m \in Msgs, NEW kind, NEW i, NEW c
  PROVE  Has(Append(s, m), kind, i, c)
           => Has(s, kind, i, c) \/ (m.kind = kind /\ m.id = i /\ m.call = c)
<1> DEFINE t == Append(s, m)
<1>1. \A n \in 1 .. Len(t) : \/ n \in 1 .. Len(s) /\ t[n] = s[n]
                             \/ t[n] = m
  BY AppendIs
<1> HIDE DEF t
<1>2. Has(t, kind, i, c)
        => Has(s, kind, i, c) \/ (m.kind = kind /\ m.id = i /\ m.call = c)
  BY <1>1 DEF Has
<1> QED BY <1>2 DEF t

LEMMA HasTail ==
  ASSUME NEW s \in Seq(Msgs), s # <<>>
  PROVE  /\ \A kind, i, c : Has(Tail(s), kind, i, c) => Has(s, kind, i, c)
         /\ Has(s, Head(s).kind, Head(s).id, Head(s).call)
<1>1. /\ \A n \in 1 .. Len(Tail(s)) :
           n + 1 \in 1 .. Len(s) /\ Tail(s)[n] = s[n + 1]
      /\ 1 \in 1 .. Len(s) /\ Head(s) = s[1]
  BY TailIs
<1> QED BY <1>1 DEF Has

LEMMA HasSubSeq ==
  ASSUME NEW s \in Seq(Msgs), NEW k \in 0 .. Len(s), NEW kind, NEW i, NEW c
  PROVE  Has(SubSeq(s, 1, k), kind, i, c) => Has(s, kind, i, c)
<1>1. \A n \in 1 .. Len(SubSeq(s, 1, k)) :
        n \in 1 .. Len(s) /\ SubSeq(s, 1, k)[n] = s[n]
  BY SubSeqIs
<1> QED BY <1>1 DEF Has

LEMMA CarriesIs ==
  ASSUME NEW p, NEW i, NEW c
  PROVE  Carries(p, i, c) <=> \/ call_map[p][i] = c
                              \/ Has(inbox[Other(p)], "request", i, c)
                              \/ Has(inbox[p], "answer", i, c)
                              \/ Holds(Other(p), i, c)
BY DEF Carries, Due

\* Nothing new is carried, except by a message that is sent.
LEMMA SentCarries ==
  ASSUME NEW q \in [Peers -> Seq(Msgs)], NEW a \in Peers, NEW m \in Msgs
  PROVE  \A k \in Peers : \A kind, i, c :
           Has(Push(q, a, m)[k], kind, i, c) =>
             \/ Has(q[k], kind, i, c)
             \/ k = Other(a) /\ m.kind = kind /\ m.id = i /\ m.call = c
<1> TAKE k \in Peers
<1> TAKE kind, i, c
<1>1. \/ Push(q, a, m)[k] = q[k]
      \/ k = Other(a) /\ Push(q, a, m)[k] = Append(q[k], m)
  BY DEF Push
<1>2. q[k] \in Seq(Msgs)
  OBVIOUS
<1>3. Has(Append(q[k], m), kind, i, c) =>
        Has(q[k], kind, i, c) \/ (m.kind = kind /\ m.id = i /\ m.call = c)
  BY <1>2, HasAppend, Zenon
<1> QED BY <1>1, <1>3, Zenon

\* An answer carries on what the Request carried.
LEMMA AnswerCarries ==
  ASSUME NEW q \in [Peers -> Seq(Msgs)], NEW a \in Peers,
         NEW r \in Requests, NEW type \in AnswerTypes,
         SendAnswer(q, a, r, type)
  PROVE  \A k \in Peers, kind \in {"request", "answer"}, i \in Ids, c \in Calls :
           Has(inbox'[k], kind, i, c) =>
             \/ Has(q[k], kind, i, c)
             \/ k = Other(a) /\ kind = "answer" /\ r.id = i /\ r.call = c
<1> DEFINE m == [kind |-> "answer", id |-> r.id, call |-> r.call,
                 type |-> type]
<1>0. m \in Msgs
  BY DEF Msgs, AnswerMsgs, Requests
<1>1. m.kind = "answer" /\ m.id = r.id /\ m.call = r.call
  OBVIOUS
<1>2. inbox' = Push(q, a, m)
  BY DEF SendAnswer
<1> HIDE DEF m
<1>3. \A k \in Peers : \A kind, i, c :
        Has(Push(q, a, m)[k], kind, i, c) =>
          \/ Has(q[k], kind, i, c)
          \/ k = Other(a) /\ m.kind = kind /\ m.id = i /\ m.call = c
  BY <1>0, SentCarries, Zenon
<1> QED BY <1>1, <1>2, <1>3

\* A step that only moves on what is carried.
Moves ==
  \A p \in Peers, i \in Ids, c \in Calls :
    /\ Carries(p, i, c)' => Carries(p, i, c)
    /\ Due(p, i, c)' => Due(p, i, c)

\* It does so if the peer a is the only one that acts.
LEMMA MovesIf ==
  ASSUME TypeOK, NEW a \in Peers,
         \A p \in Peers, i \in Ids :
           call_map'[p][i] \in {call_map[p][i], NoCall},
         \A p \in Peers, kind \in {"request", "answer"}, i \in Ids, c \in Calls :
           Has(inbox'[p], kind, i, c) =>
             \/ Has(inbox[p], kind, i, c)
             \/ p = Other(a) /\ kind = "answer" /\ Carries(p, i, c),
         \A p \in Peers, i \in Ids, c \in Calls :
           Holds(p, i, c)' =>
             Holds(p, i, c) \/ (p = a /\ Has(inbox[a], "request", i, c))
  PROVE  Moves
<1>0. ASSUME NEW p \in Peers, NEW i \in Ids, NEW c \in Calls, Due(p, i, c)'
      PROVE  Due(p, i, c)
  <2>1. Has(inbox'[p], "request", i, c) \/ Holds(p, i, c)'
    BY <1>0 DEF Due
  <2> QED BY <2>1 DEF Due
<1> SUFFICES ASSUME NEW p \in Peers, NEW i \in Ids, NEW c \in Calls,
                    Carries(p, i, c)'
             PROVE  Carries(p, i, c)
  BY <1>0, Zenon DEF Moves
<1>1. \/ call_map'[p][i] = c
      \/ Has(inbox'[Other(p)], "request", i, c)
      \/ Has(inbox'[p], "answer", i, c)
      \/ Holds(Other(p), i, c)'
  BY DEF Carries, Due
<1>2. Other(p) \in Peers
  BY OtherIsPeer
<1>3. CASE call_map'[p][i] = c
  BY <1>3, CarriesIs, NoCallAssumption
<1>4. CASE Has(inbox'[Other(p)], "request", i, c)
  BY <1>2, <1>4, CarriesIs
<1>5. CASE Has(inbox'[p], "answer", i, c)
  BY <1>5, CarriesIs
<1>6. CASE Holds(Other(p), i, c)'
  BY <1>2, <1>6, CarriesIs
<1> QED BY <1>1, <1>3, <1>4, <1>5, <1>6

LEMMA ServeMoves ==
  ASSUME TypeOK, NEW a \in Peers, Receives(a, "request"),
         NEW type \in AnswerTypes,
         \/ StartHandler(a, Head(inbox[a]))
         \/ AnswerAtOnce(a, Head(inbox[a]), type),
         UNCHANGED <<call_map, requests>>
  PROVE  Moves
<1> DEFINE m == Head(inbox[a])
           r == RequestOf(m)
<1>1. m \in RequestMsgs /\ Pop(inbox, a) \in [Peers -> Seq(Msgs)]
  BY QueuesType, PopType, HeadOfKind DEF Receives
<1>2. r \in Requests /\ r.id = m.id /\ r.call = m.call
  BY <1>1 DEF RequestOf, RequestMsgs, Requests
<1>3. m.kind = "request" /\ inbox[a] # <<>> /\ inbox[a] \in Seq(Msgs)
  BY <1>1, QueuesType DEF RequestMsgs, Receives
<1>4. Has(inbox[a], "request", r.id, r.call)
  BY <1>2, <1>3, HasTail
<1>5. \A k \in Peers, kind \in {"request", "answer"}, i \in Ids, c \in Calls :
        Has(Pop(inbox, a)[k], kind, i, c) => Has(inbox[k], kind, i, c)
  <2>1. \A k \in Peers :
          Pop(inbox, a)[k] = IF k = a THEN Tail(inbox[a]) ELSE inbox[k]
    BY QueuesType DEF Pop
  <2> QED BY <1>3, <2>1, HasTail
<1>6. r.id \in Ids /\ r.call \in Calls
  BY <1>2 DEF Requests
<1> HIDE DEF m, r
<1>7. Carries(Other(a), r.id, r.call)
  BY <1>4, OtherTwice, CarriesIs
<1>8. CASE StartHandler(a, Head(inbox[a]))
  <2>1. /\ inbox' = Pop(inbox, a)
        /\ \A q \in Peers :
             listener'[q] = IF q = a THEN Handling(r, FALSE) ELSE listener[q]
    BY <1>8 DEF StartHandler, TypeOK, r, m
  <2>2. /\ \A p \in Peers, i \in Ids :
             call_map'[p][i] \in {call_map[p][i], NoCall}
        /\ \A p \in Peers : requests'[p] = requests[p]
    OBVIOUS
  <2>3. \A p \in Peers, i \in Ids, c \in Calls :
          Holds(p, i, c)' => \/ Holds(p, i, c)
                             \/ p = a /\ Has(inbox[a], "request", i, c)
    <3> TAKE p \in Peers, i \in Ids, c \in Calls
    <3>1. CASE p # a
      BY <2>1, <2>2, <3>1 DEF Holds
    <3>2. CASE p = a
      <4>1. Holds(p, i, c)' => \/ Holds(p, i, c)
                               \/ r.id = i /\ r.call = c
        BY <2>1, <2>2, <3>2 DEF Holds, Handling
      <4> QED BY <1>4, <3>2, <4>1
    <3> QED BY <3>1, <3>2
  <2>4. \A p \in Peers, kind \in {"request", "answer"}, i \in Ids, c \in Calls :
          Has(inbox'[p], kind, i, c) =>
            \/ Has(inbox[p], kind, i, c)
            \/ p = Other(a) /\ kind = "answer" /\ Carries(p, i, c)
    BY <1>5, <2>1
  <2> QED BY <2>2, <2>3, <2>4, MovesIf
<1>9. CASE AnswerAtOnce(a, Head(inbox[a]), type)
  <2>1. SendAnswer(Pop(inbox, a), a, r, type) /\ UNCHANGED listener
    BY <1>9 DEF AnswerAtOnce, r, m
  <2>2. /\ \A p \in Peers, i \in Ids :
             call_map'[p][i] \in {call_map[p][i], NoCall}
        /\ \A p \in Peers : requests'[p] = requests[p]
    OBVIOUS
  <2>3. \A p \in Peers, i \in Ids, c \in Calls :
          Holds(p, i, c)' => \/ Holds(p, i, c)
                             \/ p = a /\ Has(inbox[a], "request", i, c)
    BY <2>1, <2>2 DEF Holds
  <2>4. \A p \in Peers, kind \in {"request", "answer"}, i \in Ids, c \in Calls :
          Has(inbox'[p], kind, i, c) =>
            \/ Has(inbox[p], kind, i, c)
            \/ p = Other(a) /\ kind = "answer" /\ Carries(p, i, c)
    <3>1. \A p \in Peers, kind \in {"request", "answer"}, i \in Ids,
             c \in Calls :
            Has(inbox'[p], kind, i, c) =>
              \/ Has(Pop(inbox, a)[p], kind, i, c)
              \/ p = Other(a) /\ kind = "answer" /\ r.id = i /\ r.call = c
      BY <1>1, <1>2, <2>1, AnswerCarries
    <3> QED BY <1>5, <1>7, <3>1
  <2> QED BY <2>2, <2>3, <2>4, MovesIf
<1> QED BY <1>8, <1>9

LEMMA FinishCallMoves ==
  ASSUME TypeOK, NEW a \in Peers, FinishCall(a)
  PROVE  Moves
<1>1. /\ inbox' = Pop(inbox, a) /\ inbox[a] # <<>> /\ UNCHANGED requests
      /\ inbox[a] \in Seq(Msgs)
  BY QueuesType DEF FinishCall, Receives
<1>2. \A p \in Peers, i \in Ids :
        call_map'[p][i] \in {call_map[p][i], NoCall}
  <2> DEFINE id == Head(inbox[a]).id
  <2>1. id \in Ids
    <3>1. Head(inbox[a]) \in AnswerMsgs
      BY QueuesType, PopType, HeadOfKind DEF FinishCall, Receives
    <3> QED BY <3>1 DEF AnswerMsgs
  <2>2. \/ call_map' = call_map
        \/ call_map' = [call_map EXCEPT ![a][id] = NoCall]
    BY DEF FinishCall
  <2> HIDE DEF id
  <2>3. call_map \in [Peers -> [Ids -> Calls \cup {NoCall}]]
    BY DEF TypeOK
  <2>4. ASSUME call_map' = [call_map EXCEPT ![a][id] = NoCall],
               NEW p \in Peers, NEW i \in Ids
        PROVE  call_map'[p][i] = IF p = a /\ i = id THEN NoCall
                                 ELSE call_map[p][i]
    BY <2>1, <2>3, <2>4
  <2> QED BY <2>2, <2>4
<1>3. \A p \in Peers, kind \in {"request", "answer"}, i \in Ids, c \in Calls :
        Has(inbox'[p], kind, i, c) => Has(inbox[p], kind, i, c)
  <2>1. \A k \in Peers :
          inbox'[k] = IF k = a THEN Tail(inbox[a]) ELSE inbox[k]
    BY <1>1, QueuesType DEF Pop
  <2> QED BY <1>1, <2>1, HasTail
<1>4. \A p \in Peers :
        listener'[p] = listener[p] \/ listener'[p].at = "deliver"
  BY DEF FinishCall, TypeOK
<1>5. \A p \in Peers, i \in Ids, c \in Calls :
        Holds(p, i, c)' => Holds(p, i, c)
  BY <1>1, <1>4 DEF Holds
<1> QED BY <1>2, <1>3, <1>5, MovesIf

LEMMA RequestMoves ==
  ASSUME TypeOK, NEW a \in Peers,
         Handle(a) \/ CatchException(a) \/ FinishRequest(a)
  PROVE  Moves
<1>1. \A p \in Peers, i \in Ids :
        call_map'[p][i] \in {call_map[p][i], NoCall}
  BY DEF Handle, HandlerAnswer, HandlerKeep, HandlerReturn, HandlerThrow,
         CatchException, FinishRequest
<1>2. \A q \in Peers : q # a => /\ listener'[q] = listener[q]
                                /\ requests'[q] = requests[q]
  BY DEF TypeOK, Handle, HandlerAnswer, HandlerKeep, HandlerReturn,
         HandlerThrow, CatchException, FinishRequest
<1> DEFINE Sends(r) == \E type \in AnswerTypes : SendAnswer(inbox, a, r, type)
           Held(r) == \/ listener[a].at \in {"handler", "catch"}
                           /\ listener[a].req = r
                      \/ r \in requests[a]
<1>3. \/ UNCHANGED inbox
      \/ \E r \in Requests : Held(r) /\ Sends(r)
  <2>1. CASE HandlerAnswer(a)
    BY <2>1, HandlingType DEF HandlerAnswer
  <2>2. CASE HandlerKeep(a)
    BY <2>2 DEF HandlerKeep
  <2>3. CASE HandlerReturn(a) \/ HandlerThrow(a)
    BY <2>3, HandlingType
       DEF HandlerReturn, HandlerThrow, DestroyRequest, AnswerTypes
  <2>4. CASE CatchException(a)
    BY <2>4, ListenerAt DEF CatchException, TypeOK, AnswerTypes
  <2>5. CASE FinishRequest(a)
    <3>1. PICK r \in requests[a] : \E type \in HandlerAnswers(r.op) :
                                     SendAnswer(inbox, a, r, type)
      BY <2>5 DEF FinishRequest
    <3>2. r \in Requests
      BY DEF TypeOK
    <3> QED BY <3>1, <3>2, HandlerAnswersType
  <2> QED BY <2>1, <2>2, <2>3, <2>4, <2>5 DEF Handle
<1>4. \A r : Held(r) => \A i, c : r.id = i /\ r.call = c => Holds(a, i, c)
  BY DEF Holds
<1>5. \A p \in Peers, i \in Ids, c \in Calls :
        Holds(p, i, c)' => Holds(p, i, c)
  <2> TAKE p \in Peers, i \in Ids, c \in Calls
  <2>1. CASE p # a
    BY <1>2, <2>1 DEF Holds
  <2>2. CASE p = a
    <3>1. \/ listener'[a].at \notin {"handler", "catch"}
          \/ /\ listener'[a].req = listener[a].req
             /\ listener[a].at \in {"handler", "catch"}
          \/ listener'[a] = listener[a]
      BY DEF TypeOK, Handle, HandlerAnswer, HandlerKeep, HandlerReturn,
             HandlerThrow, CatchException, FinishRequest, Handling, Idle
    <3>2. \A r \in requests'[a] :
            \/ r \in requests[a]
            \/ listener[a].at = "handler" /\ r = listener[a].req
      <4>1. CASE HandlerKeep(a)
        BY <4>1 DEF TypeOK, HandlerKeep
      <4>2. CASE FinishRequest(a)
        BY <4>2 DEF TypeOK, FinishRequest
      <4>3. CASE ~HandlerKeep(a) /\ ~FinishRequest(a)
        BY <4>3 DEF Handle, HandlerAnswer, HandlerReturn, HandlerThrow,
                    CatchException
      <4> QED BY <4>1, <4>2, <4>3
    <3> QED BY <2>2, <3>1, <3>2 DEF Holds
  <2> QED BY <2>1, <2>2
<1> HIDE DEF Held, Sends
<1>6. \A p \in Peers, kind \in {"request", "answer"}, i \in Ids, c \in Calls :
        Has(inbox'[p], kind, i, c) =>
          \/ Has(inbox[p], kind, i, c)
          \/ p = Other(a) /\ kind = "answer" /\ Carries(p, i, c)
  <2>1. CASE UNCHANGED inbox
    BY <2>1
  <2>2. ASSUME NEW r \in Requests, Held(r), Sends(r)
        PROVE  \A p \in Peers, kind \in {"request", "answer"}, i \in Ids,
                  c \in Calls :
                 Has(inbox'[p], kind, i, c) =>
                   \/ Has(inbox[p], kind, i, c)
                   \/ p = Other(a) /\ kind = "answer" /\ Carries(p, i, c)
    <3>1. PICK type \in AnswerTypes : SendAnswer(inbox, a, r, type)
      BY <2>2 DEF Sends
    <3>2. \A p \in Peers, kind \in {"request", "answer"}, i \in Ids,
             c \in Calls :
            Has(inbox'[p], kind, i, c) =>
              \/ Has(inbox[p], kind, i, c)
              \/ p = Other(a) /\ kind = "answer" /\ r.id = i /\ r.call = c
      BY <3>1, QueuesType, AnswerCarries
    <3>3. Carries(Other(a), r.id, r.call)
      BY <1>4, <2>2, OtherTwice, CarriesIs
    <3> QED BY <3>2, <3>3
  <2> QED BY <1>3, <2>1, <2>2
<1> QED BY <1>1, <1>5, <1>6, MovesIf

\* Everything else but Issue.
OtherStep(a) ==
  \/ \E c \in Calls : CallDisconnected(a, c)
  \/ RegCallback(a) \/ (\E name \in Ids : UnregCallback(a, name))
  \/ Destroy(a) \/ Deliver(a) \/ OnClose(a) \/ LinkBreak \/ UNCHANGED vars

LEMMA OtherMoves ==
  ASSUME TypeOK, NEW a \in Peers, OtherStep(a)
  PROVE  Moves
<1>1. \A p \in Peers, i \in Ids :
        call_map'[p][i] \in {call_map[p][i], NoCall}
  <2>1. CASE Destroy(a)
    BY <2>1 DEF TypeOK, Destroy
  <2>2. CASE ~Destroy(a)
    BY <2>2 DEF OtherStep, CallDisconnected, RegCallback, UnregCallback,
                Deliver, OnClose, LinkBreak, vars
  <2> QED BY <2>1, <2>2
<1>2. /\ UNCHANGED requests
      /\ \A p \in Peers : listener'[p] = listener[p] \/ listener'[p] = Idle
  BY DEF OtherStep, TypeOK, CallDisconnected, RegCallback, UnregCallback,
         Destroy, Deliver, OnClose, LinkBreak, vars
<1>3. \A p \in Peers, i \in Ids, c \in Calls :
        Holds(p, i, c)' => Holds(p, i, c)
  BY <1>2 DEF Holds, Idle
<1>4. \A p \in Peers :
        \/ inbox'[p] = inbox[p] \/ inbox'[p] = <<>>
        \/ \E k \in 0 .. Len(inbox[p]) : inbox'[p] = SubSeq(inbox[p], 1, k)
  <2>1. CASE LinkBreak
    <3>1. PICK n \in 0 .. Len(inbox[Client]), m \in 0 .. Len(inbox[Server]) :
            inbox' = [inbox EXCEPT ![Client] = SubSeq(@, 1, n),
                                   ![Server] = SubSeq(@, 1, m)]
      BY <2>1 DEF LinkBreak
    <3> QED BY <3>1, QueuesType, PeersAssumption DEF Peers
  <2>2. CASE ~LinkBreak
    BY <2>2, QueuesType
       DEF OtherStep, CallDisconnected, RegCallback, UnregCallback,
           Destroy, Deliver, OnClose, vars
  <2> QED BY <2>1, <2>2
<1>5. \A p \in Peers, kind \in {"request", "answer"}, i \in Ids, c \in Calls :
        Has(inbox'[p], kind, i, c) => Has(inbox[p], kind, i, c)
  <2> TAKE p \in Peers, kind \in {"request", "answer"}, i \in Ids, c \in Calls
  <2>1. ~Has(<<>>, kind, i, c)
    BY DEF Has
  <2>2. inbox[p] \in Seq(Msgs)
    BY QueuesType
  <2>3. \A k \in 0 .. Len(inbox[p]) :
          Has(SubSeq(inbox[p], 1, k), kind, i, c) => Has(inbox[p], kind, i, c)
    BY <2>2, HasSubSeq
  <2> QED BY <1>4, <2>1, <2>3
<1> QED BY <1>1, <1>3, <1>5, MovesIf

-----------------------------------------------------------------------------
(* Ids stay apart.                                                         *)

LEMMA StepKinds ==
  ASSUME [Next]_vars
  PROVE  \E a \in Peers :
           \/ \E c \in Calls, op \in Ops, name \in Ids : Issue(a, c, op, name)
           \/ OnMethodCall(a) \/ OnDiscover(a) \/ OnCallback(a)
           \/ FinishCall(a)
           \/ Handle(a) \/ CatchException(a) \/ FinishRequest(a)
           \/ OtherStep(a)
<1>1. 0 \in Ids /\ Client \in Peers
  BY IdSpaceAssumption DEF Ids, Peers
<1>2. CASE LinkBreak \/ UNCHANGED vars
  BY <1>1, <1>2 DEF OtherStep
<1>3. ASSUME NEW a \in Peers, Application(a)
      PROVE  \/ \E c \in Calls, op \in Ops, name \in Ids : Issue(a, c, op, name)
             \/ OtherStep(a)
  BY <1>1, <1>3
     DEF Application, Call, Discover, CallCallback, Ops, OtherStep
<1>4. ASSUME NEW a \in Peers, Deliver(a) \/ OnClose(a) PROVE OtherStep(a)
  BY <1>4 DEF OtherStep
<1> QED BY <1>2, <1>3, <1>4 DEF Next, Receive

LEMMA IdsStayApart ==
  ASSUME TypeOK, IdsDiffer, Moves,
         \A p \in Peers : call_id'[p] \in Nat /\ call_id'[p] >= call_id[p],
         \A c \in Calls : outcome'[c] = "idle" => outcome[c] = "idle",
         \A p \in Peers : \A name \in cb_map'[p] \cup retired'[p] :
           name < call_id'[p]
  PROVE  IdsDiffer'
<1>1. ASSUME NEW p \in Peers, NEW i \in Ids, NEW c \in Calls,
             Carries(p, i, c)'
      PROVE  i < call_id'[p] /\ outcome'[c] # "idle"
  <2>1. Carries(p, i, c)
    BY <1>1 DEF Moves
  <2>2. i < call_id[p] /\ outcome[c] # "idle"
    BY <2>1 DEF IdsDiffer
  <2>3. i \in Int /\ call_id[p] \in Nat
    BY DEF TypeOK, Ids
  <2> QED BY <2>2, <2>3
<1>2. ASSUME NEW p \in Peers, NEW i \in Ids, NEW c \in Calls,
             NEW d \in Calls, Carries(p, i, c)', Carries(p, i, d)'
      PROVE  c = d
  <2>1. Carries(p, i, c) /\ Carries(p, i, d)
    BY <1>2 DEF Moves
  <2> QED BY <2>1 DEF IdsDiffer
<1>3. ASSUME NEW p \in Peers, NEW q \in Peers, NEW i \in Ids, NEW j \in Ids,
             NEW c \in Calls, Carries(p, i, c)', Carries(q, j, c)'
      PROVE  p = q /\ i = j
  <2>1. Carries(p, i, c) /\ Carries(q, j, c)
    BY <1>3 DEF Moves
  <2> QED BY <2>1 DEF IdsDiffer
<1> QED BY <1>1, <1>2, <1>3, Zenon DEF IdsDiffer

\* The names of a step that takes no id.
LEMMA OldNames ==
  ASSUME IdsDiffer, UNCHANGED call_id,
         \A p \in Peers : cb_map'[p] \cup retired'[p] \subseteq cb_map[p] \cup retired[p]
  PROVE  \A p \in Peers : \A name \in cb_map'[p] \cup retired'[p] :
           name < call_id'[p]
BY DEF IdsDiffer

LEMMA IssueApart ==
  ASSUME NeverWraps, TypeOK, IdsDiffer, NEW a \in Peers,
         NEW c \in Calls, NEW op \in Ops, NEW name \in Ids,
         Issue(a, c, op, name)
  PROVE  IdsDiffer'
<1> DEFINE id == call_id[a] % IdSpace
           m == [kind |-> "request", id |-> id, call |-> c, op |-> op,
                 name |-> name]
<1>1. /\ id = call_id[a] /\ id \in Ids /\ call_id[a] \in Nat
      /\ \A p \in Peers : call_id[p] \in Nat
  BY FreshId DEF Issue, TypeOK
<1>2. m \in Msgs
  BY <1>1 DEF Msgs, RequestMsgs
<1>3. m.kind = "request" /\ m.id = id /\ m.call = c
  OBVIOUS
<1>4. /\ inbox' = Push(inbox, a, m)
      /\ UNCHANGED <<listener, requests, cb_map, retired>>
      /\ \A p \in Peers, i \in Ids :
           call_map'[p][i] = IF p = a /\ i = id THEN c ELSE call_map[p][i]
      /\ \A p \in Peers :
           call_id'[p] = IF p = a THEN call_id[p] + 1 ELSE call_id[p]
      /\ outcome[c] = "idle" /\ outcome'[c] = "pending"
      /\ \A d \in Calls : outcome'[d] = "idle" => outcome[d] = "idle"
  <2>1. /\ call_map \in [Peers -> [Ids -> Calls \cup {NoCall}]]
        /\ call_map' = [call_map EXCEPT ![a][id] = c]
        /\ call_id \in [Peers -> Nat]
        /\ call_id' = [call_id EXCEPT ![a] = @ + 1]
    BY DEF Issue, TypeOK
  <2>2. \A p \in Peers, i \in Ids :
          call_map'[p][i] = IF p = a /\ i = id THEN c ELSE call_map[p][i]
    <3> HIDE DEF id
    <3> QED BY <1>1, <2>1
  <2> QED BY <2>1, <2>2 DEF Issue
<1> HIDE DEF m, id
<1>5. \A p \in Peers : \A kind, i, d :
        Has(inbox'[p], kind, i, d) =>
          \/ Has(inbox[p], kind, i, d)
          \/ p = Other(a) /\ m.kind = kind /\ m.id = i /\ m.call = d
  <2>1. \A p \in Peers : \A kind, i, d :
          Has(Push(inbox, a, m)[p], kind, i, d) =>
            \/ Has(inbox[p], kind, i, d)
            \/ p = Other(a) /\ m.kind = kind /\ m.id = i /\ m.call = d
    BY <1>2, QueuesType, SentCarries, Zenon
  <2>2. inbox' = Push(inbox, a, m)
    BY <1>4
  <2> QED BY <2>1, <2>2, Zenon
<1>6. ASSUME NEW p \in Peers, NEW i \in Ids, NEW d \in Calls,
             Carries(p, i, d)'
      PROVE  Carries(p, i, d) \/ (p = a /\ i = id /\ d = c)
  <2>1. \/ call_map'[p][i] = d
        \/ Has(inbox'[Other(p)], "request", i, d)
        \/ Has(inbox'[p], "answer", i, d)
        \/ Holds(Other(p), i, d)'
    BY <1>6 DEF Carries, Due
  <2>2. Other(p) \in Peers /\ (Other(p) = Other(a) => p = a)
    BY PeersAssumption DEF Peers, Other
  <2>3. Holds(Other(p), i, d)' => Holds(Other(p), i, d)
    <3>1. UNCHANGED <<listener, requests>>
      BY <1>4
    <3> QED BY <3>1 DEF Holds
  <2>4. call_map'[p][i] = d =>
          \/ call_map[p][i] = d
          \/ p = a /\ i = id /\ d = c
    BY <1>4
  <2>5. Has(inbox'[Other(p)], "request", i, d) =>
          \/ Has(inbox[Other(p)], "request", i, d)
          \/ p = a /\ i = id /\ d = c
    BY <1>3, <1>5, <2>2
  <2>6. Has(inbox'[p], "answer", i, d) => Has(inbox[p], "answer", i, d)
    BY <1>3, <1>5
  <2> QED BY <2>1, <2>3, <2>4, <2>5, <2>6, CarriesIs
<1>7. \A p \in Peers, i \in Ids, d \in Calls :
        Carries(p, i, d) => /\ i < call_id[p] /\ d # c
                            /\ ~(p = a /\ i = id)
  BY <1>1, <1>4 DEF IdsDiffer
<1>8. \A p \in Peers, i \in Ids, d \in Calls :
        Carries(p, i, d)' => i < call_id'[p] /\ outcome'[d] # "idle"
  <2> TAKE p \in Peers, i \in Ids, d \in Calls
  <2> HAVE Carries(p, i, d)'
  <2>1. CASE Carries(p, i, d)
    <3>1. i < call_id[p] /\ outcome[d] # "idle" /\ i \in Int
      BY <2>1 DEF IdsDiffer, Ids
    <3> QED BY <1>1, <1>4, <3>1
  <2>2. CASE p = a /\ i = id /\ d = c
    BY <1>1, <1>4, <2>2
  <2> QED BY <1>6, <2>1, <2>2
<1>9. \A p \in Peers, i \in Ids, d, e \in Calls :
        Carries(p, i, d)' /\ Carries(p, i, e)' => d = e
  <2> TAKE p \in Peers, i \in Ids, d, e \in Calls
  <2> HAVE Carries(p, i, d)' /\ Carries(p, i, e)'
  <2> QED BY <1>6, <1>7 DEF IdsDiffer
<1>10. \A p, q \in Peers, i, j \in Ids, d \in Calls :
         Carries(p, i, d)' /\ Carries(q, j, d)' => p = q /\ i = j
  <2> TAKE p, q \in Peers, i, j \in Ids, d \in Calls
  <2> HAVE Carries(p, i, d)' /\ Carries(q, j, d)'
  <2> QED BY <1>6, <1>7 DEF IdsDiffer
<1>11. \A p \in Peers : \A n \in cb_map'[p] \cup retired'[p] :
         n < call_id'[p]
  <2> TAKE p \in Peers
  <2> TAKE n \in cb_map'[p] \cup retired'[p]
  <2>1. n \in cb_map[p] \cup retired[p] /\ n \in Int
    BY <1>4 DEF TypeOK, Ids
  <2>2. n < call_id[p]
    BY <2>1 DEF IdsDiffer
  <2> QED BY <1>1, <1>4, <2>1, <2>2
<1> QED BY <1>8, <1>9, <1>10, <1>11, Zenon DEF IdsDiffer

LEMMA ApartStep ==
  ASSUME NeverWraps, IInv, [Next]_vars
  PROVE  IdsDiffer' /\ NamesStayRetired'
<1>1. TypeOK /\ IdsDiffer /\ NamesStayRetired
  BY DEF IInv, HInv
<1> DEFINE NoNewNames == \A p \in Peers : cb_map'[p] \cup retired'[p]
                                            \subseteq cb_map[p] \cup retired[p]
           NoneIdle == \A c \in Calls : outcome'[c] = "idle" => outcome[c] = "idle"
<1>2. \A p \in Peers : call_id[p] \in Nat
  BY <1>1 DEF TypeOK
<1>3. ASSUME Moves, NoNewNames, NoneIdle, UNCHANGED call_id PROVE IdsDiffer'
  BY <1>1, <1>2, <1>3, OldNames, IdsStayApart
<1>4. ASSUME UNCHANGED <<cb_map, retired>>
      PROVE  NoNewNames /\ NamesStayRetired'
  BY <1>1, <1>4 DEF NamesStayRetired
<1>5. UNCHANGED outcome => NoneIdle
  OBVIOUS
<1>6. PICK a \in Peers :
        \/ \E c \in Calls, op \in Ops, name \in Ids : Issue(a, c, op, name)
        \/ OnMethodCall(a) \/ OnDiscover(a) \/ OnCallback(a)
        \/ FinishCall(a)
        \/ Handle(a) \/ CatchException(a) \/ FinishRequest(a)
        \/ OtherStep(a)
  BY StepKinds
<1>7. ASSUME NEW c \in Calls, NEW op \in Ops, NEW name \in Ids,
             Issue(a, c, op, name)
      PROVE  IdsDiffer' /\ NamesStayRetired'
  BY <1>1, <1>4, <1>7, IssueApart DEF Issue
<1>8. CASE OnMethodCall(a) \/ OnDiscover(a)
  <2>1. Moves
    <3>1. CASE OnMethodCall(a)
      BY <1>1, <3>1, ServeMoves DEF OnMethodCall, AnswerTypes
    <3>2. CASE OnDiscover(a)
      BY <1>1, <3>2, ServeMoves DEF OnDiscover, AnswerTypes
    <3> QED BY <1>8, <3>1, <3>2
  <2>2. UNCHANGED <<cb_map, retired, outcome, call_id>>
    BY <1>8 DEF OnMethodCall, OnDiscover
  <2> QED BY <1>3, <1>4, <1>5, <2>1, <2>2
<1>9. CASE OnCallback(a)
  <2>1. Moves
    BY <1>1, <1>9, ServeMoves DEF OnCallback, AnswerTypes
  <2>2. UNCHANGED <<outcome, call_id>>
    BY <1>9 DEF OnCallback
  <2>3. NoNewNames /\ NamesStayRetired'
    <3> DEFINE name == Head(inbox[a]).name
    <3>1. \/ UNCHANGED <<cb_map, retired>>
          \/ /\ name \in cb_map[a]
             /\ cb_map' = [cb_map EXCEPT ![a] = @ \ {name}]
             /\ retired' = [retired EXCEPT ![a] = @ \cup {name}]
      BY <1>9 DEF OnCallback
    <3> HIDE DEF name
    <3>2. ASSUME name \in cb_map[a],
                 cb_map' = [cb_map EXCEPT ![a] = @ \ {name}],
                 retired' = [retired EXCEPT ![a] = @ \cup {name}]
          PROVE  NoNewNames /\ NamesStayRetired'
      <4>1. \A p \in Peers :
              /\ cb_map'[p] = IF p = a THEN cb_map[p] \ {name} ELSE cb_map[p]
              /\ retired'[p] = IF p = a THEN retired[p] \cup {name}
                               ELSE retired[p]
        BY <1>1, <3>2 DEF TypeOK
      <4> QED BY <1>1, <3>2, <4>1 DEF NamesStayRetired
    <3> QED BY <1>4, <3>1, <3>2
  <2> QED BY <1>3, <1>5, <2>1, <2>2, <2>3
<1>10. CASE FinishCall(a)
  <2>1. UNCHANGED <<cb_map, retired, outcome, call_id>>
    BY <1>10 DEF FinishCall
  <2> QED BY <1>1, <1>3, <1>4, <1>5, <1>10, <2>1, FinishCallMoves
<1>11. CASE Handle(a) \/ CatchException(a) \/ FinishRequest(a)
  <2>1. UNCHANGED <<cb_map, retired, outcome, call_id>>
    BY <1>11 DEF Handle, HandlerAnswer, HandlerKeep, HandlerReturn,
                 HandlerThrow, CatchException, FinishRequest
  <2> QED BY <1>1, <1>3, <1>4, <1>5, <1>11, <2>1, RequestMoves
<1>12. CASE OtherStep(a)
  <2>1. Moves
    BY <1>1, <1>12, OtherMoves
  <2>2. NoneIdle
    <3>1. outcome \in [Calls -> Outcomes]
      BY <1>1 DEF TypeOK
    <3>2. ASSUME NEW c \in Calls, CallDisconnected(a, c) PROVE NoneIdle
      BY <3>1, <3>2 DEF CallDisconnected
    <3>3. CASE Deliver(a)
      <4>1. listener[a].type \in AnswerTypes
        BY <1>1, <3>3, ListenerAt DEF Deliver, TypeOK
      <4>2. \A c \in Calls : outcome'[c] \in {outcome[c], listener[a].type}
        BY <3>1, <3>3 DEF Deliver
      <4> QED BY <4>1, <4>2 DEF AnswerTypes
    <3>4. CASE Destroy(a)
      BY <3>4 DEF Destroy
    <3>5. ASSUME ~Deliver(a), ~Destroy(a), ~\E c \in Calls : CallDisconnected(a, c)
          PROVE  UNCHANGED outcome
      BY <1>12, <3>5 DEF OtherStep, RegCallback, UnregCallback, OnClose,
                         LinkBreak, vars
    <3> QED BY <3>2, <3>3, <3>4, <3>5
  <2>3. CASE RegCallback(a)
    <3>1. call_id[a] % IdSpace = call_id[a]
      BY <1>2, <2>3, FreshId DEF RegCallback
    <3>2. \A p \in Peers :
            /\ call_id'[p] = IF p = a THEN call_id[p] + 1 ELSE call_id[p]
            /\ cb_map'[p] = IF p = a THEN cb_map[p] \cup {call_id[p]}
                            ELSE cb_map[p]
            /\ retired'[p] = retired[p]
      BY <1>1, <2>3, <3>1 DEF RegCallback, TypeOK
    <3>3. \A p \in Peers : \A name \in cb_map[p] \cup retired[p] :
            name \in Int /\ name < call_id[p]
      BY <1>1 DEF IdsDiffer, TypeOK, Ids
    <3>4. ASSUME NEW p \in Peers
          PROVE  /\ call_id'[p] \in Nat /\ call_id'[p] >= call_id[p]
                 /\ \A name \in cb_map'[p] \cup retired'[p] :
                      name < call_id'[p]
      <4>1. CASE p = a
        <5>1. call_id'[p] = call_id[p] + 1 /\ call_id[p] \in Nat
          BY <1>2, <3>2, <4>1
        <5>2. \A name \in cb_map'[p] \cup retired'[p] :
                \/ name \in Int /\ name < call_id[p]
                \/ name = call_id[p]
          BY <3>2, <3>3
        <5> QED BY <5>1, <5>2
      <4>2. CASE p # a
        <5>1. call_id'[p] = call_id[p] /\ call_id[p] \in Nat
          BY <1>2, <3>2, <4>2
        <5>2. cb_map'[p] \cup retired'[p] = cb_map[p] \cup retired[p]
          BY <3>2, <4>2
        <5> QED BY <3>3, <5>1, <5>2
      <4> QED BY <4>1, <4>2
    <3>6. call_id[a] \notin retired[a]
      BY <1>2, <3>3
    <3>7. NamesStayRetired'
      BY <1>1, <3>2, <3>6 DEF NamesStayRetired
    <3> QED BY <1>1, <2>1, <2>2, <3>4, <3>7, IdsStayApart
  <2>4. CASE ~RegCallback(a)
    <3>1. UNCHANGED call_id
      BY <1>12, <2>4
         DEF OtherStep, CallDisconnected, UnregCallback, Destroy, Deliver,
             OnClose, LinkBreak, vars
    <3>2. NoNewNames /\ NamesStayRetired'
      <4>1. ASSUME NEW name \in Ids, UnregCallback(a, name)
            PROVE  NoNewNames /\ NamesStayRetired'
        <5>1. \A p \in Peers :
                /\ cb_map'[p] = IF p = a THEN cb_map[p] \ {name}
                                ELSE cb_map[p]
                /\ retired'[p] = IF p = a THEN retired[p] \cup {name}
                                 ELSE retired[p]
          BY <1>1, <4>1 DEF UnregCallback, TypeOK
        <5>2. name \in cb_map[a]
          BY <4>1 DEF UnregCallback
        <5> QED BY <1>1, <5>1, <5>2 DEF NamesStayRetired
      <4>2. CASE Destroy(a)
        <5>1. \A p \in Peers :
                /\ cb_map'[p] = IF p = a THEN {} ELSE cb_map[p]
                /\ retired'[p] = retired[p]
          BY <1>1, <4>2 DEF Destroy, TypeOK
        <5> QED BY <1>1, <5>1 DEF NamesStayRetired
      <4>3. ASSUME ~Destroy(a), ~\E name \in Ids : UnregCallback(a, name)
            PROVE  UNCHANGED <<cb_map, retired>>
        BY <1>12, <2>4, <4>3
           DEF OtherStep, CallDisconnected, Deliver, OnClose, LinkBreak, vars
      <4> QED BY <1>4, <4>1, <4>2, <4>3
    <3> QED BY <1>3, <2>1, <2>2, <3>1, <3>2
  <2> QED BY <2>3, <2>4
<1> QED BY <1>6, <1>7, <1>8, <1>9, <1>10, <1>11, <1>12

LEMMA MatchStep ==
  ASSUME IInv, [Next]_vars
  PROVE  AnswersMatchCalls'
<1>1. TypeOK /\ IdsDiffer /\ AnswersMatchCalls
  BY DEF IInv, HInv
<1>2. PICK a \in Peers :
        \/ \E c \in Calls, op \in Ops, name \in Ids : Issue(a, c, op, name)
        \/ OnMethodCall(a) \/ OnDiscover(a) \/ OnCallback(a)
        \/ FinishCall(a)
        \/ Handle(a) \/ CatchException(a) \/ FinishRequest(a)
        \/ OtherStep(a)
  BY StepKinds
<1>3. CASE FinishCall(a) /\ call_map[a][Head(inbox[a]).id] # NoCall
  <2> DEFINE m == Head(inbox[a])
             i == m.id
  <2>1. m \in AnswerMsgs /\ inbox[a] # <<>> /\ inbox[a] \in Seq(Msgs)
    BY <1>1, <1>3, QueuesType, PopType, HeadOfKind DEF FinishCall, Receives
  <2>2. i \in Ids /\ m.call \in Calls /\ m.kind = "answer"
    BY <2>1 DEF AnswerMsgs
  <2>3. call_map[a][i] \in Calls
    BY <1>1, <1>3, <2>2 DEF TypeOK
  <2>4. Has(inbox[a], "answer", i, m.call)
    BY <2>1, <2>2, HasTail
  <2>5. listener' = [listener EXCEPT
                       ![a] = [at |-> "deliver", type |-> m.type,
                               call |-> call_map[a][i], for |-> m.call]]
    BY <1>3 DEF FinishCall
  <2> HIDE DEF m, i
  <2>6. call_map[a][i] = m.call
    BY <1>1, <2>2, <2>3, <2>4, CarriesIs DEF IdsDiffer
  <2>7. \A p \in Peers : \/ listener'[p] = listener[p]
                         \/ listener'[p].call = listener'[p].for
    BY <1>1, <2>5, <2>6 DEF TypeOK
  <2> QED BY <1>1, <2>7 DEF AnswersMatchCalls
<1>4. CASE ~(FinishCall(a) /\ call_map[a][Head(inbox[a]).id] # NoCall)
  <2>1. \/ UNCHANGED listener
        \/ \E l : l.at # "deliver" /\ listener' = [listener EXCEPT ![a] = l]
    BY <1>2, <1>4
       DEF Issue, OnMethodCall, OnDiscover, OnCallback, StartHandler,
           AnswerAtOnce, FinishCall, Handle, HandlerAnswer, HandlerKeep,
           HandlerReturn, HandlerThrow, CatchException, FinishRequest,
           OtherStep, CallDisconnected, RegCallback, UnregCallback, Destroy,
           Deliver, OnClose, LinkBreak, vars, Handling, Idle
  <2>2. \A p \in Peers : \/ listener'[p] = listener[p]
                         \/ listener'[p].at # "deliver"
    BY <1>1, <2>1 DEF TypeOK
  <2> QED BY <1>1, <2>2 DEF AnswersMatchCalls
<1> QED BY <1>3, <1>4

LEMMA InitApart == Init => IInv
<1> SUFFICES ASSUME Init PROVE IInv
  OBVIOUS
<1>1. \A p \in Peers, i \in Ids, c \in Calls : ~Carries(p, i, c)
  <2> TAKE p \in Peers, i \in Ids, c \in Calls
  <2>1. ~Has(<<>>, "request", i, c) /\ ~Has(<<>>, "answer", i, c)
    BY DEF Has
  <2>2. Other(p) \in Peers
    BY OtherIsPeer
  <2>3. ~Holds(Other(p), i, c)
    BY <2>2 DEF Init, Holds, Idle
  <2>4. call_map[p][i] # c /\ inbox[p] = <<>> /\ inbox[Other(p)] = <<>>
    BY <2>2, NoCallAssumption DEF Init
  <2> QED BY <2>1, <2>3, <2>4, CarriesIs
<1>2. IdsDiffer
  BY <1>1 DEF Init, IdsDiffer
<1>3. AnswersMatchCalls /\ NamesStayRetired
  BY DEF Init, AnswersMatchCalls, NamesStayRetired, Idle
<1> QED BY <1>2, <1>3, InitType, InitHeld DEF IInv, HInv

LEMMA IInvStep == NeverWraps => (IInv /\ [Next]_vars => IInv')
  BY ApartStep, MatchStep, TypeStep, HeldStep DEF IInv, HInv

\* Before _call_id wraps round an answer reaches the call it was made for,
\* for any number of calls, peers' deaths and lost messages included.
THEOREM AnswersMatch ==
  ASSUME NeverWraps
  PROVE  Spec => []AnswersMatchCalls
<1>1. IInv => AnswersMatchCalls
  BY DEF IInv
<1>2. IInv /\ [Next]_vars => IInv'
  BY IInvStep
<1> QED BY <1>1, <1>2, InitApart, PTL DEF Spec

\* Before _call_id wraps round no callback name is registered again once it
\* was called or unregistered, though calls take ids from the same counter.
THEOREM NamesRetire ==
  ASSUME NeverWraps
  PROVE  Spec => []NamesStayRetired
<1>1. IInv => NamesStayRetired
  BY DEF IInv
<1>2. IInv /\ [Next]_vars => IInv'
  BY IInvStep
<1> QED BY <1>1, <1>2, InitApart, PTL DEF Spec

-----------------------------------------------------------------------------
(* The first answer is the one the callback gets.                          *)

LEMMA AnsweredAppend ==
  ASSUME NEW s \in Seq(Msgs), NEW m \in Msgs, NEW c
  PROVE  /\ AnsweredIn(Append(s, m), c) <=> AnsweredIn(s, c) \/ Answers(m, c)
         /\ \A t : FirstAnswerIs(s, c, t)
                     /\ (Answers(m, c) => AnsweredIn(s, c) \/ m.type = t)
                   => FirstAnswerIs(Append(s, m), c, t)
<1> DEFINE x == Append(s, m)
<1>1. /\ Len(x) = Len(s) + 1 /\ Len(s) \in Nat
      /\ \A n \in 1 .. Len(s) : x[n] = s[n]
      /\ x[Len(s) + 1] = m
  BY AppendIs
<1> HIDE DEF x
<1>2. /\ \A n \in 1 .. Len(x) : n \in 1 .. Len(s) \/ n = Len(s) + 1
      /\ \A n \in 1 .. Len(s) : n \in 1 .. Len(x)
      /\ Len(s) + 1 \in 1 .. Len(x)
  BY <1>1
<1>3. AnsweredIn(x, c) <=> AnsweredIn(s, c) \/ Answers(m, c)
  BY <1>1, <1>2 DEF AnsweredIn
<1>4. ASSUME NEW t, FirstAnswerIs(s, c, t),
             Answers(m, c) => AnsweredIn(s, c) \/ m.type = t
      PROVE  FirstAnswerIs(x, c, t)
  <2> SUFFICES ASSUME NEW n \in 1 .. Len(x), Answers(x[n], c)
               PROVE  \/ x[n].type = t
                      \/ \E k \in 1 .. n - 1 : Answers(x[k], c)
    BY DEF FirstAnswerIs
  <2>1. CASE n \in 1 .. Len(s)
    <3>1. \/ s[n].type = t
          \/ \E k \in 1 .. n - 1 : Answers(s[k], c)
      BY <1>1, <1>4, <2>1 DEF FirstAnswerIs
    <3>2. \A k \in 1 .. n - 1 : k \in 1 .. Len(s)
      BY <1>1, <2>1
    <3> QED BY <1>1, <2>1, <3>1, <3>2
  <2>2. CASE n = Len(s) + 1
    <3>1. m.type = t \/ \E k \in 1 .. Len(s) : Answers(s[k], c)
      BY <1>1, <1>4, <2>2 DEF AnsweredIn
    <3>2. \A k \in 1 .. Len(s) : k \in 1 .. n - 1
      BY <1>1, <2>2
    <3> QED BY <1>1, <2>2, <3>1, <3>2
  <2> QED BY <1>2, <2>1, <2>2
<1> QED BY <1>3, <1>4 DEF x

LEMMA AnsweredTail ==
  ASSUME NEW s \in Seq(Msgs), s # <<>>, NEW c
  PROVE  /\ ~Answers(Head(s), c) =>
              /\ AnsweredIn(Tail(s), c) <=> AnsweredIn(s, c)
              /\ \A t : FirstAnswerIs(s, c, t) => FirstAnswerIs(Tail(s), c, t)
         /\ Answers(Head(s), c) =>
              /\ AnsweredIn(s, c)
              /\ \A t : FirstAnswerIs(s, c, t) => Head(s).type = t
<1> DEFINE x == Tail(s)
<1>1. /\ Len(x) = Len(s) - 1 /\ Len(s) \in Nat \ {0}
      /\ \A n \in 1 .. Len(s) - 1 : x[n] = s[n + 1]
      /\ Head(s) = s[1]
  BY TailIs
<1> HIDE DEF x
<1>2. ASSUME Answers(Head(s), c)
      PROVE  /\ AnsweredIn(s, c)
             /\ \A t : FirstAnswerIs(s, c, t) => Head(s).type = t
  <2>1. 1 \in 1 .. Len(s) /\ ~\E k \in 1 .. 1 - 1 : TRUE
    BY <1>1
  <2> QED BY <1>1, <1>2, <2>1 DEF AnsweredIn, FirstAnswerIs
<1>3. ASSUME ~Answers(Head(s), c)
      PROVE  AnsweredIn(x, c) <=> AnsweredIn(s, c)
  <2>1. ASSUME NEW n \in 1 .. Len(s), Answers(s[n], c)
        PROVE  AnsweredIn(x, c)
    <3>1. n # 1
      BY <1>1, <1>3, <2>1
    <3>2. n - 1 \in 1 .. Len(x) /\ x[n - 1] = s[n]
      <4>1. n - 1 \in 1 .. Len(s) - 1 /\ (n - 1) + 1 = n
        BY <1>1, <3>1
      <4> QED BY <1>1, <4>1
    <3> QED BY <2>1, <3>2 DEF AnsweredIn
  <2>2. \A n \in 1 .. Len(x) : n + 1 \in 1 .. Len(s) /\ x[n] = s[n + 1]
    BY <1>1
  <2> QED BY <2>1, <2>2 DEF AnsweredIn
<1>4. ASSUME ~Answers(Head(s), c), NEW t, FirstAnswerIs(s, c, t)
      PROVE  FirstAnswerIs(x, c, t)
  <2> SUFFICES ASSUME NEW n \in 1 .. Len(x), Answers(x[n], c)
               PROVE  \/ x[n].type = t
                      \/ \E k \in 1 .. n - 1 : Answers(x[k], c)
    BY DEF FirstAnswerIs
  <2>1. n + 1 \in 1 .. Len(s) /\ x[n] = s[n + 1]
    BY <1>1
  <2>2. \/ s[n + 1].type = t
        \/ \E k \in 1 .. (n + 1) - 1 : Answers(s[k], c)
    BY <1>4, <2>1 DEF FirstAnswerIs
  <2>3. ASSUME NEW k \in 1 .. (n + 1) - 1, Answers(s[k], c)
        PROVE  \E j \in 1 .. n - 1 : Answers(x[j], c)
    <3>1. k # 1
      BY <1>1, <1>4, <2>3
    <3>2. k - 1 \in 1 .. n - 1 /\ x[k - 1] = s[k]
      <4>1. k - 1 \in 1 .. Len(s) - 1 /\ k - 1 \in 1 .. n - 1 /\ (k - 1) + 1 = k
        BY <1>1, <2>1, <3>1
      <4> QED BY <1>1, <4>1
    <3> QED BY <2>3, <3>2
  <2> QED BY <2>1, <2>2, <2>3
<1> QED BY <1>2, <1>3, <1>4 DEF x

LEMMA AnsweredSubSeq ==
  ASSUME NEW s \in Seq(Msgs), NEW k \in 0 .. Len(s), NEW c
  PROVE  /\ AnsweredIn(SubSeq(s, 1, k), c) => AnsweredIn(s, c)
         /\ \A t : FirstAnswerIs(s, c, t)
                   => FirstAnswerIs(SubSeq(s, 1, k), c, t)
<1> DEFINE x == SubSeq(s, 1, k)
<1>1. Len(x) = k /\ \A n \in 1 .. k : n \in 1 .. Len(s) /\ x[n] = s[n]
  BY SubSeqIs
<1> HIDE DEF x
<1>2. AnsweredIn(x, c) => AnsweredIn(s, c)
  BY <1>1 DEF AnsweredIn
<1>3. ASSUME NEW t, FirstAnswerIs(s, c, t), NEW n \in 1 .. Len(x),
             Answers(x[n], c)
      PROVE  x[n].type = t \/ \E j \in 1 .. n - 1 : Answers(x[j], c)
  <2>1. s[n].type = t \/ \E j \in 1 .. n - 1 : Answers(s[j], c)
    BY <1>1, <1>3 DEF FirstAnswerIs
  <2>2. \A j \in 1 .. n - 1 : j \in 1 .. k
    BY <1>1
  <2> QED BY <1>1, <2>1, <2>2
<1> QED BY <1>2, <1>3 DEF x, FirstAnswerIs

\* A step that gives c no answer and takes none of it from its issuer.
LEMMA WayKept ==
  ASSUME NEW p \in Peers, NEW c \in Calls, VerdictOnItsWay(p, c),
         Owns(p, c)' => Owns(p, c),
         answers'[c] = answers[c],
         Delivers(p)' => Delivers(p),
         Owns(p, c)' =>
           /\ AnsweredIn(inbox'[p], c) => AnsweredIn(inbox[p], c)
           /\ Delivers(p)' /\ AnsweredIn(inbox[p], c)
                => AnsweredIn(inbox'[p], c)
           /\ \A t : FirstAnswerIs(inbox[p], c, t)
                     => FirstAnswerIs(inbox'[p], c, t),
         Delivering(p, c)' => Delivering(p, c) /\ listener'[p] = listener[p]
  PROVE  VerdictOnItsWay(p, c)'
<1>1. Owns(p, c)' /\ AnsweredIn(inbox'[p], c) =>
        answers'[c] # <<>> /\ FirstAnswerIs(inbox'[p], c, Head(answers'[c]))
  BY DEF VerdictOnItsWay
<1>2. Owns(p, c)' /\ answers'[c] # <<>> /\ Delivers(p)'
        => AnsweredIn(inbox'[p], c)
  BY DEF VerdictOnItsWay
<1>3. Delivering(p, c)' =>
        answers'[c] # <<>> /\ listener'[p].type = Head(answers'[c])
  BY DEF VerdictOnItsWay
<1> QED BY <1>1, <1>2, <1>3, Zenon DEF VerdictOnItsWay

\* A step that starts nothing for c, and settles it only when it should.
LEMMA AwaitedKept ==
  ASSUME NEW q \in Peers, NEW c \in Calls, Awaited(q, c),
         \A i \in Ids : Due(q, i, c)' => Due(q, i, c),
         outcome[c] = "pending" =>
           \/ outcome'[c] = "pending" \/ answers'[c] # <<>>
           \/ ~\E i \in Ids : Due(q, i, c)'
           \/ peer'[Other(q)] = "destroyed",
         answers[c] # <<>> => answers'[c] # <<>>,
         peer[Other(q)] = "destroyed" => peer'[Other(q)] = "destroyed"
  PROVE  Awaited(q, c)'
<1> SUFFICES ASSUME \E i \in Ids : Due(q, i, c)'
             PROVE  \/ outcome'[c] = "pending"
                    \/ answers'[c] # <<>>
                    \/ peer'[Other(q)] = "destroyed"
  BY DEF Awaited
<1>1. \E i \in Ids : Due(q, i, c)
  OBVIOUS
<1> QED BY <1>1 DEF Awaited

LEMMA FirstStays ==
  ASSUME NEW s \in Seq(AnswerTypes), NEW type \in AnswerTypes
  PROVE  /\ Append(s, type) # <<>>
         /\ Head(Append(s, type)) = IF s = <<>> THEN type ELSE Head(s)
<1> DEFINE x == Append(s, type)
<1>1. /\ Len(x) = Len(s) + 1 /\ Len(s) \in Nat /\ x # <<>>
      /\ \A n \in 1 .. Len(s) : x[n] = s[n]
      /\ x[Len(s) + 1] = type /\ Head(x) = x[1]
  BY AppendProperties, AnswersAppend, HeadTailProperties
<1> HIDE DEF x
<1>2. CASE s = <<>>
  <2>1. Len(s) = 0
    BY <1>2
  <2> QED BY <1>1, <1>2, <2>1 DEF x
<1>3. CASE s # <<>>
  <2>1. Head(s) = s[1] /\ 1 \in 1 .. Len(s)
    BY <1>3, HeadTailProperties, EmptySeq
  <2> QED BY <1>1, <1>3, <2>1 DEF x
<1> QED BY <1>2, <1>3

\* The steps of p's listener and of the owners of its Requests.
RequestStep(a) ==
  \/ OnMethodCall(a) \/ OnDiscover(a) \/ OnCallback(a)
  \/ Handle(a) \/ CatchException(a) \/ FinishRequest(a)

LEMMA RequestStepMoves ==
  ASSUME TypeOK, NEW a \in Peers, RequestStep(a)
  PROVE  Moves
<1>1. CASE OnMethodCall(a)
  BY <1>1, ServeMoves DEF OnMethodCall, AnswerTypes
<1>2. CASE OnDiscover(a)
  BY <1>2, ServeMoves DEF OnDiscover, AnswerTypes
<1>3. CASE OnCallback(a)
  BY <1>3, ServeMoves DEF OnCallback, AnswerTypes
<1> QED BY <1>1, <1>2, <1>3, RequestMoves DEF RequestStep

\* Such a step takes at most one request from the inbox and sends at most one
\* answer, to something that was due.
LEMMA RequestStepIs ==
  ASSUME TypeOK, NEW a \in Peers, RequestStep(a)
  PROVE  /\ UNCHANGED <<peer, link, call_map, outcome>>
         /\ \A p \in Peers :
              \/ listener'[p] = listener[p]
              \/ listener'[p].at # "deliver"
         /\ \E q :
              /\ \/ q = inbox
                 \/ q = Pop(inbox, a) /\ Receives(a, "request")
              /\ \/ inbox' = q /\ UNCHANGED answers
                 \/ \E r \in Requests, type \in AnswerTypes :
                      Due(a, r.id, r.call) /\ SendAnswer(q, a, r, type)
<1>1. UNCHANGED <<peer, link, call_map, outcome>>
  BY DEF RequestStep, OnMethodCall, OnDiscover, OnCallback, Handle,
         HandlerAnswer, HandlerKeep, HandlerReturn, HandlerThrow,
         CatchException, FinishRequest
<1>2. \/ UNCHANGED listener
      \/ \E l : l.at # "deliver" /\ listener' = [listener EXCEPT ![a] = l]
  BY DEF RequestStep, OnMethodCall, OnDiscover, OnCallback, StartHandler,
         AnswerAtOnce, Handle, HandlerAnswer, HandlerKeep, HandlerReturn,
         HandlerThrow, CatchException, FinishRequest, Handling, Idle
<1>3. \A p \in Peers :
        \/ listener'[p] = listener[p]
        \/ listener'[p].at # "deliver"
  BY <1>2 DEF TypeOK
<1> DEFINE Sends(q) == \E r \in Requests, type \in AnswerTypes :
                         Due(a, r.id, r.call) /\ SendAnswer(q, a, r, type)
           Goal == \E q : /\ \/ q = inbox
                             \/ q = Pop(inbox, a) /\ Receives(a, "request")
                          /\ \/ inbox' = q /\ UNCHANGED answers
                             \/ Sends(q)
<1>4. ASSUME inbox' = inbox /\ UNCHANGED answers PROVE Goal
  BY <1>4
<1>5. ASSUME Receives(a, "request"), NEW type \in AnswerTypes,
             \/ StartHandler(a, Head(inbox[a]))
             \/ AnswerAtOnce(a, Head(inbox[a]), type)
      PROVE  Goal
  <2> DEFINE m == Head(inbox[a])
             r == RequestOf(m)
  <2>1. m \in RequestMsgs /\ inbox[a] # <<>> /\ inbox[a] \in Seq(Msgs)
    BY <1>5, QueuesType, PopType, HeadOfKind DEF Receives
  <2>2. r \in Requests /\ r.id = m.id /\ r.call = m.call /\ m.kind = "request"
    BY <2>1 DEF RequestOf, RequestMsgs, Requests
  <2>3. Due(a, r.id, r.call)
    BY <2>1, <2>2, HasTail DEF Due
  <2> HIDE DEF r
  <2>4. CASE StartHandler(a, m)
    BY <1>5, <2>4 DEF StartHandler
  <2>5. CASE AnswerAtOnce(a, m, type)
    <3>1. SendAnswer(Pop(inbox, a), a, r, type)
      BY <2>5 DEF AnswerAtOnce, r
    <3>2. Sends(Pop(inbox, a))
      BY <2>2, <2>3, <3>1
    <3> HIDE DEF Sends
    <3> QED BY <1>5, <3>2
  <2> QED BY <1>5, <2>4, <2>5
<1>6. ASSUME NEW r \in Requests, NEW type \in AnswerTypes,
             SendAnswer(inbox, a, r, type), Holds(a, r.id, r.call)
      PROVE  Goal
  <2>1. Sends(inbox)
    BY <1>6 DEF Due
  <2> HIDE DEF Sends
  <2> QED BY <2>1
<1> HIDE DEF Goal
<1>7. Goal
  <2>1. CASE OnMethodCall(a)
    BY <1>5, <2>1 DEF OnMethodCall, AnswerTypes
  <2>2. CASE OnDiscover(a)
    BY <1>5, <2>2 DEF OnDiscover, AnswerTypes
  <2>3. CASE OnCallback(a)
    BY <1>5, <2>3 DEF OnCallback, AnswerTypes
  <2>4. ASSUME listener[a].at = "handler"
         PROVE  listener[a].req \in Requests
                /\ Holds(a, listener[a].req.id, listener[a].req.call)
    BY <2>4, HandlingType DEF Holds
  <2>5. CASE HandlerAnswer(a)
    BY <1>6, <2>4, <2>5, HandlingType DEF HandlerAnswer
  <2>6. CASE HandlerKeep(a)
    BY <1>4, <2>6 DEF HandlerKeep
  <2>7. CASE HandlerReturn(a) \/ HandlerThrow(a)
    <3>1. listener[a].at = "handler" /\ DestroyRequest(a)
      BY <2>7 DEF HandlerReturn, HandlerThrow
    <3>2. CASE listener[a].sent
      BY <1>4, <3>1, <3>2 DEF DestroyRequest
    <3>3. CASE ~listener[a].sent
      BY <1>6, <2>4, <3>1, <3>3 DEF DestroyRequest, AnswerTypes
    <3> QED BY <3>2, <3>3
  <2>8. CASE CatchException(a)
    <3>1. /\ listener[a].at = "catch"
          /\ SendAnswer(inbox, a, listener[a].req, "exception")
      BY <2>8 DEF CatchException
    <3>2. listener[a].req \in Requests
      BY <3>1, ListenerAt DEF TypeOK
    <3>3. Holds(a, listener[a].req.id, listener[a].req.call)
      BY <3>1 DEF Holds
    <3> QED BY <1>6, <3>1, <3>2, <3>3 DEF AnswerTypes
  <2>9. CASE FinishRequest(a)
    <3>1. PICK r \in requests[a] : \E type \in HandlerAnswers(r.op) :
                                     SendAnswer(inbox, a, r, type)
      BY <2>9 DEF FinishRequest
    <3>2. r \in Requests
      BY DEF TypeOK
    <3>3. Holds(a, r.id, r.call)
      BY DEF Holds
    <3> QED BY <1>6, <3>1, <3>2, <3>3, HandlerAnswersType
  <2> QED BY <2>1, <2>2, <2>3, <2>5, <2>6, <2>7, <2>8, <2>9
         DEF RequestStep, Handle
<1> QED BY <1>1, <1>3, <1>7 DEF Goal

\* Taking a request takes no answer.
LEMMA PoppedRequest ==
  ASSUME TypeOK, NEW a \in Peers, NEW q,
         q = inbox \/ (q = Pop(inbox, a) /\ Receives(a, "request"))
  PROVE  /\ q \in [Peers -> Seq(Msgs)]
         /\ \A p \in Peers, c \in Calls :
              /\ AnsweredIn(q[p], c) <=> AnsweredIn(inbox[p], c)
              /\ \A t : FirstAnswerIs(inbox[p], c, t)
                        => FirstAnswerIs(q[p], c, t)
<1>1. CASE q = inbox
  BY <1>1, QueuesType
<1>2. CASE q = Pop(inbox, a) /\ Receives(a, "request")
  <2>1. /\ inbox[a] # <<>> /\ Head(inbox[a]).kind = "request"
        /\ inbox[a] \in Seq(Msgs) /\ q \in [Peers -> Seq(Msgs)]
        /\ \A p \in Peers : q[p] = IF p = a THEN Tail(inbox[a]) ELSE inbox[p]
    BY <1>2, QueuesType, PopType DEF Receives, Pop
  <2>2. \A c : ~Answers(Head(inbox[a]), c)
    BY <2>1 DEF Answers
  <2> QED BY <2>1, <2>2, AnsweredTail
<1> QED BY <1>1, <1>2

\* What RpcPromise calls verdict.
Verdicts == [c \in Calls |-> IF answers[c] = <<>> THEN "none"
                             ELSE Head(answers[c])]

\* The answers to d grow by one: only the first counts.
LEMMA VerdictsGrow ==
  ASSUME TypeOK, NEW d \in Calls, NEW type \in AnswerTypes,
         answers' = [answers EXCEPT ![d] = Append(@, type)]
  PROVE  /\ \A c \in Calls : c # d => answers'[c] = answers[c]
         /\ answers'[d] # <<>>
         /\ Head(answers'[d]) = IF answers[d] = <<>> THEN type
                                ELSE Head(answers[d])
         /\ Verdicts' = IF answers[d] = <<>>
                        THEN [Verdicts EXCEPT ![d] = type] ELSE Verdicts
<1>1. answers[d] \in Seq(AnswerTypes)
  BY DEF TypeOK
<1>2. /\ Append(answers[d], type) # <<>>
      /\ Head(Append(answers[d], type)) = IF answers[d] = <<>> THEN type
                                          ELSE Head(answers[d])
  BY <1>1, FirstStays
<1>3. /\ \A c \in Calls : c # d => answers'[c] = answers[c]
      /\ answers'[d] = Append(answers[d], type)
  BY DEF TypeOK
<1> QED BY <1>2, <1>3 DEF Verdicts

LEMMA RequestStepWay ==
  ASSUME RInv, NEW a \in Peers, RequestStep(a)
  PROVE  /\ \A p \in Peers, c \in Calls : VerdictOnItsWay(p, c)' /\ Awaited(p, c)'
         /\ [Promise!Next]_Promise!vars
<1>1. TypeOK /\ IdsDiffer
  BY DEF RInv, IInv, HInv
<1>2. /\ UNCHANGED <<peer, link, call_map, outcome>>
      /\ \A p \in Peers :
           listener'[p] = listener[p] \/ listener'[p].at # "deliver"
  BY <1>1, RequestStepIs
<1>3. PICK q :
        /\ q = inbox \/ (q = Pop(inbox, a) /\ Receives(a, "request"))
        /\ \/ inbox' = q /\ UNCHANGED answers
           \/ \E r \in Requests, type \in AnswerTypes :
                Due(a, r.id, r.call) /\ SendAnswer(q, a, r, type)
  BY <1>1, RequestStepIs
<1>4. /\ q \in [Peers -> Seq(Msgs)]
      /\ \A p \in Peers, c \in Calls :
           /\ AnsweredIn(q[p], c) <=> AnsweredIn(inbox[p], c)
           /\ \A t : FirstAnswerIs(inbox[p], c, t) => FirstAnswerIs(q[p], c, t)
  BY <1>1, <1>3, PoppedRequest
<1>5. \A p \in Peers, c \in Calls :
        /\ VerdictOnItsWay(p, c) /\ Awaited(p, c)
        /\ Owns(p, c)' <=> Owns(p, c)
        /\ Delivers(p)' <=> Delivers(p)
        /\ Delivering(p, c)' => Delivering(p, c) /\ listener'[p] = listener[p]
  BY <1>2 DEF RInv, Owns, Delivers, Delivering
<1>6. ASSUME \A c \in Calls : answers[c] # <<>> => answers'[c] # <<>>
      PROVE  \A p \in Peers, c \in Calls : Awaited(p, c)'
  <2> TAKE p \in Peers, c \in Calls
  <2>1. \A i \in Ids : Due(p, i, c)' => Due(p, i, c)
    BY <1>1, RequestStepMoves DEF Moves
  <2> QED BY <1>2, <1>5, <1>6, <2>1, AwaitedKept
<1>7. CASE inbox' = q /\ UNCHANGED answers
  <2>1. \A p \in Peers, c \in Calls : VerdictOnItsWay(p, c)'
    BY <1>4, <1>5, <1>7, WayKept
  <2>2. UNCHANGED Promise!vars
    BY <1>2, <1>7 DEF Promise!vars
  <2> QED BY <1>6, <1>7, <2>1, <2>2
<1>8. ASSUME NEW r \in Requests, NEW type \in AnswerTypes,
             Due(a, r.id, r.call), SendAnswer(q, a, r, type), Delivers(a)
      PROVE  /\ \A p \in Peers, c \in Calls :
                  VerdictOnItsWay(p, c)' /\ Awaited(p, c)'
             /\ [Promise!Next]_Promise!vars
  <2> DEFINE d == r.call
             m == [kind |-> "answer", id |-> r.id, call |-> d, type |-> type]
  <2>1. d \in Calls /\ r.id \in Ids
    BY DEF Requests
  <2>2. m \in Msgs
    BY <2>1 DEF Msgs, AnswerMsgs
  <2>3. /\ m.type = type
        /\ \A c : Answers(m, c) <=> c = d
    BY DEF Answers
  <2>4. /\ inbox' = Push(q, a, m)
        /\ answers' = [answers EXCEPT ![d] = Append(@, type)]
    BY <1>8 DEF SendAnswer
  <2> HIDE DEF m, d
  <2>5. /\ \A c \in Calls : c # d => answers'[c] = answers[c]
        /\ answers'[d] # <<>>
        /\ Head(answers'[d]) = IF answers[d] = <<>> THEN type
                               ELSE Head(answers[d])
        /\ Verdicts' = IF answers[d] = <<>>
                       THEN [Verdicts EXCEPT ![d] = type] ELSE Verdicts
    BY <1>1, <2>1, <2>4, VerdictsGrow
  <2>6. \A p \in Peers :
          inbox'[p] = IF p = Other(a) THEN Append(q[p], m) ELSE q[p]
    BY <1>4, <1>8, <2>4 DEF Push
  <2>7. ASSUME NEW p \in Peers, NEW c \in Calls
        PROVE  /\ AnsweredIn(Append(q[p], m), c)
                    <=> AnsweredIn(inbox[p], c) \/ c = d
               /\ \A t : /\ FirstAnswerIs(inbox[p], c, t)
                         /\ c = d => AnsweredIn(inbox[p], c) \/ type = t
                         => FirstAnswerIs(Append(q[p], m), c, t)
    <3>1. q[p] \in Seq(Msgs)
      BY <1>4
    <3> QED BY <1>4, <2>2, <2>3, <3>1, AnsweredAppend
  <2>8. ASSUME NEW p \in Peers, NEW c \in Calls, c # d
        PROVE  VerdictOnItsWay(p, c)'
    <3>1. /\ AnsweredIn(inbox'[p], c) <=> AnsweredIn(inbox[p], c)
          /\ \A t : FirstAnswerIs(inbox[p], c, t)
                    => FirstAnswerIs(inbox'[p], c, t)
      BY <1>4, <2>6, <2>7, <2>8
    <3> QED BY <1>5, <2>5, <2>8, <3>1, WayKept
  <2>9. ~Owns(a, d)
    <3>1. Carries(Other(a), r.id, d) /\ Other(a) \in Peers /\ Other(a) # a
      BY <1>8, OtherTwice, OtherIsPeer DEF Carries, d
    <3>2. \A i \in Ids : ~Carries(a, i, d)
      BY <1>1, <2>1, <3>1 DEF IdsDiffer
    <3> QED BY <3>2 DEF Carries, Owns
  <2>10. ASSUME NEW p \in Peers PROVE VerdictOnItsWay(p, d)'
    <3>1. VerdictOnItsWay(p, d)
      BY <1>5, <2>1
    <3>2. Delivering(p, d)' =>
            answers'[d] # <<>> /\ listener'[p].type = Head(answers'[d])
      BY <1>5, <2>1, <2>5, <3>1 DEF VerdictOnItsWay
    <3>3. ASSUME Owns(p, d)'
          PROVE  /\ AnsweredIn(inbox'[p], d)
                 /\ FirstAnswerIs(inbox'[p], d, Head(answers'[d]))
      <4>1. Owns(p, d) /\ p = Other(a)
        BY <1>5, <2>1, <2>9, <3>3 DEF Peers, Other
      <4>2. Delivers(p)
        BY <1>8, <4>1, OtherTwice DEF Delivers
      <4>3. inbox'[p] = Append(q[p], m)
        BY <2>6, <4>1
      <4>4. CASE AnsweredIn(inbox[p], d)
        <5>1. /\ answers[d] # <<>>
              /\ FirstAnswerIs(inbox[p], d, Head(answers[d]))
          BY <3>1, <4>1, <4>4 DEF VerdictOnItsWay
        <5> QED BY <2>1, <2>5, <2>7, <4>3, <4>4, <5>1
      <4>5. CASE ~AnsweredIn(inbox[p], d)
        <5>1. answers[d] = <<>>
          BY <3>1, <4>1, <4>2, <4>5 DEF VerdictOnItsWay
        <5>2. FirstAnswerIs(inbox[p], d, type)
          BY <4>5 DEF FirstAnswerIs, AnsweredIn
        <5> QED BY <2>1, <2>5, <2>7, <4>3, <5>1, <5>2
      <4> QED BY <4>4, <4>5
    <3> QED BY <2>5, <3>2, <3>3, Zenon DEF VerdictOnItsWay
  <2>11. \A p \in Peers, c \in Calls : Awaited(p, c)'
    BY <1>6, <2>5
  <2>12. CASE answers[d] = <<>>
    <3>1. outcome[d] = "pending"
      <4>1. Awaited(a, d) /\ peer[Other(a)] # "destroyed"
        BY <1>5, <1>8, <2>1 DEF Delivers
      <4> QED BY <1>8, <2>1, <2>12, <4>1 DEF Awaited, d
    <3>2. Verdicts[d] = "none" /\ Verdicts' = [Verdicts EXCEPT ![d] = type]
      BY <2>1, <2>5, <2>12 DEF Verdicts
    <3>3. Promise!Decide(d)
      BY <1>2, <3>1, <3>2 DEF Promise!Decide, Promise!AnswerTypes, AnswerTypes, Verdicts
    <3> QED BY <2>1, <2>8, <2>10, <2>11, <3>3 DEF Promise!Next
  <2>13. CASE answers[d] # <<>>
    <3>1. UNCHANGED Promise!vars
      BY <1>2, <2>5, <2>13 DEF Promise!vars, Verdicts
    <3> QED BY <2>8, <2>10, <2>11, <3>1
  <2> QED BY <2>12, <2>13
<1>9. ASSUME NEW r \in Requests, NEW type \in AnswerTypes,
             SendAnswer(q, a, r, type), ~Delivers(a)
      PROVE  inbox' = q /\ UNCHANGED answers
  BY <1>9 DEF SendAnswer, Push
<1> QED BY <1>3, <1>7, <1>8, <1>9

\* A request that is sent answers nothing; its id is fresh, so it takes no
\* other callback's place.
LEMMA IssueWay ==
  ASSUME NeverWraps, RInv, NEW a \in Peers, NEW c \in Calls,
         NEW op \in Ops, NEW name \in Ids, Issue(a, c, op, name)
  PROVE  /\ \A p \in Peers, d \in Calls : VerdictOnItsWay(p, d)' /\ Awaited(p, d)'
         /\ [Promise!Next]_Promise!vars
<1> DEFINE id == call_id[a] % IdSpace
           m == [kind |-> "request", id |-> id, call |-> c, op |-> op,
                 name |-> name]
<1>1. TypeOK /\ IdsDiffer
  BY DEF RInv, IInv, HInv
<1>2. id = call_id[a] /\ id \in Ids /\ call_id[a] \in Nat
  BY <1>1, FreshId DEF Issue, TypeOK
<1>3. m \in Msgs
  BY <1>2 DEF Msgs, RequestMsgs
<1>4. /\ m.kind = "request" /\ m.call = c
      /\ \A d : ~Answers(m, d)
  BY DEF Answers
<1>5. /\ inbox' = Push(inbox, a, m)
      /\ UNCHANGED <<peer, link, listener, requests, answers>>
      /\ call_map' = [call_map EXCEPT ![a][id] = c]
      /\ outcome[c] = "idle"
      /\ outcome' = [d \in Calls |-> IF d = c THEN "pending"
                                     ELSE IF d = call_map[a][id] THEN "dropped"
                                     ELSE outcome[d]]
  BY DEF Issue
<1> HIDE DEF m, id
<1>6. call_map[a][id] \notin Calls
  <2>1. \A d \in Calls : ~Carries(a, id, d)
    BY <1>1, <1>2 DEF IdsDiffer
  <2> QED BY <2>1 DEF Carries
<1>7. /\ \A d \in Calls : d # c => outcome'[d] = outcome[d]
      /\ outcome' = [outcome EXCEPT ![c] = "pending"]
  <2>1. \A d \in Calls :
          outcome'[d] = IF d = c THEN "pending" ELSE outcome[d]
    BY <1>5, <1>6
  <2>2. outcome \in [Calls -> Outcomes] /\ DOMAIN outcome' = Calls
        /\ outcome' = [d \in Calls |-> outcome'[d]]
    BY <1>1, <1>5, Zenon DEF TypeOK
  <2> QED BY <2>1, <2>2
<1>8. /\ answers[c] = <<>>
      /\ \A p \in Peers : ~AnsweredIn(inbox[p], c)
  <2>1. \A p \in Peers, i \in Ids : ~Has(inbox[p], "answer", i, c)
    BY <1>1, <1>5 DEF IdsDiffer, Carries
  <2>2. ASSUME NEW p \in Peers PROVE ~AnsweredIn(inbox[p], c)
    <3> SUFFICES ASSUME NEW n \in 1 .. Len(inbox[p]), Answers(inbox[p][n], c)
                 PROVE  FALSE
      BY DEF AnsweredIn
    <3>1. inbox[p] \in Seq(Msgs)
      BY <1>1, QueuesType
    <3>2. inbox[p][n] \in Msgs
      BY <3>1
    <3>3. inbox[p][n].id \in Ids
      BY <3>2 DEF Msgs, RequestMsgs, AnswerMsgs
    <3>4. Has(inbox[p], "answer", inbox[p][n].id, c)
      BY DEF Has, Answers
    <3> QED BY <2>1, <3>3, <3>4
  <2>3. answers[c] = <<>>
    BY <1>5 DEF RInv, AInv, Accounted
  <2> QED BY <2>2, <2>3
<1>9. \A p \in Peers :
        \/ inbox'[p] = inbox[p]
        \/ inbox'[p] = Append(inbox[p], m) /\ p = Other(a)
  BY <1>1, <1>5, QueuesType DEF Push
<1>10. ASSUME NEW p \in Peers, NEW d
       PROVE  /\ AnsweredIn(inbox'[p], d) <=> AnsweredIn(inbox[p], d)
              /\ \A t : FirstAnswerIs(inbox[p], d, t)
                        => FirstAnswerIs(inbox'[p], d, t)
  <2>1. inbox[p] \in Seq(Msgs)
    BY <1>1, QueuesType
  <2>2. /\ AnsweredIn(Append(inbox[p], m), d)
             <=> AnsweredIn(inbox[p], d) \/ Answers(m, d)
        /\ \A t : FirstAnswerIs(inbox[p], d, t)
                    /\ (Answers(m, d) => AnsweredIn(inbox[p], d) \/ m.type = t)
                  => FirstAnswerIs(Append(inbox[p], m), d, t)
    BY <1>3, <2>1, AnsweredAppend
  <2>3. CASE inbox'[p] = Append(inbox[p], m)
    BY <1>4, <2>2, <2>3, Zenon
  <2> QED BY <1>9, <2>3
<1>11. \A p \in Peers, d \in Calls : VerdictOnItsWay(p, d)'
  <2> TAKE p \in Peers, d \in Calls
  <2>1. /\ VerdictOnItsWay(p, d) /\ answers'[d] = answers[d]
        /\ Delivers(p)' <=> Delivers(p)
        /\ Delivering(p, d)' => Delivering(p, d) /\ listener'[p] = listener[p]
    BY <1>5 DEF RInv, Delivers, Delivering
  <2>2. CASE d # c
    <3>1. Owns(p, d)' => Owns(p, d)
      <4>1. \A i \in Ids : call_map'[p][i] = d => call_map[p][i] = d
        <5>1. call_map \in [Peers -> [Ids -> Calls \cup {NoCall}]]
          BY <1>1 DEF TypeOK
        <5> QED BY <1>2, <1>5, <2>2, <5>1
      <4> QED BY <4>1 DEF Owns
    <3> QED BY <1>10, <2>1, <3>1, WayKept
  <2>3. CASE d = c
    <3>1. ~AnsweredIn(inbox'[p], d) /\ answers'[d] = <<>>
      BY <1>8, <1>10, <2>1, <2>3
    <3>2. Delivering(p, d)' =>
            answers'[d] # <<>> /\ listener'[p].type = Head(answers'[d])
      BY <2>1 DEF VerdictOnItsWay
    <3> QED BY <3>1, <3>2, Zenon DEF VerdictOnItsWay
  <2> QED BY <2>2, <2>3
<1>12. \A p \in Peers, d \in Calls : Awaited(p, d)'
  <2> TAKE p \in Peers, d \in Calls
  <2>1. CASE d = c
    <3>1. outcome'[d] = "pending"
      BY <1>5, <2>1
    <3> QED BY <3>1, Zenon DEF Awaited
  <2>2. CASE d # c
    <3>1. \A i \in Ids : Due(p, i, d)' => Due(p, i, d)
      <4> TAKE i \in Ids
      <4>1. inbox[p] \in Seq(Msgs)
        BY <1>1, QueuesType
      <4>2. Has(inbox'[p], "request", i, d) => Has(inbox[p], "request", i, d)
        <5>1. Has(Append(inbox[p], m), "request", i, d)
                => \/ Has(inbox[p], "request", i, d)
                   \/ m.kind = "request" /\ m.id = i /\ m.call = d
          BY <1>3, <4>1, HasAppend
        <5>2. CASE inbox'[p] = Append(inbox[p], m)
          BY <1>4, <2>2, <5>1, <5>2, Zenon
        <5> QED BY <1>9, <5>2
      <4>3. Holds(p, i, d)' => Holds(p, i, d)
        BY <1>5 DEF Holds
      <4> QED BY <4>2, <4>3 DEF Due
    <3>2. /\ Awaited(p, d) /\ outcome'[d] = outcome[d]
          /\ answers'[d] = answers[d] /\ peer' = peer
      BY <1>5, <1>7, <2>2 DEF RInv
    <3> QED BY <3>1, <3>2, AwaitedKept
  <2> QED BY <2>1, <2>2
<1>13. Promise!Issue(c)
  BY <1>5, <1>7 DEF Promise!Issue
<1> QED BY <1>11, <1>12, <1>13 DEF Promise!Next

LEMMA FinishCallWay ==
  ASSUME RInv, NEW a \in Peers, FinishCall(a)
  PROVE  /\ \A p \in Peers, d \in Calls : VerdictOnItsWay(p, d)' /\ Awaited(p, d)'
         /\ [Promise!Next]_Promise!vars
<1> DEFINE m == Head(inbox[a])
           i == m.id
           c == call_map[a][i]
<1>1. TypeOK /\ IdsDiffer /\ CallbackHeldOnce
  BY DEF RInv, IInv, HInv
<1>2. /\ m \in AnswerMsgs /\ inbox[a] # <<>> /\ inbox[a] \in Seq(Msgs)
      /\ listener[a] = Idle
  BY <1>1, QueuesType, PopType, HeadOfKind DEF FinishCall, Receives
<1>3. i \in Ids /\ m.call \in Calls /\ m.kind = "answer"
  BY <1>2 DEF AnswerMsgs
<1>4. /\ UNCHANGED <<peer, link, requests, outcome, answers>>
      /\ inbox' = Pop(inbox, a)
      /\ \A p \in Peers :
           inbox'[p] = IF p = a THEN Tail(inbox[a]) ELSE inbox[p]
  BY <1>1, QueuesType DEF FinishCall, Pop
<1>5. Has(inbox[a], "answer", i, m.call)
  BY <1>2, <1>3, HasTail
<1>6. c \in Calls => c = m.call
  <2>1. c \in Calls => Carries(a, i, c)
    BY DEF Carries
  <2>2. Carries(a, i, m.call)
    BY <1>5 DEF Carries
  <2> QED BY <1>1, <1>3, <2>1, <2>2 DEF IdsDiffer
<1>7. /\ c = NoCall => UNCHANGED <<call_map, listener>>
      /\ c # NoCall =>
           /\ call_map' = [call_map EXCEPT ![a][i] = NoCall]
           /\ listener' = [listener EXCEPT
                             ![a] = [at |-> "deliver", type |-> m.type,
                                     call |-> c, for |-> m.call]]
  BY DEF FinishCall
<1>8. \A d \in Calls : Answers(m, d) <=> d = m.call
  BY <1>3 DEF Answers
<1> DEFINE t == m.type
           k == m.call
<1>9. k \in Calls /\ (c \in Calls => c = k) /\ Has(inbox[a], "answer", i, k)
  BY <1>3, <1>5, <1>6
<1>10. /\ c = NoCall => UNCHANGED <<call_map, listener>>
       /\ c # NoCall =>
            /\ call_map' = [call_map EXCEPT ![a][i] = NoCall]
            /\ listener' = [listener EXCEPT
                              ![a] = [at |-> "deliver", type |-> t,
                                      call |-> c, for |-> k]]
  BY <1>7
<1>11. \A d \in Calls :
         /\ d # k => /\ AnsweredIn(Tail(inbox[a]), d) <=> AnsweredIn(inbox[a], d)
                     /\ \A x : FirstAnswerIs(inbox[a], d, x)
                               => FirstAnswerIs(Tail(inbox[a]), d, x)
         /\ d = k => /\ AnsweredIn(inbox[a], d)
                     /\ \A x : FirstAnswerIs(inbox[a], d, x) => t = x
  BY <1>2, <1>8, AnsweredTail
<1>12. c \in Calls \cup {NoCall} /\ c = call_map[a][i]
  BY <1>1, <1>3 DEF TypeOK
<1> HIDE DEF m, i, c, t, k
<1>13. \A p \in Peers, j \in Ids :
         call_map'[p][j] = IF p = a /\ j = i THEN NoCall ELSE call_map[p][j]
  <2>1. call_map \in [Peers -> [Ids -> Calls \cup {NoCall}]]
    BY <1>1 DEF TypeOK
  <2> QED BY <1>3, <1>10, <1>12, <2>1
<1>14. \A p \in Peers :
         \/ listener'[p] = listener[p]
         \/ /\ p = a /\ c # NoCall
            /\ listener'[p].call = c /\ listener'[p].type = t
  BY <1>1, <1>10 DEF TypeOK
<1>15. \A p \in Peers, d \in Calls : Owns(p, d)' => Owns(p, d) /\ (p = a => d # k)
  <2> TAKE p \in Peers, d \in Calls
  <2> HAVE Owns(p, d)'
  <2>1. PICK j \in Ids : call_map'[p][j] = d
    BY DEF Owns
  <2>2. call_map[p][j] = d /\ ~(p = a /\ j = i)
    BY <1>13, <2>1, NoCallAssumption
  <2>3. Carries(p, j, d)
    BY <2>2 DEF Carries
  <2>4. Carries(a, i, k)
    BY <1>9 DEF Carries
  <2> QED BY <1>1, <1>3, <1>9, <2>2, <2>3, <2>4 DEF IdsDiffer, Owns
<1>16. \A p \in Peers, d \in Calls : VerdictOnItsWay(p, d)'
  <2> TAKE p \in Peers, d \in Calls
  <2>1. /\ VerdictOnItsWay(p, d) /\ answers'[d] = answers[d]
        /\ Delivers(p)' <=> Delivers(p)
    BY <1>4 DEF RInv, Delivers
  <2>2. Owns(p, d)' =>
          /\ AnsweredIn(inbox'[p], d) <=> AnsweredIn(inbox[p], d)
          /\ \A x : FirstAnswerIs(inbox[p], d, x)
                    => FirstAnswerIs(inbox'[p], d, x)
    BY <1>4, <1>11, <1>15
  <2>3. CASE listener'[p] = listener[p]
    <3>1. Delivering(p, d)' => Delivering(p, d) /\ listener'[p] = listener[p]
      BY <2>3 DEF Delivering
    <3> QED BY <1>15, <2>1, <2>2, <3>1, WayKept
  <2>4. CASE listener'[p] # listener[p] /\ d # c
    <3>1. ~Delivering(p, d)'
      BY <1>14, <2>4 DEF Delivering
    <3> QED BY <1>15, <2>1, <2>2, <3>1, WayKept
  <2>5. CASE listener'[p] # listener[p] /\ d = c
    <3>1. p = a /\ d = k /\ listener'[p].type = t
      BY <1>9, <1>14, <2>5
    <3>2. ~Owns(p, d)'
      BY <1>15, <3>1
    <3>3. Owns(p, d)
      BY <1>3, <1>12, <2>5, <3>1 DEF Owns
    <3>4. AnsweredIn(inbox[p], d)
      BY <1>11, <3>1
    <3>5. /\ answers[d] # <<>>
          /\ FirstAnswerIs(inbox[p], d, Head(answers[d]))
      BY <2>1, <3>3, <3>4 DEF VerdictOnItsWay
    <3>6. t = Head(answers[d])
      BY <1>11, <3>1, <3>5
    <3>7. answers'[d] # <<>> /\ listener'[p].type = Head(answers'[d])
      BY <2>1, <3>1, <3>5, <3>6
    <3> QED BY <3>2, <3>7, Zenon DEF VerdictOnItsWay
  <2> QED BY <2>3, <2>4, <2>5
<1>17. \A p \in Peers, d \in Calls : Awaited(p, d)'
  <2> TAKE p \in Peers, d \in Calls
  <2>1. \A j \in Ids : Due(p, j, d)' => Due(p, j, d)
    BY <1>1, FinishCallMoves DEF Moves
  <2>2. Awaited(p, d) /\ UNCHANGED <<outcome, answers, peer>>
    BY <1>4 DEF RInv
  <2> QED BY <2>1, <2>2, AwaitedKept
<1>18. UNCHANGED Promise!vars
  BY <1>4 DEF Promise!vars
<1> QED BY <1>16, <1>17, <1>18

LEMMA DeliverWay ==
  ASSUME RInv, NEW a \in Peers, Deliver(a)
  PROVE  /\ \A p \in Peers, d \in Calls : VerdictOnItsWay(p, d)' /\ Awaited(p, d)'
         /\ [Promise!Next]_Promise!vars
<1> DEFINE c == listener[a].call
<1>1. TypeOK /\ CallbackHeldOnce
  BY DEF RInv, IInv, HInv
<1>2. /\ c \in Calls /\ Delivering(a, c)
      /\ outcome' = [outcome EXCEPT ![c] = listener[a].type]
      /\ listener' = [listener EXCEPT ![a] = Idle]
      /\ UNCHANGED <<peer, link, inbox, call_map, requests, answers>>
  <2>1. listener[a] \in Listening /\ listener[a].at = "deliver"
    BY <1>1 DEF Deliver, TypeOK
  <2>2. c \in Calls
    BY <2>1 DEF Listening, Idle
  <2> QED BY <2>1, <2>2 DEF Deliver, Delivering
<1>3. outcome[c] = "pending"
  BY <1>1, <1>2 DEF CallbackHeldOnce
<1>4. answers[c] # <<>> /\ listener[a].type = Head(answers[c])
  BY <1>2 DEF RInv, VerdictOnItsWay
<1> HIDE DEF c
<1>5. \A p \in Peers : listener'[p] = IF p = a THEN Idle ELSE listener[p]
  BY <1>1, <1>2 DEF TypeOK
<1>6. \A p \in Peers, d \in Calls : VerdictOnItsWay(p, d)'
  <2> TAKE p \in Peers, d \in Calls
  <2>1. Delivering(p, d)' => Delivering(p, d) /\ listener'[p] = listener[p]
    BY <1>5 DEF Delivering, Idle
  <2>2. /\ VerdictOnItsWay(p, d) /\ Delivers(p)' = Delivers(p)
        /\ Owns(p, d)' = Owns(p, d)
    BY <1>2 DEF RInv, Delivers, Owns
  <2> QED BY <1>2, <2>1, <2>2, WayKept
<1>7. \A p \in Peers, d \in Calls : Awaited(p, d)'
  <2> TAKE p \in Peers, d \in Calls
  <2>1. \A i \in Ids : Due(p, i, d)' => Due(p, i, d)
    BY <1>1, OtherMoves DEF OtherStep, Moves
  <2>2. d # c => outcome'[d] = outcome[d]
    BY <1>1, <1>2 DEF TypeOK
  <2>3. Awaited(p, d)
    BY DEF RInv
  <2> QED BY <1>2, <1>4, <2>1, <2>2, <2>3, AwaitedKept
<1>8. Promise!Complete(c)
  <2>1. Verdicts[c] = Head(answers[c]) /\ Verdicts[c] # "none"
    <3>1. Head(answers[c]) \in AnswerTypes
      BY <1>1, <1>2, <1>4, HeadTailProperties DEF TypeOK
    <3> QED BY <1>2, <1>4, <3>1 DEF Verdicts, AnswerTypes
  <2> QED BY <1>2, <1>3, <1>4, <2>1 DEF Promise!Complete, Verdicts
<1> QED BY <1>2, <1>6, <1>7, <1>8 DEF Promise!Next

\* The calls a dying peer drops were pending; it was the one to answer none
\* of them, so what the other peer owes them is owed to the dead.
LEMMA DestroyWay ==
  ASSUME RInv, NEW a \in Peers, Destroy(a)
  PROVE  /\ \A p \in Peers, d \in Calls : VerdictOnItsWay(p, d)' /\ Awaited(p, d)'
         /\ [Promise!Next]_Promise!vars
<1> DEFINE S == {c \in Calls : Owns(a, c)}
<1>1. TypeOK /\ CallbackHeldOnce /\ IdsDiffer
  BY DEF RInv, IInv, HInv
<1>2. /\ UNCHANGED <<link, listener, requests, answers>>
      /\ listener[a] = Idle
      /\ \A p \in Peers :
           /\ peer'[p] = IF p = a THEN "destroyed" ELSE peer[p]
           /\ inbox'[p] = IF p = a THEN <<>> ELSE inbox[p]
      /\ \A p \in Peers, i \in Ids :
           call_map'[p][i] = IF p = a THEN NoCall ELSE call_map[p][i]
  BY <1>1 DEF Destroy, TypeOK
<1>3. outcome' = [c \in Calls |-> IF Owns(a, c) THEN "dropped" ELSE outcome[c]]
  BY DEF Destroy, Owns
<1>4. \A p \in Peers : a = p \/ a = Other(p)
  BY DEF Peers, Other
<1>5. \A p \in Peers, d \in Calls : VerdictOnItsWay(p, d)'
  <2> TAKE p \in Peers, d \in Calls
  <2>1. ~Delivers(p)'
    <3>1. peer'[a] = "destroyed"
      BY <1>2
    <3> QED BY <1>4, <3>1 DEF Delivers
  <2>2. Owns(p, d)' => Owns(p, d) /\ inbox'[p] = inbox[p]
    BY <1>2, NoCallAssumption DEF Owns
  <2>3. Delivering(p, d)' => Delivering(p, d) /\ listener'[p] = listener[p]
    BY <1>2 DEF Delivering
  <2>4. VerdictOnItsWay(p, d)
    BY DEF RInv
  <2> QED BY <1>2, <2>1, <2>2, <2>3, <2>4, WayKept
<1>6. \A p \in Peers, d \in Calls : Awaited(p, d)'
  <2> TAKE p \in Peers, d \in Calls
  <2>1. \A i \in Ids : Due(p, i, d)' => Due(p, i, d)
    BY <1>1, OtherMoves DEF OtherStep, Moves
  <2>2. Awaited(p, d)
    BY DEF RInv
  <2>3. ASSUME Owns(a, d), NEW i \in Ids, Due(p, i, d)
        PROVE  peer'[Other(p)] = "destroyed"
    <3>1. PICK j \in Ids : Carries(a, j, d)
      BY <2>3 DEF Owns, Carries
    <3>2. Carries(Other(p), i, d) /\ Other(p) \in Peers
      BY <2>3, OtherTwice, OtherIsPeer DEF Carries
    <3>3. Other(p) = a
      BY <1>1, <3>1, <3>2 DEF IdsDiffer
    <3> QED BY <1>2, <3>3
  <2>4. ~Owns(a, d) => outcome'[d] = outcome[d]
    BY <1>3
  <2>5. peer[Other(p)] = "destroyed" => peer'[Other(p)] = "destroyed"
    BY <1>2, OtherIsPeer
  <2> QED BY <1>2, <2>1, <2>2, <2>3, <2>4, <2>5, AwaitedKept
<1>7. Promise!Drop(S)
  <2>1. \A c \in S : outcome[c] = "pending"
    BY <1>1 DEF CallbackHeldOnce, Owns
  <2> QED BY <1>2, <1>3, <2>1 DEF Promise!Drop
<1> HIDE DEF S
<1>8. S \in SUBSET Calls
  BY DEF S
<1> QED BY <1>5, <1>6, <1>7, <1>8 DEF Promise!Next

LEMMA OtherWay ==
  ASSUME RInv, NEW a \in Peers, OtherStep(a)
  PROVE  /\ \A p \in Peers, d \in Calls : VerdictOnItsWay(p, d)' /\ Awaited(p, d)'
         /\ [Promise!Next]_Promise!vars
<1>1. TypeOK
  BY DEF RInv, IInv, HInv
<1>2. \A p \in Peers, i \in Ids, d \in Calls : Due(p, i, d)' => Due(p, i, d)
  BY <1>1, OtherMoves DEF Moves
<1>3. ASSUME ~Deliver(a), ~Destroy(a)
      PROVE  /\ \A p \in Peers, d \in Calls : VerdictOnItsWay(p, d)'
             /\ \A p \in Peers, d \in Calls : Awaited(p, d)'
             /\ [Promise!Next]_Promise!vars
  <2>1. /\ UNCHANGED <<call_map, listener, requests, answers>>
        /\ \/ UNCHANGED outcome
           \/ \E c \in Calls : /\ outcome[c] = "idle"
                               /\ outcome' = [outcome EXCEPT ![c] = "disconnected"]
    BY <1>3 DEF OtherStep, CallDisconnected, RegCallback, UnregCallback,
                OnClose, LinkBreak, vars
  <2>2. /\ \A p \in Peers : Delivers(p)' => Delivers(p)
        /\ \A p \in Peers : peer[p] = "destroyed" => peer'[p] = "destroyed"
    <3>1. CASE OnClose(a)
      <4>1. \A p \in Peers :
              /\ peer'[p] = IF p = a THEN "closed" ELSE peer[p]
              /\ peer[a] = "open" /\ UNCHANGED link
        BY <1>1, <3>1 DEF OnClose, TypeOK
      <4> QED BY <4>1, OtherIsPeer DEF Delivers
    <3>2. CASE LinkBreak
      BY <3>2 DEF LinkBreak, Delivers
    <3>3. CASE ~OnClose(a) /\ ~LinkBreak
      <4>1. UNCHANGED <<peer, link>>
        BY <1>3, <3>3
           DEF OtherStep, CallDisconnected, RegCallback, UnregCallback, vars
      <4> QED BY <4>1 DEF Delivers
    <3> QED BY <3>1, <3>2, <3>3
  <2>3. \A p \in Peers :
          \/ inbox'[p] = inbox[p]
          \/ /\ ~Delivers(p)'
             /\ \E k \in 0 .. Len(inbox[p]) : inbox'[p] = SubSeq(inbox[p], 1, k)
    <3>1. CASE LinkBreak
      <4>1. PICK n \in 0 .. Len(inbox[Client]), m \in 0 .. Len(inbox[Server]) :
              inbox' = [inbox EXCEPT ![Client] = SubSeq(@, 1, n),
                                     ![Server] = SubSeq(@, 1, m)]
        BY <3>1 DEF LinkBreak
      <4>2. \A p \in Peers : ~Delivers(p)'
        BY <3>1 DEF LinkBreak, Delivers
      <4>3. \A p \in Peers :
              \E k \in 0 .. Len(inbox[p]) : inbox'[p] = SubSeq(inbox[p], 1, k)
        BY <1>1, <4>1, QueuesType, PeersAssumption DEF Peers
      <4> QED BY <4>2, <4>3
    <3>2. CASE ~LinkBreak
      BY <1>3, <3>2 DEF OtherStep, CallDisconnected, RegCallback,
                        UnregCallback, OnClose, vars
    <3> QED BY <3>1, <3>2
  <2>4. \A p \in Peers, d \in Calls : VerdictOnItsWay(p, d)'
    <3> TAKE p \in Peers, d \in Calls
    <3>1. /\ Delivers(p)' /\ AnsweredIn(inbox[p], d) => AnsweredIn(inbox'[p], d)
          /\ AnsweredIn(inbox'[p], d) => AnsweredIn(inbox[p], d)
          /\ \A t : FirstAnswerIs(inbox[p], d, t)
                    => FirstAnswerIs(inbox'[p], d, t)
      <4>1. inbox[p] \in Seq(Msgs)
        BY <1>1, QueuesType
      <4>2. ASSUME NEW k \in 0 .. Len(inbox[p])
            PROVE  /\ AnsweredIn(SubSeq(inbox[p], 1, k), d)
                        => AnsweredIn(inbox[p], d)
                   /\ \A t : FirstAnswerIs(inbox[p], d, t)
                             => FirstAnswerIs(SubSeq(inbox[p], 1, k), d, t)
        BY <4>1, AnsweredSubSeq
      <4>3. CASE inbox'[p] = inbox[p]
        BY <4>3
      <4>4. CASE inbox'[p] # inbox[p]
        <5>1. ~Delivers(p)'
          BY <2>3, <4>4
        <5>2. PICK k \in 0 .. Len(inbox[p]) : inbox'[p] = SubSeq(inbox[p], 1, k)
          BY <2>3, <4>4
        <5> QED BY <4>2, <5>1, <5>2
      <4> QED BY <4>3, <4>4
    <3>2. /\ VerdictOnItsWay(p, d)
          /\ Owns(p, d)' => Owns(p, d)
          /\ Delivering(p, d)' => Delivering(p, d) /\ listener'[p] = listener[p]
      BY <2>1 DEF RInv, Owns, Delivering
    <3> QED BY <2>1, <2>2, <3>1, <3>2, WayKept
  <2>5. \A p \in Peers, d \in Calls : Awaited(p, d)'
    <3> TAKE p \in Peers, d \in Calls
    <3>1. outcome[d] = "pending" => outcome'[d] = "pending"
      BY <1>1, <2>1 DEF TypeOK
    <3>2. Awaited(p, d)
      BY DEF RInv
    <3> QED BY <1>2, <2>1, <2>2, <3>1, <3>2, AwaitedKept, OtherIsPeer
  <2>6. [Promise!Next]_Promise!vars
    <3>1. CASE UNCHANGED outcome
      BY <2>1, <3>1 DEF Promise!vars
    <3>2. ASSUME NEW c \in Calls, outcome[c] = "idle",
                 outcome' = [outcome EXCEPT ![c] = "disconnected"]
          PROVE  Promise!Refuse(c)
      BY <2>1, <3>2 DEF Promise!Refuse
    <3> QED BY <2>1, <3>1, <3>2 DEF Promise!Next
  <2> QED BY <2>4, <2>5, <2>6
<1> QED BY <1>3, DeliverWay, DestroyWay

LEMMA RInvStep ==
  ASSUME NeverWraps, RInv, [Next]_vars
  PROVE  RInv' /\ [Promise!Next]_Promise!vars
<1>1. IInv' /\ AInv'
  BY IInvStep, AccountedStep DEF RInv
<1>2. PICK a \in Peers :
        \/ \E c \in Calls, op \in Ops, name \in Ids : Issue(a, c, op, name)
        \/ FinishCall(a)
        \/ RequestStep(a)
        \/ OtherStep(a)
  BY StepKinds DEF RequestStep
<1>3. /\ \A p \in Peers, d \in Calls : VerdictOnItsWay(p, d)' /\ Awaited(p, d)'
      /\ [Promise!Next]_Promise!vars
  BY <1>2, IssueWay, FinishCallWay, RequestStepWay, OtherWay
<1> QED BY <1>1, <1>3 DEF RInv

LEMMA InitWay == Init => RInv /\ Promise!Init
<1> SUFFICES ASSUME Init PROVE RInv /\ Promise!Init
  OBVIOUS
<1>1. IInv /\ AInv
  BY InitApart, InitAccounted
<1>2. ASSUME NEW p \in Peers, NEW c \in Calls
      PROVE  VerdictOnItsWay(p, c) /\ Awaited(p, c)
  <2>1. \A i \in Ids : ~Carries(Other(p), i, c)
    BY <1>1, OtherIsPeer DEF Init, IInv, IdsDiffer
  <2>2. \A i \in Ids : ~Due(p, i, c)
    BY <2>1, OtherTwice DEF Carries
  <2>3. ~Owns(p, c) /\ ~Delivering(p, c)
    BY NoCallAssumption DEF Init, Owns, Delivering, Idle
  <2> QED BY <2>2, <2>3 DEF VerdictOnItsWay, Awaited
<1>3. Promise!Init
  BY DEF Init, Promise!Init
<1> QED BY <1>1, <1>2, <1>3 DEF RInv

\* Before _call_id wraps round, requests and answers implement the promise of
\* a call: whatever handlers, owners of Requests, dying peers and a breaking
\* carrier do, an issuer hears the verdict the callee gave first, once, or
\* "disconnected" for a call that was never sent, or its callback is dropped.
THEOREM ImplementsPromise ==
  ASSUME NeverWraps
  PROVE  Spec => PromiseSpec
<1>1. RInv /\ [Next]_vars => RInv' /\ [Promise!Next]_Promise!vars
  BY RInvStep
<1> QED BY <1>1, InitWay, PTL DEF Spec, PromiseSpec, Promise!Spec
=============================================================================
