---------------------------- MODULE TopicsProofs ----------------------------
(***************************************************************************)
(* Proofs about Topics, for any topic names, subscriptions and bounds.     *)
(*                                                                         *)
(* What the subscriber's and the publisher's maps hold is tied together by *)
(* the order of the messages on their way to the publisher: a registration *)
(* that still waits for its publication has its ask behind every U for the *)
(* topic, and a topic without a registration has a U behind every ask.     *)
(***************************************************************************)
EXTENDS Topics, TLAPS

\* m is on its way in q and nothing of Bad comes after it.
Pends(q, m, Bad) ==
  \E n \in 1 .. Len(q) : q[n] = m /\ \A k \in n + 1 .. Len(q) : q[k] \notin Bad

AsksFor(t) == {Ask(t, g) : g \in Subs}

\* A carrier that holds has two open ends.
Joined == link = "up" => subscriber = "open" /\ publisher = "open"

\* A registration belongs to a subscription to that topic.
Registered ==
  \A t \in TopicIds : subscr_map[t] # NoSub =>
    plan[subscr_map[t]] \in [at : {"registered", "asked"}, topic : {t}]

\* The registration of t is served, will be, or is about to be closed.
Served(t) ==
  subscr_map[t] # NoSub /\ plan[subscr_map[t]].at = "asked" =>
    \/ Pends(to_pub, Ask(t, subscr_map[t]), {Unsub(t)})
    \/ /\ fn[subscr_map[t]] \in {"live", "stopped"}
       /\ t \in topic_map
       /\ ~ InQueue(to_pub, Unsub(t))
    \/ InQueue(to_sub, Close(t))

\* What is published, or asked for, without a registration will be ended.
Refused(t) ==
  /\ subscr_map[t] = NoSub
  /\ t \notin unwanted
  /\ t \in topic_map \/ \E g \in Subs : InQueue(to_pub, Ask(t, g))
  => Pends(to_pub, Unsub(t), AsksFor(t))

Settled == link = "up" => \A t \in TopicIds : Served(t) /\ Refused(t)

\* The inductive invariant.
TInv == TypeOK /\ Joined /\ Registered /\ Settled

-----------------------------------------------------------------------------
(* Lemmas about queues.                                                    *)

LEMMA AppendElements ==
  ASSUME NEW S, NEW q \in Seq(S), NEW e \in S
  PROVE  /\ Append(q, e) \in Seq(S)
         /\ Len(q) \in Nat
         /\ Len(Append(q, e)) = Len(q) + 1
         /\ \A k \in 1 .. Len(q) : Append(q, e)[k] = q[k]
         /\ Append(q, e)[Len(q) + 1] = e
  OBVIOUS

LEMMA TailElements ==
  ASSUME NEW S, NEW q \in Seq(S), q # <<>>
  PROVE  /\ Head(q) \in S
         /\ Head(q) = q[1]
         /\ Tail(q) \in Seq(S)
         /\ Len(q) \in Nat \ {0}
         /\ Len(Tail(q)) = Len(q) - 1
         /\ \A k \in 1 .. Len(q) - 1 : Tail(q)[k] = q[k + 1]
  OBVIOUS

LEMMA InAppend ==
  ASSUME NEW S, NEW q \in Seq(S), NEW e \in S, NEW m
  PROVE  InQueue(Append(q, e), m) <=> InQueue(q, m) \/ e = m
  BY AppendElements DEF InQueue

LEMMA InTail ==
  ASSUME NEW S, NEW q \in Seq(S), q # <<>>, NEW m
  PROVE  /\ InQueue(Tail(q), m) => InQueue(q, m)
         /\ InQueue(q, m) /\ Head(q) # m => InQueue(Tail(q), m)
<1>1. ASSUME InQueue(Tail(q), m) PROVE InQueue(q, m)
  <2>1. PICK n \in 1 .. Len(Tail(q)) : Tail(q)[n] = m
    BY <1>1 DEF InQueue
  <2>2. n + 1 \in 1 .. Len(q) /\ q[n + 1] = m
    BY <2>1, TailElements
  <2> QED BY <2>2 DEF InQueue
<1>2. ASSUME InQueue(q, m), Head(q) # m PROVE InQueue(Tail(q), m)
  <2>1. PICK n \in 1 .. Len(q) : q[n] = m
    BY <1>2 DEF InQueue
  <2>2. n # 1
    BY <1>2, <2>1, TailElements
  <2>3. n - 1 \in 1 .. Len(Tail(q)) /\ Tail(q)[n - 1] = q[n]
    BY <2>2, TailElements
  <2> QED BY <2>1, <2>3 DEF InQueue
<1> QED BY <1>1, <1>2

LEMMA PendsAppend ==
  ASSUME NEW S, NEW q \in Seq(S), NEW e \in S, NEW m, NEW Bad
  PROVE  /\ Pends(Append(q, e), e, Bad)
         /\ Pends(q, m, Bad) /\ e \notin Bad => Pends(Append(q, e), m, Bad)
<1>1. Pends(Append(q, e), e, Bad)
  <2>1. Len(q) + 1 \in 1 .. Len(Append(q, e))
    BY AppendElements
  <2>2. Append(q, e)[Len(q) + 1] = e
    BY AppendElements
  <2>3. Len(q) + 2 .. Len(Append(q, e)) = {}
    BY AppendElements
  <2> QED BY <2>1, <2>2, <2>3, AppendElements DEF Pends
<1>2. ASSUME Pends(q, m, Bad), e \notin Bad
      PROVE  Pends(Append(q, e), m, Bad)
  <2>1. PICK n \in 1 .. Len(q) :
          q[n] = m /\ \A k \in n + 1 .. Len(q) : q[k] \notin Bad
    BY <1>2 DEF Pends
  <2>2. n \in 1 .. Len(Append(q, e)) /\ Append(q, e)[n] = m
    BY <2>1, AppendElements
  <2>3. ASSUME NEW k \in n + 1 .. Len(Append(q, e))
        PROVE  Append(q, e)[k] \notin Bad
    <3>1. k \in n + 1 .. Len(q) \/ k = Len(q) + 1
      BY AppendElements
    <3> QED BY <3>1, <2>1, <1>2, AppendElements
  <2> QED BY <2>2, <2>3 DEF Pends
<1> QED BY <1>1, <1>2

LEMMA PendsTail ==
  ASSUME NEW S, NEW q \in Seq(S), q # <<>>, NEW m, NEW Bad, Pends(q, m, Bad)
  PROVE  \/ Pends(Tail(q), m, Bad)
         \/ Head(q) = m /\ \A b \in Bad : ~ InQueue(Tail(q), b)
<1>1. PICK n \in 1 .. Len(q) :
        q[n] = m /\ \A k \in n + 1 .. Len(q) : q[k] \notin Bad
  BY DEF Pends
<1>2. CASE n = 1
  <2>1. \A k \in 1 .. Len(Tail(q)) : Tail(q)[k] \notin Bad
    BY <1>1, <1>2, TailElements
  <2>2. Head(q) = m
    BY <1>1, <1>2, TailElements
  <2> QED BY <2>1, <2>2 DEF InQueue
<1>3. CASE n # 1
  <2>1. n - 1 \in 1 .. Len(Tail(q)) /\ Tail(q)[n - 1] = m
    BY <1>1, <1>3, TailElements
  <2>2. \A k \in n .. Len(Tail(q)) : Tail(q)[k] \notin Bad
    BY <1>1, TailElements
  <2>3. (n - 1) + 1 = n
    OBVIOUS
  <2> QED BY <2>1, <2>2, <2>3 DEF Pends
<1> QED BY <1>2, <1>3

LEMMA PendsIn ==
  ASSUME NEW q, NEW m, NEW Bad, Pends(q, m, Bad)
  PROVE  InQueue(q, m)
  BY DEF Pends, InQueue

-----------------------------------------------------------------------------
(* Lemmas about messages.                                                  *)

LEMMA Messages ==
  ASSUME NEW t \in TopicIds, NEW g \in Subs
  PROVE  /\ Update(t) \in Updates
         /\ Close(t) \in Updates
         /\ Ask(t, g) \in Asks \cup Unsubs
         /\ Unsub(t) \in Asks \cup Unsubs
  BY DEF Update, Close, Ask, Unsub, Updates, Asks, Unsubs

LEMMA DifferentMessages ==
  ASSUME NEW t, NEW g, NEW t2, NEW g2
  PROVE  /\ Ask(t, g) # Unsub(t2)
         /\ Update(t) # Close(t2)
         /\ Ask(t, g) = Ask(t2, g2) => t = t2 /\ g = g2
         /\ Unsub(t) = Unsub(t2) => t = t2
         /\ Close(t) = Close(t2) => t = t2
<1>1. Ask(t, g).kind = "ask" /\ Unsub(t2).kind = "U"
  BY DEF Ask, Unsub
<1>2. Update(t).kind = "T" /\ Close(t2).kind = "Z"
  BY DEF Update, Close
<1>3. Ask(t, g).topic = t /\ Ask(t2, g2).topic = t2
  BY DEF Ask
<1>4. Ask(t, g).sub = g /\ Ask(t2, g2).sub = g2
  BY DEF Ask
<1>5. Unsub(t).topic = t /\ Unsub(t2).topic = t2
  BY DEF Unsub
<1>6. Close(t).topic = t /\ Close(t2).topic = t2
  BY DEF Close
<1> QED BY <1>1, <1>2, <1>3, <1>4, <1>5, <1>6

\* What the head of a queue is, by its kind.
LEMMA HeadOfToPub ==
  ASSUME TypeOK, to_pub # <<>>
  PROVE  /\ Tail(to_pub) \in Seq(Asks \cup Unsubs)
         /\ Head(to_pub).topic \in TopicIds
         /\ Head(to_pub).kind = "ask" =>
              /\ Head(to_pub).sub \in Subs
              /\ Head(to_pub) = Ask(Head(to_pub).topic, Head(to_pub).sub)
         /\ Head(to_pub).kind = "U" =>
              Head(to_pub) = Unsub(Head(to_pub).topic)
<1>1. Head(to_pub) \in Asks \cup Unsubs /\ Tail(to_pub) \in Seq(Asks \cup Unsubs)
  BY TailElements DEF TypeOK
<1> QED BY <1>1 DEF Asks, Unsubs, Ask, Unsub

LEMMA HeadOfToSub ==
  ASSUME TypeOK, to_sub # <<>>
  PROVE  /\ Tail(to_sub) \in Seq(Updates)
         /\ Head(to_sub).topic \in TopicIds
         /\ Head(to_sub).kind = "T" =>
              Head(to_sub) = Update(Head(to_sub).topic)
         /\ Head(to_sub).kind = "Z" =>
              Head(to_sub) = Close(Head(to_sub).topic)
<1>1. Head(to_sub) \in Updates /\ Tail(to_sub) \in Seq(Updates)
  BY TailElements DEF TypeOK
<1> QED BY <1>1 DEF Updates, Update, Close

LEMMA SendingTyped ==
  ASSUME TypeOK
  PROVE  /\ \A m \in Asks \cup Unsubs :
              ToPub(to_pub, m) \in Seq(Asks \cup Unsubs)
         /\ \A m \in Updates : ToSub(to_sub, m) \in Seq(Updates)
  BY AppendElements DEF TypeOK, ToPub, ToSub

-----------------------------------------------------------------------------
(* Type correctness.                                                       *)

LEMMA EndRegistrationTyped ==
  ASSUME TypeOK, NEW t \in TopicIds, EndRegistration(t)
  PROVE  /\ to_pub' \in Seq(Asks \cup Unsubs)
         /\ subscr_map' \in [TopicIds -> Subs \cup {NoSub}]
<1>1. Unsub(t) \in Asks \cup Unsubs
  BY DEF Unsub, Unsubs
<1> QED BY <1>1, SendingTyped DEF EndRegistration, TypeOK

LEMMA NotifiedTyped ==
  ASSUME TypeOK, NEW S
  PROVE  Notified(S) \in [Subs -> FnStates]
  BY DEF TypeOK, Notified, FnStates

LEMMA TypeStep == TypeOK /\ [Next]_vars => TypeOK'
<1> SUFFICES ASSUME TypeOK, [Next]_vars PROVE TypeOK'
  OBVIOUS
<1>1. ASSUME NEW g \in Subs, NEW t \in TopicIds, Subscribe(g, t) PROVE TypeOK'
  <2>1. [at |-> "registered", topic |-> t] \in Plans
    BY DEF Plans
  <2> QED BY <1>1, <2>1 DEF Subscribe, TypeOK, pubVars
<1>2. ASSUME NEW g \in Subs, AskToPublish(g) PROVE TypeOK'
  <2>1. plan[g].topic \in TopicIds
    <3>1. plan[g] \in Plans /\ plan[g].at # "new"
      BY <1>2 DEF AskToPublish, TypeOK
    <3> QED BY <3>1 DEF Plans, New
  <2>2. [at |-> "asked", topic |-> plan[g].topic] \in Plans
    BY <2>1 DEF Plans
  <2>3. ToPub(to_pub, Ask(plan[g].topic, g)) \in Seq(Asks \cup Unsubs)
    BY <2>1, Messages, SendingTyped
  <2> QED BY <1>2, <2>1, <2>2, <2>3 DEF AskToPublish, TypeOK, pubVars
<1>3. ASSUME NEW t \in TopicIds, Unsubscribe(t) PROVE TypeOK'
  BY <1>3, EndRegistrationTyped DEF Unsubscribe, TypeOK, pubVars
<1>4. CASE OnTopicUpdate
  BY <1>4, HeadOfToSub DEF OnTopicUpdate, SubscriberReceives, TypeOK, pubVars
<1>5. CASE OnTopicClose
  BY <1>5, HeadOfToSub, EndRegistrationTyped
     DEF OnTopicClose, SubscriberReceives, TypeOK, pubVars
<1>6. ASSUME NEW t \in TopicIds, EndUpdate(t) PROVE TypeOK'
  BY <1>6, EndRegistrationTyped DEF EndUpdate, TypeOK, pubVars
<1>7. CASE SubscriberCloses
  BY <1>7 DEF SubscriberCloses, TypeOK, pubVars
<1>8. CASE StartPublish
  BY <1>8, HeadOfToPub
     DEF StartPublish, PublisherReceives, TypeOK, subVars, FnStates
<1>9. CASE OnUnsubscribe
  BY <1>9, HeadOfToPub, NotifiedTyped
     DEF OnUnsubscribe, PublisherReceives, TypeOK, subVars
<1>10. CASE PublisherCloses
  BY <1>10, NotifiedTyped DEF PublisherCloses, TypeOK, subVars
<1>11. ASSUME NEW g \in Subs, PublishUpdate(g) \/ PublishAtHighWater(g)
                               \/ PublishRefused(g) \/ Drop(g) \/ Trailer(g)
       PROVE TypeOK'
  <2>1. topic_map \subseteq TopicIds /\ fn \in [Subs -> FnStates]
    BY DEF TypeOK
  <2>2. \A t \in topic_map : /\ ToSub(to_sub, Update(t)) \in Seq(Updates)
                            /\ ToSub(to_sub, Close(t)) \in Seq(Updates)
    BY <2>1, SendingTyped DEF Updates, Update, Close
  <2>3. to_sub' \in Seq(Updates)
    BY <1>11, <2>2
       DEF TypeOK, PublishUpdate, PublishAtHighWater, PublishRefused, Drop, Trailer
  <2>4. fn' \in [Subs -> FnStates]
    BY <1>11, <2>1
       DEF FnStates, PublishUpdate, PublishAtHighWater, PublishRefused, Drop,
           Trailer
  <2>5. /\ UNCHANGED <<link, publisher, topic_map, notify, ended, to_pub>>
        /\ UNCHANGED subVars
    BY <1>11
       DEF PublishUpdate, PublishAtHighWater, PublishRefused, Drop, Trailer
  <2> QED BY <2>3, <2>4, <2>5 DEF TypeOK, subVars
<1>12. CASE LinkBreak
  <2>1. \A n \in 0 .. Len(to_sub) : SubSeq(to_sub, 1, n) \in Seq(Updates)
    BY DEF TypeOK
  <2>2. \A n \in 0 .. Len(to_pub) : SubSeq(to_pub, 1, n) \in Seq(Asks \cup Unsubs)
    BY DEF TypeOK
  <2> QED BY <1>12, <2>1, <2>2 DEF LinkBreak, TypeOK, subVars, pubVars
<1>13. CASE UNCHANGED vars
  BY <1>13 DEF vars, TypeOK
<1> QED BY <1>1, <1>2, <1>3, <1>4, <1>5, <1>6, <1>7, <1>8, <1>9, <1>10, <1>11,
           <1>12, <1>13
        DEF Next, SubscriberListens, PublisherListens

\* Every variable of Topics keeps its type: both maps, both queues and the
\* state of every publishing function.
THEOREM TypeCorrect == Spec => []TypeOK
<1>1. Init => TypeOK
  BY DEF Init, TypeOK, Plans, FnStates, Updates, Asks, Unsubs
<1> QED BY <1>1, TypeStep, PTL DEF Spec

-----------------------------------------------------------------------------
(* What sending and receiving an ask or a U do to the messages that are on *)
(* their way to the publisher.                                             *)

ToPublisher == Seq(Asks \cup Unsubs)

LEMMA AskSent ==
  ASSUME NEW q \in ToPublisher, NEW u \in TopicIds, NEW g \in Subs,
         NEW t \in TopicIds, NEW h \in Subs
  PROVE  LET p == Append(q, Ask(u, g)) IN
           /\ Pends(p, Ask(u, g), {Unsub(u)})
           /\ Pends(q, Ask(t, h), {Unsub(t)}) => Pends(p, Ask(t, h), {Unsub(t)})
           /\ InQueue(p, Unsub(t)) => InQueue(q, Unsub(t))
           /\ t # u /\ InQueue(p, Ask(t, h)) => InQueue(q, Ask(t, h))
           /\ t # u /\ Pends(q, Unsub(t), AsksFor(t)) =>
                Pends(p, Unsub(t), AsksFor(t))
<1>1. Ask(u, g) \in Asks \cup Unsubs
  BY Messages
<1>2. Ask(u, g) \notin {Unsub(t)}
  BY DifferentMessages
<1>3. t # u => Ask(u, g) \notin AsksFor(t)
  BY DifferentMessages DEF AsksFor
<1>4. t # u => Ask(u, g) # Ask(t, h)
  BY DifferentMessages
<1> QED BY <1>1, <1>2, <1>3, <1>4, PendsAppend, InAppend DEF ToPublisher

LEMMA UnsubSent ==
  ASSUME NEW q \in ToPublisher, NEW u \in TopicIds,
         NEW t \in TopicIds, NEW h \in Subs
  PROVE  LET p == Append(q, Unsub(u)) IN
           /\ Pends(p, Unsub(u), AsksFor(u))
           /\ t # u /\ Pends(q, Ask(t, h), {Unsub(t)}) =>
                Pends(p, Ask(t, h), {Unsub(t)})
           /\ t # u /\ InQueue(p, Unsub(t)) => InQueue(q, Unsub(t))
           /\ InQueue(p, Ask(t, h)) => InQueue(q, Ask(t, h))
           /\ Pends(q, Unsub(t), AsksFor(t)) => Pends(p, Unsub(t), AsksFor(t))
<1>1. Unsub(u) \in Asks \cup Unsubs
  BY DEF Unsub, Unsubs
<1>2. t # u => Unsub(u) \notin {Unsub(t)}
  BY DifferentMessages
<1>3. Unsub(u) \notin AsksFor(t)
  BY DifferentMessages DEF AsksFor
<1>4. Unsub(u) # Ask(t, h)
  BY DifferentMessages
<1> QED BY <1>1, <1>2, <1>3, <1>4, PendsAppend, InAppend DEF ToPublisher

LEMMA AskReceived ==
  ASSUME NEW q \in ToPublisher, q # <<>>, NEW u \in TopicIds, NEW g \in Subs,
         Head(q) = Ask(u, g), NEW t \in TopicIds, NEW h \in Subs
  PROVE  LET p == Tail(q) IN
           /\ Pends(q, Ask(t, h), {Unsub(t)}) =>
                \/ Pends(p, Ask(t, h), {Unsub(t)})
                \/ t = u /\ h = g /\ ~ InQueue(p, Unsub(t))
           /\ InQueue(p, Unsub(t)) => InQueue(q, Unsub(t))
           /\ InQueue(p, Ask(t, h)) => InQueue(q, Ask(t, h))
           /\ Pends(q, Unsub(t), AsksFor(t)) => Pends(p, Unsub(t), AsksFor(t))
           /\ InQueue(q, Ask(u, g))
<1>1. Pends(q, Ask(t, h), {Unsub(t)}) =>
        \/ Pends(Tail(q), Ask(t, h), {Unsub(t)})
        \/ Ask(u, g) = Ask(t, h) /\ ~ InQueue(Tail(q), Unsub(t))
  BY PendsTail DEF ToPublisher
<1>2. Pends(q, Unsub(t), AsksFor(t)) => Pends(Tail(q), Unsub(t), AsksFor(t))
  BY PendsTail, DifferentMessages DEF ToPublisher
<1>3. InQueue(q, Ask(u, g))
  BY TailElements DEF InQueue, ToPublisher
<1> QED BY <1>1, <1>2, <1>3, DifferentMessages, InTail DEF ToPublisher

LEMMA UnsubReceived ==
  ASSUME NEW q \in ToPublisher, q # <<>>, NEW u \in TopicIds,
         Head(q) = Unsub(u), NEW t \in TopicIds, NEW h \in Subs
  PROVE  LET p == Tail(q) IN
           /\ Pends(q, Ask(t, h), {Unsub(t)}) => Pends(p, Ask(t, h), {Unsub(t)})
           /\ InQueue(p, Unsub(t)) => InQueue(q, Unsub(t))
           /\ InQueue(p, Ask(t, h)) => InQueue(q, Ask(t, h))
           /\ Pends(q, Unsub(t), AsksFor(t)) =>
                \/ Pends(p, Unsub(t), AsksFor(t))
                \/ t = u /\ ~ InQueue(p, Ask(t, h))
           /\ InQueue(q, Unsub(u))
<1>1. Pends(q, Ask(t, h), {Unsub(t)}) => Pends(Tail(q), Ask(t, h), {Unsub(t)})
  BY PendsTail, DifferentMessages DEF ToPublisher
<1>2. Pends(q, Unsub(t), AsksFor(t)) =>
        \/ Pends(Tail(q), Unsub(t), AsksFor(t))
        \/ Unsub(u) = Unsub(t) /\ ~ InQueue(Tail(q), Ask(t, h))
  BY PendsTail DEF ToPublisher, AsksFor
<1>3. InQueue(q, Unsub(u))
  BY TailElements DEF InQueue, ToPublisher
<1> QED BY <1>1, <1>2, <1>3, DifferentMessages, InTail DEF ToPublisher

-----------------------------------------------------------------------------
(* The inductive step.                                                     *)

\* While the carrier holds, what is sent is on its way.
LEMMA Sending ==
  ASSUME Joined, link = "up", NEW m
  PROVE  /\ ToPub(to_pub, m) = Append(to_pub, m)
         /\ ToSub(to_sub, m) = Append(to_sub, m)
  BY DEF Joined, ToPub, ToSub

LEMMA RegisteredStep == TypeOK /\ Registered /\ [Next]_vars => Registered'
<1> SUFFICES ASSUME TypeOK, Registered, [Next]_vars PROVE Registered'
  OBVIOUS
<1>1. ASSUME NEW g \in Subs, NEW t \in TopicIds, Subscribe(g, t)
      PROVE  Registered'
  <2>1. \A u \in TopicIds : subscr_map[u] # g
    BY <1>1, NoSubAssumption DEF Subscribe, Registered, New
  <2> QED BY <1>1, <2>1 DEF Subscribe, Registered, TypeOK
<1>2. ASSUME NEW g \in Subs, AskToPublish(g) PROVE Registered'
  BY <1>2 DEF AskToPublish, Registered, TypeOK
<1>3. ASSUME UNCHANGED plan,
             \A t \in TopicIds : subscr_map'[t] \in {subscr_map[t], NoSub}
      PROVE  Registered'
  BY <1>3 DEF Registered
<1>4. ASSUME NEW t \in TopicIds, EndRegistration(t)
      PROVE  \A u \in TopicIds : subscr_map'[u] \in {subscr_map[u], NoSub}
  BY <1>4 DEF EndRegistration, TypeOK
<1>5. ASSUME NEW t \in TopicIds, Unsubscribe(t) \/ EndUpdate(t)
      PROVE  Registered'
  BY <1>3, <1>4, <1>5 DEF Unsubscribe, EndUpdate
<1>6. CASE OnTopicClose
  BY <1>3, <1>4, <1>6, HeadOfToSub DEF OnTopicClose, SubscriberReceives
<1>7. CASE OnTopicUpdate \/ SubscriberCloses
  BY <1>3, <1>7 DEF OnTopicUpdate, SubscriberCloses
<1>8. CASE PublisherListens \/ LinkBreak
  BY <1>3, <1>8
     DEF PublisherListens, StartPublish, OnUnsubscribe, PublisherCloses,
         LinkBreak, subVars
<1>9. ASSUME NEW g \in Subs, PublishUpdate(g) \/ PublishAtHighWater(g)
                              \/ PublishRefused(g) \/ Drop(g) \/ Trailer(g)
      PROVE  Registered'
  BY <1>3, <1>9
     DEF PublishUpdate, PublishAtHighWater, PublishRefused, Drop, Trailer, subVars
<1>10. CASE UNCHANGED vars
  BY <1>3, <1>10 DEF vars
<1> QED BY <1>1, <1>2, <1>5, <1>6, <1>7, <1>8, <1>9, <1>10
        DEF Next, SubscriberListens

LEMMA JoinedStep == Joined /\ [Next]_vars => Joined'
<1> SUFFICES ASSUME Joined, [Next]_vars PROVE Joined'
  OBVIOUS
<1>1. CASE UNCHANGED vars
  BY <1>1 DEF Joined, vars
<1>2. CASE SubscriberCloses \/ PublisherCloses \/ LinkBreak
  BY <1>2 DEF Joined, SubscriberCloses, PublisherCloses, LinkBreak
<1>3. CASE Next /\ ~ (SubscriberCloses \/ PublisherCloses \/ LinkBreak)
  <2>1. UNCHANGED <<link, subscriber, publisher>>
    BY <1>3
       DEF Next, Subscribe, AskToPublish, Unsubscribe, SubscriberListens,
           OnTopicUpdate, OnTopicClose, EndUpdate, PublisherListens,
           StartPublish, OnUnsubscribe, PublishUpdate, PublishAtHighWater,
           PublishRefused, Drop, Trailer, subVars, pubVars
  <2> QED BY <2>1 DEF Joined
<1> QED BY <1>1, <1>2, <1>3

\* A registration ends, and nothing changes at the publisher.
LEMMA EndRegistrationSettles ==
  ASSUME TInv, link = "up", NEW u \in TopicIds, EndRegistration(u),
         UNCHANGED <<plan, unwanted, topic_map, fn>>,
         NEW t \in TopicIds,
         t # u /\ InQueue(to_sub, Close(t)) => InQueue(to_sub', Close(t))
  PROVE  Served(t)' /\ Refused(t)'
<1>1. Served(t) /\ Refused(t)
  BY DEF TInv, Settled
<1>2. to_pub \in ToPublisher
  BY DEF TInv, TypeOK, ToPublisher
<1>3. subscr_map \in [TopicIds -> Subs \cup {NoSub}]
  BY DEF TInv, TypeOK
<1>4. CASE subscr_map[u] = NoSub
  <2>1. UNCHANGED <<to_pub, subscr_map>>
    BY <1>4 DEF EndRegistration
  <2> QED BY <1>1, <1>4, <2>1 DEF Served, Refused
<1>5. CASE subscr_map[u] # NoSub
  <2>1. to_pub' = Append(to_pub, Unsub(u))
    BY <1>5, Sending DEF EndRegistration, TInv
  <2>2. subscr_map' = [subscr_map EXCEPT ![u] = NoSub]
    BY <1>5 DEF EndRegistration
  <2>3. CASE t = u
    <3>1. subscr_map'[t] = NoSub
      BY <1>3, <2>2, <2>3
    <3>2. Pends(to_pub', Unsub(t), AsksFor(t))
      BY <1>2, <1>3, <1>5, <2>1, <2>3, UnsubSent
    <3> QED BY <3>1, <3>2 DEF Served, Refused
  <2>4. CASE t # u
    <3>1. subscr_map'[t] = subscr_map[t]
      BY <1>3, <2>2, <2>4
    <3>2. Served(t)'
      <4>1. CASE subscr_map[t] = NoSub
        BY <3>1, <4>1 DEF Served
      <4>2. CASE subscr_map[t] # NoSub
        <5>1. subscr_map[t] \in Subs
          BY <1>3, <4>2
        <5> QED BY <1>1, <1>2, <2>1, <2>4, <3>1, <5>1, UnsubSent DEF Served
      <4> QED BY <4>1, <4>2
    <3>3. Refused(t)'
      <4>1. \A g \in Subs :
              InQueue(to_pub', Ask(t, g)) => InQueue(to_pub, Ask(t, g))
        BY <1>2, <2>1, UnsubSent
      <4>2. Pends(to_pub, Unsub(t), AsksFor(t)) =>
              Pends(to_pub', Unsub(t), AsksFor(t))
        BY <1>2, <1>3, <1>5, <2>1, UnsubSent
      <4> QED BY <1>1, <3>1, <4>1, <4>2 DEF Refused
    <3> QED BY <3>2, <3>3
  <2> QED BY <2>3, <2>4
<1> QED BY <1>4, <1>5

LEMMA SubscribeSettles ==
  ASSUME TInv, link = "up", NEW g \in Subs, NEW u \in TopicIds, Subscribe(g, u),
         NEW t \in TopicIds
  PROVE  Served(t)' /\ Refused(t)'
<1>1. Served(t) /\ Refused(t) /\ g \in Subs
  BY DEF TInv, Settled
<1>2. UNCHANGED <<to_pub, to_sub, topic_map, fn, unwanted>>
  BY DEF Subscribe, pubVars
<1>3. subscr_map[t] # g
  BY NoSubAssumption DEF Subscribe, TInv, Registered, New
<1>4. /\ plan'[g].at = "registered"
      /\ \A h \in Subs \ {g} : plan'[h] = plan[h]
  BY DEF Subscribe, TInv, TypeOK
<1>5. subscr_map \in [TopicIds -> Subs \cup {NoSub}]
  BY DEF TInv, TypeOK
<1>6. \/ subscr_map'[t] = subscr_map[t]
      \/ subscr_map'[t] = g
  BY <1>5 DEF Subscribe
<1>7. CASE subscr_map'[t] = subscr_map[t]
  <2>1. subscr_map[t] # NoSub => plan'[subscr_map[t]] = plan[subscr_map[t]]
    BY <1>3, <1>4, <1>5
  <2> QED BY <1>1, <1>2, <1>7, <2>1 DEF Served, Refused
<1>8. CASE subscr_map'[t] = g
  BY <1>4, <1>8, NoSubAssumption DEF Served, Refused
<1> QED BY <1>6, <1>7, <1>8

LEMMA AskSettles ==
  ASSUME TInv, link = "up", NEW g \in Subs, AskToPublish(g), NEW t \in TopicIds
  PROVE  Served(t)' /\ Refused(t)'
<1> DEFINE u == plan[g].topic
<1>1. Served(t) /\ Refused(t)
  BY DEF TInv, Settled
<1>2. to_pub \in ToPublisher /\ subscr_map \in [TopicIds -> Subs \cup {NoSub}]
  BY DEF TInv, TypeOK, ToPublisher
<1>3. u \in TopicIds
  <2>1. plan[g] \in Plans /\ plan[g].at # "new"
    BY DEF AskToPublish, TInv, TypeOK
  <2> QED BY <2>1 DEF Plans, New
<1>4. UNCHANGED <<subscr_map, to_sub, topic_map, fn>>
  BY DEF AskToPublish, pubVars
<1>5. to_pub' = Append(to_pub, Ask(u, g))
  BY Sending DEF AskToPublish, TInv
<1>6. \A h \in Subs \ {g} : plan'[h] = plan[h]
  BY DEF AskToPublish, TInv, TypeOK
<1>7. unwanted' = IF subscr_map[u] = NoSub THEN unwanted \cup {u} ELSE unwanted
  BY DEF AskToPublish
<1>8. subscr_map[t] = g => t = u
  BY <1>3, NoSubAssumption DEF TInv, Registered
<1> HIDE DEF u
<1>9. Served(t)'
  <2>1. CASE subscr_map[t] = NoSub
    BY <1>4, <2>1 DEF Served
  <2>2. CASE subscr_map[t] = g
    <3>1. Pends(to_pub', Ask(t, g), {Unsub(t)})
      BY <1>2, <1>3, <1>5, <1>8, <2>2, AskSent
    <3> QED BY <1>4, <2>2, <3>1 DEF Served
  <2>3. CASE subscr_map[t] \in Subs \ {g}
    <3>1. plan'[subscr_map[t]] = plan[subscr_map[t]]
      BY <1>6, <2>3
    <3>2. /\ Pends(to_pub, Ask(t, subscr_map[t]), {Unsub(t)}) =>
               Pends(to_pub', Ask(t, subscr_map[t]), {Unsub(t)})
          /\ InQueue(to_pub', Unsub(t)) => InQueue(to_pub, Unsub(t))
      BY <1>2, <1>3, <1>5, <2>3, AskSent
    <3> QED BY <1>1, <1>4, <3>1, <3>2 DEF Served
  <2> QED BY <1>2, <2>1, <2>2, <2>3
<1>10. Refused(t)'
  <2>1. CASE t = u
    BY <1>4, <1>7, <2>1 DEF Refused
  <2>2. CASE t # u
    <3>1. \A h \in Subs : InQueue(to_pub', Ask(t, h)) => InQueue(to_pub, Ask(t, h))
      BY <1>2, <1>3, <1>5, <2>2, AskSent
    <3>2. Pends(to_pub, Unsub(t), AsksFor(t)) => Pends(to_pub', Unsub(t), AsksFor(t))
      BY <1>2, <1>3, <1>5, <2>2, AskSent
    <3>3. t \notin unwanted' => t \notin unwanted
      BY <1>7
    <3> QED BY <1>1, <1>4, <3>1, <3>2, <3>3 DEF Refused
  <2> QED BY <2>1, <2>2
<1> QED BY <1>9, <1>10

LEMMA StartPublishSettles ==
  ASSUME TInv, link = "up", StartPublish, NEW t \in TopicIds
  PROVE  Served(t)' /\ Refused(t)'
<1> DEFINE u == Head(to_pub).topic
           g == Head(to_pub).sub
<1>1. Served(t) /\ Refused(t)
  BY DEF TInv, Settled
<1>2. to_pub \in ToPublisher /\ subscr_map \in [TopicIds -> Subs \cup {NoSub}]
  BY DEF TInv, TypeOK, ToPublisher
<1>3. /\ to_pub # <<>> /\ Head(to_pub) = Ask(u, g)
      /\ u \in TopicIds /\ g \in Subs
  BY HeadOfToPub DEF StartPublish, PublisherReceives, TInv
<1>4. to_pub' = Tail(to_pub)
  BY DEF StartPublish, PublisherReceives
<1>5. UNCHANGED <<plan, subscr_map, to_sub, unwanted>>
  BY DEF StartPublish, subVars
<1>6. topic_map' = topic_map \cup {u}
  BY DEF StartPublish
<1>7. /\ fn'[g] = "live"
      /\ \A h \in Subs : fn[h] \in {"live", "stopped"} => fn'[h] \in {"live", "stopped"}
  BY <1>3 DEF StartPublish, TInv, TypeOK
<1> HIDE DEF u, g
<1>8. InQueue(to_pub', Unsub(t)) => InQueue(to_pub, Unsub(t))
  BY <1>2, <1>3, <1>4, AskReceived
<1>9. Served(t)'
  <2>1. CASE subscr_map[t] = NoSub
    BY <1>5, <2>1 DEF Served
  <2>2. CASE subscr_map[t] \in Subs
    <3>1. Pends(to_pub, Ask(t, subscr_map[t]), {Unsub(t)}) =>
            \/ Pends(to_pub', Ask(t, subscr_map[t]), {Unsub(t)})
            \/ t = u /\ subscr_map[t] = g /\ ~ InQueue(to_pub', Unsub(t))
      BY <1>2, <1>3, <1>4, <2>2, AskReceived
    <3> QED BY <1>1, <1>5, <1>6, <1>7, <1>8, <2>2, <3>1 DEF Served
  <2> QED BY <1>2, <2>1, <2>2
<1>10. Refused(t)'
  <2>1. /\ Pends(to_pub, Unsub(t), AsksFor(t)) => Pends(to_pub', Unsub(t), AsksFor(t))
        /\ InQueue(to_pub, Ask(u, g))
    BY <1>2, <1>3, <1>4, AskReceived
  <2>2. \A h \in Subs : InQueue(to_pub', Ask(t, h)) => InQueue(to_pub, Ask(t, h))
    BY <1>2, <1>3, <1>4, AskReceived
  <2> QED BY <1>1, <1>3, <1>5, <1>6, <2>1, <2>2 DEF Refused
<1> QED BY <1>9, <1>10

LEMMA OnUnsubscribeSettles ==
  ASSUME TInv, link = "up", OnUnsubscribe, NEW t \in TopicIds
  PROVE  Served(t)' /\ Refused(t)'
<1> DEFINE u == Head(to_pub).topic
<1>1. Served(t) /\ Refused(t)
  BY DEF TInv, Settled
<1>2. to_pub \in ToPublisher /\ subscr_map \in [TopicIds -> Subs \cup {NoSub}]
  BY DEF TInv, TypeOK, ToPublisher
<1>3. to_pub # <<>> /\ Head(to_pub) = Unsub(u) /\ u \in TopicIds
  BY HeadOfToPub DEF OnUnsubscribe, PublisherReceives, TInv
<1>4. to_pub' = Tail(to_pub)
  BY DEF OnUnsubscribe, PublisherReceives
<1>5. UNCHANGED <<plan, subscr_map, to_sub, unwanted>>
  BY DEF OnUnsubscribe, subVars
<1>6. topic_map' = topic_map \ {u}
  BY DEF OnUnsubscribe
<1>7. \A h \in Subs : fn[h] \in {"live", "stopped"} => fn'[h] \in {"live", "stopped"}
  BY DEF OnUnsubscribe, Notified
<1> HIDE DEF u
<1>8. Served(t)'
  <2>1. CASE subscr_map[t] = NoSub
    BY <1>5, <2>1 DEF Served
  <2>2. CASE subscr_map[t] \in Subs
    <3>1. /\ Pends(to_pub, Ask(t, subscr_map[t]), {Unsub(t)}) =>
               Pends(to_pub', Ask(t, subscr_map[t]), {Unsub(t)})
          /\ InQueue(to_pub', Unsub(t)) => InQueue(to_pub, Unsub(t))
          /\ InQueue(to_pub, Unsub(u))
      BY <1>2, <1>3, <1>4, <2>2, UnsubReceived
    <3> QED BY <1>1, <1>5, <1>6, <1>7, <2>2, <3>1 DEF Served
  <2> QED BY <1>2, <2>1, <2>2
<1>9. Refused(t)'
  <2>1. \A h \in Subs :
          /\ InQueue(to_pub', Ask(t, h)) => InQueue(to_pub, Ask(t, h))
          /\ Pends(to_pub, Unsub(t), AsksFor(t)) =>
               \/ Pends(to_pub', Unsub(t), AsksFor(t))
               \/ t = u /\ ~ InQueue(to_pub', Ask(t, h))
    BY <1>2, <1>3, <1>4, UnsubReceived
  <2>2. CASE t = u
    BY <1>1, <1>5, <1>6, <2>1, <2>2 DEF Refused
  <2>3. CASE t # u
    <3>1. Pends(to_pub, Unsub(t), AsksFor(t)) => Pends(to_pub', Unsub(t), AsksFor(t))
      BY <1>2, <1>3, <1>4, <2>3, PendsTail, DifferentMessages DEF ToPublisher
    <3> QED BY <1>1, <1>5, <1>6, <2>1, <2>3, <3>1 DEF Refused
  <2> QED BY <2>2, <2>3
<1> QED BY <1>8, <1>9

\* A step of a publishing function: at most one message more to the
\* subscriber, and if the function goes while its topic is there, a Z.
LEMMA PublishingSettles ==
  ASSUME TInv, link = "up", NEW g \in Subs,
         PublishUpdate(g) \/ PublishAtHighWater(g) \/ PublishRefused(g)
                          \/ Drop(g) \/ Trailer(g),
         NEW t \in TopicIds
  PROVE  Served(t)' /\ Refused(t)'
<1>1. Served(t) /\ Refused(t)
  BY DEF TInv, Settled
<1>2. subscr_map \in [TopicIds -> Subs \cup {NoSub}] /\ fn \in [Subs -> FnStates]
  BY DEF TInv, TypeOK
<1>3. UNCHANGED <<plan, subscr_map, unwanted, topic_map, to_pub>>
  BY DEF PublishUpdate, PublishAtHighWater, PublishRefused, Drop, Trailer, subVars
<1>4. ASSUME NEW m \in Updates
      PROVE  /\ InQueue(Append(to_sub, m), m)
             /\ InQueue(to_sub, Close(t)) => InQueue(Append(to_sub, m), Close(t))
  <2>1. to_sub \in Seq(Updates)
    BY DEF TInv, TypeOK
  <2> QED BY <2>1, InAppend
<1>5. topic_map \subseteq TopicIds
  BY DEF TInv, TypeOK
<1>6. InQueue(to_sub, Close(t)) => InQueue(to_sub', Close(t))
  <2>1. to_sub' = to_sub \/ \E m \in Updates : to_sub' = Append(to_sub, m)
    BY <1>5, Sending
       DEF PublishUpdate, PublishAtHighWater, PublishRefused, Drop, Trailer, TInv,
           Update, Close, Updates
  <2>2. CASE to_sub' = to_sub
    BY <2>2
  <2>3. ASSUME NEW m \in Updates, to_sub' = Append(to_sub, m)
        PROVE  InQueue(to_sub, Close(t)) => InQueue(to_sub', Close(t))
    BY <1>4, <2>3
  <2> QED BY <2>1, <2>2, <2>3
<1>7. Refused(t)'
  BY <1>1, <1>3 DEF Refused
<1>8. Served(t)'
  <2>1. CASE subscr_map[t] # g \/ ~ Trailer(g)
    <3>1. subscr_map[t] \in Subs /\ fn[subscr_map[t]] \in {"live", "stopped"} =>
            fn'[subscr_map[t]] \in {"live", "stopped"}
      BY <1>2, <2>1
         DEF PublishUpdate, PublishAtHighWater, PublishRefused, Drop, Trailer
    <3> QED BY <1>1, <1>2, <1>3, <1>6, <3>1 DEF Served
  <2>2. CASE subscr_map[t] = g /\ Trailer(g)
    <3>1. plan[g].topic = t
      BY <2>2, NoSubAssumption DEF TInv, Registered
    <3>2. t \in topic_map => to_sub' = Append(to_sub, Close(t))
      BY <2>2, <3>1, Sending DEF Trailer, TInv
    <3>3. t \in topic_map => InQueue(to_sub', Close(t))
      <4>1. Close(t) \in Updates
        BY DEF Close, Updates
      <4> QED BY <3>2, <4>1, <1>4
    <3> QED BY <1>1, <1>3, <1>6, <2>2, <3>3 DEF Served
  <2> QED BY <2>1, <2>2
<1> QED BY <1>7, <1>8

LEMMA SettledStep == TInv /\ [Next]_vars => Settled'
<1> SUFFICES ASSUME TInv, [Next]_vars, link' = "up", NEW t \in TopicIds
             PROVE  Served(t)' /\ Refused(t)'
  BY DEF Settled
<1>1. link = "up"
  <2>1. link' = link \/ LinkBreak
    BY DEF Next, vars, Subscribe, AskToPublish, Unsubscribe, SubscriberListens,
           OnTopicUpdate, OnTopicClose, EndUpdate, SubscriberCloses,
           PublisherListens, StartPublish, OnUnsubscribe, PublisherCloses,
           PublishUpdate, PublishAtHighWater, PublishRefused, Drop, Trailer
  <2> QED BY <2>1 DEF LinkBreak
<1>2. Served(t) /\ Refused(t) /\ Joined
  BY <1>1 DEF TInv, Settled
<1>3. ASSUME NEW g \in Subs, NEW u \in TopicIds, Subscribe(g, u)
      PROVE  Served(t)' /\ Refused(t)'
  BY <1>1, <1>3, SubscribeSettles
<1>4. ASSUME NEW g \in Subs, AskToPublish(g) PROVE Served(t)' /\ Refused(t)'
  BY <1>1, <1>4, AskSettles
<1>5. ASSUME NEW u \in TopicIds, Unsubscribe(u) \/ EndUpdate(u)
      PROVE  Served(t)' /\ Refused(t)'
  <2>1. EndRegistration(u) /\ UNCHANGED <<plan, unwanted, to_sub, topic_map, fn>>
    BY <1>5 DEF Unsubscribe, EndUpdate, pubVars
  <2> QED BY <1>1, <2>1, EndRegistrationSettles
<1>6. CASE OnTopicUpdate
  <2>1. UNCHANGED <<plan, subscr_map, unwanted, to_pub, topic_map, fn>>
    BY <1>6 DEF OnTopicUpdate, pubVars
  <2>2. InQueue(to_sub, Close(t)) => InQueue(to_sub', Close(t))
    <3>1. to_sub # <<>> /\ Head(to_sub).kind = "T" /\ to_sub' = Tail(to_sub)
      BY <1>6 DEF OnTopicUpdate, SubscriberReceives
    <3>2. Head(to_sub) # Close(t) /\ to_sub \in Seq(Updates)
      BY <3>1 DEF Close, TInv, TypeOK
    <3> QED BY <3>1, <3>2, InTail
  <2> QED BY <1>2, <2>1, <2>2 DEF Served, Refused
<1>7. CASE OnTopicClose
  <2> DEFINE u == Head(to_sub).topic
  <2>1. /\ to_sub # <<>> /\ Head(to_sub).kind = "Z" /\ to_sub' = Tail(to_sub)
        /\ EndRegistration(u) /\ UNCHANGED <<plan, unwanted, topic_map, fn>>
    BY <1>7 DEF OnTopicClose, SubscriberReceives, pubVars
  <2>2. u \in TopicIds /\ Head(to_sub) = Close(u) /\ to_sub \in Seq(Updates)
    BY <2>1, HeadOfToSub DEF TInv, TypeOK
  <2> HIDE DEF u
  <2>3. t # u /\ InQueue(to_sub, Close(t)) => InQueue(to_sub', Close(t))
    BY <2>1, <2>2, InTail, DifferentMessages
  <2> QED BY <1>1, <2>1, <2>2, <2>3, EndRegistrationSettles
<1>8. CASE StartPublish
  BY <1>1, <1>8, StartPublishSettles
<1>9. CASE OnUnsubscribe
  BY <1>1, <1>9, OnUnsubscribeSettles
<1>10. CASE SubscriberCloses \/ PublisherCloses \/ LinkBreak
  BY <1>1, <1>10 DEF SubscriberCloses, PublisherCloses, LinkBreak
<1>11. ASSUME NEW g \in Subs, PublishUpdate(g) \/ PublishAtHighWater(g)
                               \/ PublishRefused(g) \/ Drop(g) \/ Trailer(g)
       PROVE  Served(t)' /\ Refused(t)'
  BY <1>1, <1>11, PublishingSettles
<1>12. CASE UNCHANGED vars
  BY <1>2, <1>12 DEF vars, Served, Refused
<1> QED BY <1>3, <1>4, <1>5, <1>6, <1>7, <1>8, <1>9, <1>10, <1>11, <1>12
        DEF Next, SubscriberListens, PublisherListens

\* The maps and the queues stay tied together.
THEOREM Invariance == Spec => []TInv
<1>1. Init => TInv
  <2> SUFFICES ASSUME Init PROVE TInv
    OBVIOUS
  <2>1. TypeOK
    BY DEF Init, TypeOK, Plans, FnStates, Updates, Asks, Unsubs
  <2>2. Joined /\ Registered
    BY DEF Init, Joined, Registered
  <2>3. ASSUME NEW t \in TopicIds PROVE Served(t) /\ Refused(t)
    <3>1. subscr_map[t] = NoSub /\ topic_map = {} /\ to_pub = <<>>
      BY DEF Init
    <3>2. \A g \in Subs : ~ InQueue(to_pub, Ask(t, g))
      BY <3>1 DEF InQueue
    <3> QED BY <3>1, <3>2 DEF Served, Refused
  <2> QED BY <2>1, <2>2, <2>3 DEF TInv, Settled
<1>2. TInv /\ [Next]_vars => TInv'
  BY TypeStep, JoinedStep, RegisteredStep, SettledStep DEF TInv
<1> QED BY <1>1, <1>2, PTL DEF Spec

\* Whatever is unsubscribed, closed, dropped or subscribed again, in whatever
\* order: no registration waits for a publication that has ended.
THEOREM NobodyWaits == Spec => []NobodyIsLeftWaiting
<1>1. TInv => NobodyIsLeftWaiting
  <2> SUFFICES ASSUME TInv, link = "up", NEW t \in TopicIds,
                      subscr_map[t] # NoSub, plan[subscr_map[t]].at = "asked"
               PROVE  \/ InQueue(to_pub, Ask(t, subscr_map[t]))
                      \/ /\ fn[subscr_map[t]] \in {"live", "stopped"}
                         /\ t \in topic_map
                      \/ InQueue(to_sub, Close(t))
    BY DEF NobodyIsLeftWaiting
  <2>1. Served(t)
    BY DEF TInv, Settled
  <2> QED BY <2>1, PendsIn DEF Served
<1> QED BY <1>1, Invariance, PTL

\* And nothing stays published whose registration is gone.
THEOREM NobodyInVain == Spec => []NobodyPublishesInVain
<1>1. TInv => NobodyPublishesInVain
  <2> SUFFICES ASSUME TInv, link = "up", NEW t \in topic_map,
                      subscr_map[t] = NoSub, t \notin unwanted
               PROVE  InQueue(to_pub, Unsub(t))
    BY DEF NobodyPublishesInVain
  <2>1. Refused(t)
    BY DEF TInv, TypeOK, Settled
  <2> QED BY <2>1, PendsIn DEF Refused
<1> QED BY <1>1, Invariance, PTL
=============================================================================
