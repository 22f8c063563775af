------------------------------- MODULE Topics -------------------------------
(***************************************************************************)
(* Topics between two C++ peers (peer.cpp, peer.h): the subscriber's       *)
(* _subscr_map, the publisher's _topic_map, the publishing functions that  *)
(* start_publish returns, and the messages T (update), U (unsubscribe) and *)
(* Z (close).  There is no message that subscribes: the subscriber picks a *)
(* topic, registers it with Peer::subscribe and then asks for it with an   *)
(* RPC call, whose handler calls start_publish (doc/umq_cs.md:117-118).    *)
(* The model starts when both peers are connected and looks at one         *)
(* direction: one peer only subscribes, the other only publishes.          *)
(*                                                                         *)
(* Every action is a stretch of code under Peer::_lock.  A topic name may  *)
(* be used for several subscriptions, one after the other or at once;      *)
(* `sub' names the one a message or a function was made for.  In a T or Z  *)
(* message it is not there: the wire carries only the topic.               *)
(*                                                                         *)
(* HighWaterMarkBehavior::close, which disconnects under the lock, and     *)
(* callbacks that call back into the peer that is calling them are left    *)
(* out.                                                                    *)
(***************************************************************************)
EXTENDS Integers, Sequences

CONSTANTS
  TopicIds,  \* the topic names in use
  Subs,      \* subscriptions the application makes, each once
  NoSub,     \* the absence of a map entry
  MaxQueue,  \* bound: updates are sent while fewer messages are on their way
  MayBreak   \* bound: whether the carrier may fail

ASSUME NoSubAssumption == NoSub \notin Subs
ASSUME MaxQueueAssumption == MaxQueue \in Nat
ASSUME MayBreakAssumption == MayBreak \in BOOLEAN

VARIABLES
  link,        \* "up" or "broken"
  subscriber,  \* "open" or "closed": the subscriber's _conn
  publisher,   \* "open" or "closed": the publisher's _conn
  plan,        \* plan[g]: how far the application is with subscription g
  subscr_map,  \* subscr_map[t]: the subscription whose callback is in there
  listener,    \* subscriber's listener: topics it is about to unsubscribe
  topic_map,   \* topics in the publisher's _topic_map
  notify,      \* notify[t]: the function whose owner on_unsubscribe tells
  fn,          \* fn[g]: the publishing function made for g
  to_sub,      \* messages on their way to the subscriber
  to_pub,      \* messages on their way to the publisher
  ended,       \* history: functions whose topic was unsubscribed under them
  unwanted     \* history: topics asked for after the registration was lost

vars == <<link, subscriber, publisher, plan, subscr_map, listener, topic_map,
          notify, fn, to_sub, to_pub, ended, unwanted>>

New == [at |-> "new"]
Plans == {New} \cup [at: {"registered", "asked"}, topic: TopicIds]
FnStates == {"none", "live", "stopped", "gone"}
Updates == [kind: {"T", "Z"}, topic: TopicIds]
Asks == [kind: {"ask"}, topic: TopicIds, sub: Subs]
Unsubs == [kind: {"U"}, topic: TopicIds]

TypeOK ==
  /\ link \in {"up", "broken"}
  /\ subscriber \in {"open", "closed"}
  /\ publisher \in {"open", "closed"}
  /\ plan \in [Subs -> Plans]
  /\ subscr_map \in [TopicIds -> Subs \cup {NoSub}]
  /\ listener \in SUBSET TopicIds
  /\ topic_map \in SUBSET TopicIds
  /\ notify \in [TopicIds -> Subs \cup {NoSub}]
  /\ fn \in [Subs -> FnStates]
  /\ to_sub \in Seq(Updates)
  /\ to_pub \in Seq(Asks \cup Unsubs)
  /\ ended \in SUBSET Subs
  /\ unwanted \in SUBSET TopicIds

Init ==
  /\ link = "up"
  /\ subscriber = "open"
  /\ publisher = "open"
  /\ plan = [g \in Subs |-> New]
  /\ subscr_map = [t \in TopicIds |-> NoSub]
  /\ listener = {}
  /\ topic_map = {}
  /\ notify = [t \in TopicIds |-> NoSub]
  /\ fn = [g \in Subs |-> "none"]
  /\ to_sub = <<>>
  /\ to_pub = <<>>
  /\ ended = {}
  /\ unwanted = {}

subVars == <<subscriber, plan, subscr_map, listener, unwanted>>
pubVars == <<publisher, topic_map, notify, fn, ended>>

-----------------------------------------------------------------------------
(* The wire: what a reset _conn or a broken carrier is given is gone.      *)

ToPub(q, m) == IF subscriber = "open" /\ publisher = "open" /\ link = "up"
               THEN Append(q, m) ELSE q
ToSub(q, m) == IF subscriber = "open" /\ publisher = "open" /\ link = "up"
               THEN Append(q, m) ELSE q

Update(t) == [kind |-> "T", topic |-> t]
Close(t) == [kind |-> "Z", topic |-> t]
Unsub(t) == [kind |-> "U", topic |-> t]
Ask(t, g) == [kind |-> "ask", topic |-> t, sub |-> g]

-----------------------------------------------------------------------------
(* The subscriber.                                                         *)

\* Peer::subscribe: emplace leaves an earlier registration in place.
Subscribe(g, t) ==
  /\ plan[g] = New
  /\ plan' = [plan EXCEPT ![g] = [at |-> "registered", topic |-> t]]
  /\ subscr_map' = [subscr_map EXCEPT ![t] = IF @ = NoSub THEN g ELSE @]
  /\ UNCHANGED <<link, subscriber, listener, unwanted, to_sub, to_pub>>
  /\ UNCHANGED pubVars

\* Faulty: the call's parameter is lost on the way.
AskWithoutTopic(g) ==
  /\ plan[g].at = "registered"
  /\ plan' = [plan EXCEPT ![g].at = "asked"]
  /\ to_pub' = ToPub(to_pub, Ask("", g))
  /\ UNCHANGED <<link, subscriber, subscr_map, listener, unwanted, to_sub>>
  /\ UNCHANGED pubVars

\* The RPC call that asks the other side to publish.
AskToPublish(g) ==
  /\ plan[g].at = "registered"
  /\ LET t == plan[g].topic IN
       /\ plan' = [plan EXCEPT ![g] = [at |-> "asked", topic |-> t]]
       /\ to_pub' = ToPub(to_pub, Ask(t, g))
       /\ unwanted' = IF subscr_map[t] = NoSub
                      THEN unwanted \cup {t} ELSE unwanted
  /\ UNCHANGED <<link, subscriber, subscr_map, listener, to_sub>>
  /\ UNCHANGED pubVars

\* Peer::unsubscribe: U is sent and the registration erased, if there is one.
EndRegistration(t) ==
  IF subscr_map[t] # NoSub
  THEN /\ to_pub' = ToPub(to_pub, Unsub(t))
       /\ subscr_map' = [subscr_map EXCEPT ![t] = NoSub]
  ELSE UNCHANGED <<to_pub, subscr_map>>

\* The application, in any of its threads.
Unsubscribe(t) ==
  /\ subscr_map[t] # NoSub
  /\ EndRegistration(t)
  /\ UNCHANGED <<link, subscriber, plan, listener, unwanted, to_sub>>
  /\ UNCHANGED pubVars

SubscriberReceives(kind) ==
  /\ subscriber = "open"
  /\ listener = {}
  /\ to_sub # <<>>
  /\ Head(to_sub).kind = kind
  /\ to_sub' = Tail(to_sub)

\* on_topic_update: under the shared lock the callback runs and says whether
\* it goes on; without a registration the update is dropped, and no U sent.
OnTopicUpdate ==
  /\ SubscriberReceives("T")
  /\ LET t == Head(to_sub).topic IN
       \/ UNCHANGED listener
       \/ subscr_map[t] # NoSub /\ listener' = {t}
  /\ UNCHANGED <<link, subscriber, plan, subscr_map, unwanted, to_pub>>
  /\ UNCHANGED pubVars

\* The callback said no: the lock was dropped and is taken again.
EndUpdate(t) ==
  /\ t \in listener
  /\ listener' = {}
  /\ EndRegistration(t)
  /\ UNCHANGED <<link, subscriber, plan, unwanted, to_sub>>
  /\ UNCHANGED pubVars

\* Faulty: the registration is erased, but the publisher is not told.
OnTopicCloseSilently ==
  /\ SubscriberReceives("Z")
  /\ subscr_map' = [subscr_map EXCEPT ![Head(to_sub).topic] = NoSub]
  /\ UNCHANGED <<link, subscriber, plan, listener, unwanted, to_pub>>
  /\ UNCHANGED pubVars

OnTopicClose ==
  /\ SubscriberReceives("Z")
  /\ EndRegistration(Head(to_sub).topic)
  /\ UNCHANGED <<link, subscriber, plan, listener, unwanted>>
  /\ UNCHANGED pubVars

-----------------------------------------------------------------------------
(* The publisher.                                                          *)

PublisherReceives(kind) ==
  /\ publisher = "open"
  /\ to_pub # <<>>
  /\ Head(to_pub).kind = kind
  /\ to_pub' = Tail(to_pub)

\* The handler: start_publish, whose emplace leaves an earlier entry and its
\* UnsubscribeRequest in place, and on_unsubscribe, or not.
StartPublish ==
  /\ PublisherReceives("ask")
  /\ LET t == Head(to_pub).topic
         g == Head(to_pub).sub
     IN  /\ topic_map' = topic_map \cup {t}
         /\ fn' = [fn EXCEPT ![g] = "live"]
         /\ \/ notify' = [notify EXCEPT ![t] = g]
            \/ UNCHANGED notify
  /\ UNCHANGED <<link, publisher, ended, to_sub>>
  /\ UNCHANGED subVars

\* A call of the publishing function, by any thread, in the shared lock.  The
\* topic is there and the update goes out; skipping it at the high water mark
\* changes nothing.
PublishUpdate(g) ==
  /\ fn[g] = "live"
  /\ plan[g].topic \in topic_map
  /\ Len(to_sub) < MaxQueue
  /\ to_sub' = ToSub(to_sub, Update(plan[g].topic))
  /\ UNCHANGED <<link, publisher, topic_map, notify, fn, ended, to_pub>>
  /\ UNCHANGED subVars

\* HighWaterMarkBehavior::unsubscribe: the topic is closed, though it stays in
\* the map, and the function returns false: its owner destroys it.
PublishAtHighWater(g) ==
  /\ fn[g] = "live"
  /\ plan[g].topic \in topic_map
  /\ to_sub' = ToSub(to_sub, Close(plan[g].topic))
  /\ fn' = [fn EXCEPT ![g] = "stopped"]
  /\ UNCHANGED <<link, publisher, topic_map, notify, ended, to_pub>>
  /\ UNCHANGED subVars

\* The topic is no longer there: false.
PublishRefused(g) ==
  /\ fn[g] = "live"
  /\ plan[g].topic \notin topic_map
  /\ fn' = [fn EXCEPT ![g] = "stopped"]
  /\ UNCHANGED <<link, publisher, topic_map, notify, ended, to_sub, to_pub>>
  /\ UNCHANGED subVars

\* The owner ends the publication of its own accord.
Drop(g) ==
  /\ fn[g] = "live"
  /\ fn' = [fn EXCEPT ![g] = "stopped"]
  /\ UNCHANGED <<link, publisher, topic_map, notify, ended, to_sub, to_pub>>
  /\ UNCHANGED subVars

\* Faulty: the topic is erased before it is looked for.
TrailerErasesFirst(g) ==
  /\ fn[g] = "stopped"
  /\ fn' = [fn EXCEPT ![g] = "gone"]
  /\ topic_map' = topic_map \ {plan[g].topic}
  /\ UNCHANGED <<link, publisher, notify, ended, to_sub, to_pub>>
  /\ UNCHANGED subVars

\* The function's trailer: the topic is closed if it is still in the map.
Trailer(g) ==
  /\ fn[g] = "stopped"
  /\ fn' = [fn EXCEPT ![g] = "gone"]
  /\ to_sub' = IF plan[g].topic \in topic_map
               THEN ToSub(to_sub, Close(plan[g].topic)) ELSE to_sub
  /\ UNCHANGED <<link, publisher, topic_map, notify, ended, to_pub>>
  /\ UNCHANGED subVars

\* The UnsubscribeRequests of the topics S make their owners destroy their
\* functions.
Notified(S) ==
  [g \in Subs |-> IF fn[g] = "live" /\ \E t \in S : notify[t] = g
                  THEN "stopped" ELSE fn[g]]

\* Faulty: a topic without an UnsubscribeRequest stays in the map.
OnUnsubscribeNotifiedOnly ==
  /\ PublisherReceives("U")
  /\ LET t == Head(to_pub).topic IN
       /\ topic_map' = IF notify[t] = NoSub THEN topic_map
                       ELSE topic_map \ {t}
       /\ fn' = Notified({t})
       /\ notify' = [notify EXCEPT ![t] = NoSub]
       /\ ended' = ended \cup {g \in Subs : fn[g] = "live" /\ plan[g].topic = t}
  /\ UNCHANGED <<link, publisher, to_sub>>
  /\ UNCHANGED subVars

OnUnsubscribe ==
  /\ PublisherReceives("U")
  /\ LET t == Head(to_pub).topic IN
       /\ topic_map' = topic_map \ {t}
       /\ fn' = Notified({t})
       /\ notify' = [notify EXCEPT ![t] = NoSub]
       /\ ended' = ended \cup {g \in Subs : fn[g] = "live" /\ plan[g].topic = t}
  /\ UNCHANGED <<link, publisher, to_sub>>
  /\ UNCHANGED subVars

-----------------------------------------------------------------------------
(* Losing the connection.                                                  *)

LinkBreak ==
  /\ MayBreak
  /\ link = "up"
  /\ link' = "broken"
  /\ \E n \in 0 .. Len(to_sub) : to_sub' = SubSeq(to_sub, 1, n)
  /\ \E n \in 0 .. Len(to_pub) : to_pub' = SubSeq(to_pub, 1, n)
  /\ UNCHANGED subVars
  /\ UNCHANGED pubVars

\* disconnect() at the publisher takes the topics; at the subscriber the
\* registrations stay.
PublisherCloses ==
  /\ publisher = "open"
  /\ link = "broken"
  /\ to_pub = <<>>
  /\ publisher' = "closed"
  /\ topic_map' = {}
  /\ fn' = Notified(TopicIds)
  /\ notify' = [t \in TopicIds |-> NoSub]
  /\ UNCHANGED <<link, ended, to_sub, to_pub>>
  /\ UNCHANGED subVars

SubscriberCloses ==
  /\ subscriber = "open"
  /\ link = "broken"
  /\ to_sub = <<>>
  /\ listener = {}
  /\ subscriber' = "closed"
  /\ UNCHANGED <<link, plan, subscr_map, listener, unwanted, to_sub, to_pub>>
  /\ UNCHANGED pubVars

-----------------------------------------------------------------------------
SubscriberListens ==
  \/ OnTopicUpdate
  \/ OnTopicClose
  \/ \E t \in TopicIds : EndUpdate(t)
  \/ SubscriberCloses

PublisherListens == StartPublish \/ OnUnsubscribe \/ PublisherCloses

Next ==
  \/ \E g \in Subs, t \in TopicIds : Subscribe(g, t)
  \/ \E g \in Subs : AskToPublish(g)
  \/ \E t \in TopicIds : Unsubscribe(t)
  \/ SubscriberListens
  \/ PublisherListens
  \/ \E g \in Subs :
       \/ PublishUpdate(g)
       \/ PublishAtHighWater(g)
       \/ PublishRefused(g)
       \/ Drop(g)
       \/ Trailer(g)
  \/ LinkBreak

Spec == Init /\ [][Next]_vars

\* The listeners' threads run; every publishing function is called again and
\* again until it is destroyed; a destruction that has begun comes to its end.
Fairness ==
  /\ WF_vars(SubscriberListens)
  /\ WF_vars(PublisherListens)
  /\ \A g \in Subs :
       /\ WF_vars(PublishUpdate(g))
       /\ WF_vars(PublishRefused(g))
       /\ WF_vars(Trailer(g))

FairSpec == Spec /\ Fairness

-----------------------------------------------------------------------------
(* What subscriber and publisher may rely on.                              *)

InQueue(q, m) == \E n \in 1 .. Len(q) : q[n] = m

\* Nobody waits for a publication that has ended: as long as the carrier
\* holds, a registration that has been asked for is served by its own
\* function, or will be, or is about to be closed - through the high water
\* mark, double Zs, crossing Us, reused names and lost emplaces.
NobodyIsLeftWaiting ==
  link = "up" =>
    \A t \in TopicIds :
      LET g == subscr_map[t] IN
        g # NoSub /\ plan[g].at = "asked" =>
          \/ InQueue(to_pub, Ask(t, g))
          \/ fn[g] \in {"live", "stopped"} /\ t \in topic_map
          \/ InQueue(to_sub, Close(t))

\* Nobody publishes to the void: a topic whose registration is gone leaves the
\* publisher's map as soon as the U on its way arrives - unless it was asked
\* for when the registration was already lost (see UnknownTopicIsRefused).
NobodyPublishesInVain ==
  link = "up" =>
    \A t \in topic_map :
      subscr_map[t] = NoSub /\ t \notin unwanted => InQueue(to_pub, Unsub(t))

\* A function whose subscription ended is destroyed, however it ended, also
\* when the owner is not notified and only sees what the next call returns.
UnsubscribeTakesEffect ==
  \A g \in Subs, t \in TopicIds :
    fn[g] = "live" /\ plan[g].topic = t /\ subscr_map[t] = NoSub
      ~> fn[g] = "gone" \/ subscr_map[t] # NoSub \/ t \in unwanted

\* The documentation's word (peer.h:234-236): "When node unsubscribes, the
\* next call of the TopicUpdateCallback function returns false".  It does not
\* when the node has subscribed the same topic again in between.
UnsubscribedStaysSilent ==
  \A g \in ended : fn[g] = "live" => plan[g].topic \notin topic_map

\* The documentation's word (doc/umq_cs.md:132): a T for a topic that is not
\* registered is always answered with U.  So a function that keeps sending
\* such updates is not called for ever.
UnknownTopicIsRefused ==
  \A g \in Subs, t \in TopicIds :
    fn[g] = "live" /\ plan[g].topic = t /\ subscr_map[t] = NoSub
      ~> fn[g] # "live" \/ subscr_map[t] # NoSub
=============================================================================
