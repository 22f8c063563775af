# umq in TLA+

umq is a peer-to-peer protocol over a message carrier (a WebSocket): remote
calls, callbacks, topics, variables and binary attachments between two equal
peers. This directory holds TLA+ models of the C++ library in `src/`, the TLC
runs that check them and the proofs, checked by TLAPS, of what matters most.

```
tlc -workers 2 -config MCRpc.cfg MCRpc.tla     # a run (see the table below)
tlapm RpcProofs.tla                            # the proofs about a component
```

`PROJECT.json` lists, by machine-readable name, the components, the runs, for
every definition the source lines it stands for, for every property a mutation
of the code that breaks it, the findings, the hazards and the theorems.

## 1. Inventory

| Component | Source | State it keeps | Modelled by |
|---|---|---|---|
| Calls, discovery, callbacks | `peer.cpp`, `peer.h`, `request.*` | `_conn`, `_call_id`, `_call_map`, `_cb_map`; Request objects in handlers and in the application | `Rpc`, `RpcPromise` |
| Publisher | `publisher.*` | `_subs`, `_unsubs`, `idcnt`, `_inp`, `_mx` | `Publisher` |
| Topics | `peer.cpp`, `peer.h` | `_subscr_map` at the subscriber, `_topic_map` at the publisher, publishing functions in the application | `Topics` |
| Peer lock, node errors, shutdown | `peer.cpp` | `_lock` (a `shared_timed_mutex`, not recursive), `_discnt_cb` | `PeerLock` |
| Handshake | `peer.cpp:15-37, 135-156, 471-484` | `_hello_cb`, `_welcome_cb` | partly, as handlers of `PeerLock` |
| Variables | `peer.h` `VarSpace`, `peer.cpp:722-817` | local, remote and context maps, each with a lock | `Vars` |
| Attachments | `peer.cpp:204-224, 292-316, 404-416`, `peer.h:602-628` | `_upld_attachments`, `_dwnl_attachments` | `Attachments` |
| MethodList | `methodlist.h` | maps of methods, docs and routes | `Routing` (operators) |
| WSConnection | `wsconnection.*`, `connection.h` | the stream, a high water mark | partly, as the carrier of `Rpc`, `Topics` and `Attachments` and the listener of `PeerLock` |
| TCPConnection | `tcpconnection.*` | buffers, a ping flag | not modelled: unfinished code |
| JavaScript peer | `js/umq.js` | the same maps, with promises for locks | not modelled |
| Demo and tests | `tests/` | - | read for how the library is used |

**How the parts interact.** One listener thread per connection takes messages
one at a time (`WSConnection::start_listen`, `Peer::parse_message`) and calls
the application's handlers and callbacks. The application calls the Peer from
its own threads, and from within those callbacks. `Peer::_lock` protects the
maps; it is dropped before most callbacks and held during some. The two peers
share nothing but the two ordered streams of messages, which end anywhere when
the carrier breaks. A Peer is owned by its connection and by the application
(`shared_ptr`), Requests and publishing functions hold it weakly. A Publisher
is given publishing functions as subscribers and so fans an update out to many
peers.

**What each must get right, and what is hard about it.**

* *Calls.* Every call is answered, once, with the answer made for it, or is
  told that the connection has gone. Hard: the callback is taken from the map
  under the lock and run after it, answers may be late, doubled or for unknown
  ids, a Request can be answered, moved, forgotten or outlive its Peer, the
  handler can throw after having answered, and the 32-bit id counter, which
  calls and callback names share, wraps.
* *Publisher.* Who asks to be removed is removed and nobody else is. Hard:
  subscribers are called while the vector is walked and may unsubscribe
  themselves and each other; `reset` works partly without the mutex.
* *Topics.* A subscription that was asked for is served until it is ended, and
  then nothing is published for it. Hard: there is no message to subscribe and
  none of T, U and Z says which subscription of a topic name it means, so late
  messages cross with a new subscription; there are five ways for a
  publication to end (U, refused call, high water mark, the owner's own will,
  disconnection) and several may happen at once.
* *Lock and shutdown.* No thread waits for itself, nobody uses a member while
  another changes it, what is to be notified of the end is notified once, and
  the Peer goes when nobody refers to it, and not before. Hard: `disconnect()`
  is called under the lock in two places (`peer.cpp:503`, `peer.cpp:571`),
  callbacks and destructors of the application run under it in others
  (`peer.cpp:44, 104, 122, 283, 687`) and may throw or call back, answers,
  variables and uploads are sent without it (`peer.cpp:564, 762, 301`), and
  `~Peer` may run on the listener thread or beside it.
* *Variables.* The remote copy follows the local one. Hard: changes are
  announced after the unlock (`peer.cpp:762`), replacing all of them is not
  one step (`peer.cpp:779-799`).
* *Attachments.* The binary frames follow the order of the messages that
  announced them, and every expected one arrives or fails. Hard: binary frames
  have no name, and the queue that orders them is filled by senders with three
  degrees of locking, drained by completions of futures in any thread, and
  abandoned at a disconnect.
* *MethodList.* A name finds its method, or else the longest route that is a
  prefix of it. Hard: one entry of an ordered map is looked at.
* *JavaScript peer.* The same with asynchronous callbacks.

The places in the code where this can go wrong are listed as `hazards` in
`PROJECT.json`, each with the properties that cover it or what it waits for.

## 2. The modules

```
RpcPromise   <-- refined by --  Rpc  <-- EXTENDS --  MCRpc      (TLC)
                                     <-- EXTENDS --  RpcProofs  (TLAPS)
                                                       <-- EXTENDS --  RpcAnswersProofs
Publisher    <-- EXTENDS --  MCPublisher, PublisherProofs
Topics       <-- EXTENDS --  TopicsProofs
PeerLock     <-- EXTENDS --  PeerLockProofs
Attachments  <-- EXTENDS --  MCAttachments, AttachmentsProofs
Vars         <-- EXTENDS --  VarsProofs
Routing      <-- EXTENDS --  RoutingProofs
             <-- INSTANCE -- MCRpc
```

### Rpc

Two symmetric peers. `peer`, `link` and `inbox` are the two `_conn`s, the
carrier and the messages on their way; `call_map`, `cb_map` and `call_id` are
the members of Peer with those names; `listener[p]` says what the listener
thread is doing: nothing, running a handler (and whether its Request has been
answered), unwinding one that threw, or holding the callback that `finish_call`
took out of the map. `requests[p]` are Requests moved out of their handlers and
`outcome[c]` is what the issuer's callback was told.

| Action | Code |
|---|---|
| `Call`, `Discover`, `CallCallback`, `CallDisconnected` | `Peer::call`, `discover`, `call_callback`, connected and not |
| `RegCallback`, `UnregCallback` | `reg_callback`, `unreg_callback` |
| `OnMethodCall`, `OnDiscover`, `OnCallback` | the handlers of M, ?, C: found, not found, answered at once |
| `HandlerAnswer`, `HandlerKeep`, `HandlerReturn`, `HandlerThrow`, `CatchException` | what a handler may do with its Request, the destructor included |
| `FinishRequest` | the owner of a kept Request answers or destroys it |
| `FinishCall`, `Deliver` | `finish_call` up to its unlock, and the callback after it |
| `LinkBreak`, `OnClose`, `Destroy` | a broken carrier, `disconnect()`, `~Peer` |

Each action is what one thread does under `_lock`, or between an unlock and the
next lock. Messages carry the wire's `id`; the fields `call` and `for` are
history and guard nothing. `answers`, `threw` and `retired` are history too.

`RpcPromise` is the same system without peers, ids and messages: a call is
issued or refused, decided once, then completed with that decision or dropped.
`Rpc` implements it (`PromiseSpec`) with the first answer as the decision.

Not in this model: which call takes `_lock` when (PeerLock), `send_node_error`,
the contents of messages, what a method is called (MethodList), attachments.

### Publisher

`subs` is the vector `_subs`, as a set because ids are handed out in order and
only appended; `unsubs` is `_unsubs`, a sequence because its order is the whole
point. `Unmarked(S, u)` states what one `do_unsubscribe` leaves: `s` goes if the
walk through `u` stops at it. That this is what the loop computes is proved of
the loop as a relation between its steps (`Walk` in `PublisherProofs`), and
checked against the loop as a program, `DoUnsubscribe` in `MCPublisher`, for all
inputs up to width 4 (`ASSUME UnmarkedIsTheLoop`, evaluated by the run). `reset` is two
actions, since it clears `_unsubs` after it released the mutex.

Callbacks that publish, subscribe or reset on the Publisher that is calling
them invalidate the loop's iterators; `publisher.h:68-79` does not provide for
them and they are not modelled.

### Topics

One direction: a subscriber and a publisher. `plan[g]` is how far the
application is with subscription `g` (registered with `Peer::subscribe`, asked
for by an RPC call); `subscr_map[t]` is the registration a name maps to,
`topic_map` the names in the publisher's map, `notify[t]` whom the
UnsubscribeRequest in that entry would tell; `fn[g]` is the publishing function
made for `g`: in use, about to be destroyed (`stopped`), destroyed.

| Action | Code |
|---|---|
| `Subscribe`, `AskToPublish`, `Unsubscribe` | the subscriber's application |
| `OnTopicUpdate`, `EndUpdate` | `on_topic_update`: the callback under the shared lock, then, if it said no, `unsubscribe` under a new lock |
| `OnTopicClose` | Z, which unsubscribes and so answers with a U |
| `StartPublish` | the handler: `start_publish` and, or not, `on_unsubscribe` |
| `PublishUpdate`, `PublishAtHighWater`, `PublishRefused`, `Drop`, `Trailer` | a call of the publishing function, its three ends, its destruction |
| `OnUnsubscribe` | U: the entry is erased and its owner told |
| `LinkBreak`, `PublisherCloses`, `SubscriberCloses` | the carrier, `disconnect()` at either end |

A name may be used for several subscriptions. `emplace` in `subscribe` and
`start_publish` keeps an earlier entry, which the model does as well. Not in
this model: `HighWaterMarkBehavior::close` and callbacks that call into the peer
that is calling them (both take `_lock` twice: `PeerLock`), handlers that start
publishing later or refuse to.

### PeerLock

One Peer, its listener thread and the application's threads. A thread is its
call stack (`stack[t]`): a frame is a function, a point in it, the lock it
holds there (none, shared, unique) and what `disconnect()` has swapped into its
local variables (`took`). `raised[t]` says that an exception is unwinding the
stack. `conn`, `event` and `topic_map` are `_conn`, `_discnt_cb` and an entry of
`_topic_map`; `owned` is the application's `PPeer`; `given` and `told` count how
often an event or an UnsubscribeRequest was stored and run, `late` whether the
event was last stored after the disconnect. Functions that use
the lock in the same way share a name ("update" for those that touch a map and
perhaps send under the lock; "call" for call, discover and call_callback;
"finish" for finish_call and on_callback); "callback" is any code of the
application, its destructors included. The points of a frame other than the
beginning and the section under the lock (`in`) are: waiting for the lock
(`enter`), for itself (`stuck`), for the other side to read (`flush`); sending
without the lock (`use`); the loop of `run_upload` that has no end (`spin`); a
nested call; and those of `parse_text_message` and `disconnect()`.

| Action | Code |
|---|---|
| `Acquire`, `Relock` | the constructors of `unique_lock` and `shared_lock`: granted, or the thread has the lock already and waits for itself, gets `EDEADLK`, or shares it twice |
| `Enter` | the application, or a callback of any thread, calls the Peer |
| `ParseMessage`, `OnClose` | the listener: a message inside the try blocks of `parse_text_message` or outside, and the end of the connection |
| `Update`, `Call`, `StartPublish`, `OnUnsubscribe`, `Publish`, `FlushEnds`, `OnTopicUpdate`, `SendNodeError` | the sections that hold the lock, what they call under it, and where they may stay |
| `SetVar`, `Upload` | `VarSpace::set` of `local` and the callback of `run_upload`: a section, with an unlocked send after it or before it |
| `Finish`, `Unsubscribed`, `Disconnect`, `RunEvent`, `RunRequests`, `EndDisconnect` | functions that take something, unlock and go on |
| `SendUnlocked`, `IsConnected`, `OnMethodCall`, `OnDisconnect`, `Download` | what is done without the lock: answers, announcements and uploads look at `_conn`, then use it |
| `EndCallback`, `Resume`, `Throw`, `Unwind`, `Escape` | returns and exceptions |
| `DropOwner`, `Destroy`, `Destructor` | the last reference and `~Peer`, also from within `disconnect()`'s event |

A call the application makes, in a thread of its own or in a callback, holds a
reference while it runs, the caller's or the one a weak pointer was locked to
(`Calling`); so does the event of `keep_until_disconnected`, in the Peer or
taken out by a `disconnect()`. What the listener calls holds none. `~Peer` runs
where the last reference goes: in an idle thread of the application or in a
callback of any thread, the listener's included. The listener may be anywhere
then: `connection.h:51-53` asks for a `stop_listen` before the connection is
destroyed, which does not exist and which `~Peer` does not do otherwise. What
functions do that are still running when the Peer is gone is undefined; they go
on here as if it were there, and a message that comes later is not modelled.

### Attachments

One direction between two peers. `sender[m]` is how far `build_send_message` is
with message `m`; a sender that holds `_lock` alone (a call) does it in one
step (`SendCall`), one that shares it (a publishing function) or has none (an
answer) in four (`Check`, `PushAll`, `SendText`, `StartUpload`), with anything
in between. `upld` and `dwnl` are `_upld_attachments` and `_dwnl_attachments`.
A callback of `run_upload` waits on an attachment (`waiting`), sends its frame
without the lock (`SendFrame`), then locks, pops the queue and goes on
(`PopAndRun`). `spinning` holds the uploads that found their attachment set: the
loop of `run_upload` sends it and begins again without having popped it.
`OnAttachment` and `OnBinaryMessage` are the receiver's, `LinkBreak` and
`OnClose` the carrier's end, after any part of what was on its way.

`disturbed` becomes true when two senders overlap, an upload that ends overlaps
a sender, or an upload goes round. The code protects the queue against none of
these, so the properties are about executions without them; everything that
can happen after them is in the model all the same, except that popping an
empty queue, which is undefined, is no step.

### Vars

`local` of one peer, `remote` of the other, the announcements between them
(`wire`) and the threads that change `local`. `Set` is the locked part of
`VarSpace::set`, `Announce` what follows the unlock; `Merge` sets one name after
the other; `Replace`, `EraseNext` and `ReplaceMerges` are `set(map)`, which
erases under the lock and then merges without it. `SyncVar` is what `syncVar`
sends. `raced` holds the names that were changed while a change of them had yet
to be announced. The connection holds and is up from the start.

### Routing

`find_method`, `find_doc` and `find_route_discover` of `MethodList` as
operators, names as sequences of numbers; `LowerBound` is `lower_bound` of a map
ordered by `std::greater`. `FindsTheLongestRoute` says that one entry at most is
found and that a route that is found is the longest that is a prefix.
`MissesOnlyHiddenRoutes` says when none is found although one would match: when
a route that does not match lies between it and the name. `MCRpc` evaluates
both for all names of up to three of two characters and all sets of up to three
routes (`ASSUME LookupIsRight`).

## 3. The runs

| Run | Config | What it shows |
|---|---|---|
| `rpc` | `MCRpc.cfg` | Two calls of any kind, either peer may issue, fail or be destroyed at any point, ids do not wrap. `CallbackHeldOnce`: the callback of a pending call is in one place. `AnswersMatchCalls`: answers find their call. `OneAnswerUnlessThrown`, `NoCallForgotten`: no path through a handler doubles or forgets an answer. `NamesStayRetired`: a used callback name never comes back. `PromiseSpec`: all of it implements `RpcPromise`. |
| `rpc_wrap` | `MCRpcWrap.cfg` | Two ids, of which the client may use the first a second time while the call that has it is pending. Answers can then go to the wrong call, yet `CallbackHeldOnce` and `OutcomeIsFinal` hold. Under fairness, `CallsComplete`: every call is answered, unless the carrier breaks, a peer is not open, or its issuer has used up the ids. |
| `rpc_disconnect` | `MCRpcDisconnect.cfg` | Violation: pending calls are not completed at a disconnect. |
| `rpc_answers` | `MCRpcAnswers.cfg` | Violation: two answers when a handler throws. |
| `publisher` | `MCPublisher.cfg` | Four subscribers, five marks, two overlapping resets: `MarkedAreRemoved`, `NobodyElseRemoved`, `CycleIsStable`. |
| `publisher_marks` | `MCPublisherMarks.cfg` | Violation: a marked subscriber stays. |
| `topics` | `Topics.cfg` | Two subscriptions over two names or one. `NobodyIsLeftWaiting`: no registration waits for a publication that has ended. `NobodyPublishesInVain`: nothing stays published that was unsubscribed. `UnsubscribeTakesEffect`, under fairness: the function of an ended subscription is destroyed. |
| `topics_revived` | `TopicsRevived.cfg` | Violation: an unsubscribed function goes on publishing once its name is subscribed again. |
| `topics_unknown` | `TopicsUnknown.cfg` | Violation: updates for an unknown topic are dropped for ever. |
| `peer_lock` | `PeerLock.cfg` | The listener and two threads, three calls or messages with all their nested callbacks, exceptions, disconnects and destructors. `OnlyTheUnlockedRace`: the maps are never raced for, other members only where a function goes without the lock. `RelocksAreKnown`: a thread asks for a lock it has in five situations only. `NotifiedOnce`: U, `disconnect()` and `~Peer` never run a notification twice. `ApplicationHasLeft`: when `~Peer` runs, and after it, no thread of the application is in the Peer. Under fairness, `KeptPeerIsReleased`: a disconnected Peer nobody refers to goes, unless it was kept after the disconnect or a thread waits for itself or for the other side. |
| `attachments` | `MCAttachments.cfg` | Two messages with three attachments, from senders of any kind, the futures set in any order, the carrier may break. `FramesInOrder`, `PromisesKeptRight`, `OneUploadAtATime` and, under fairness, `AttachmentsArrive`. |
| `vars` | `Vars.cfg` | Violation: the remote copy is not the local one. |

`TypeOK` is the type invariant of the module in each passing run. Operators
marked "Faulty" in the modules are no part of the models: each is the action
after it with a plausible bug in it, and shows that the property named with it
in `PROJECT.json` notices.

**Bounds.** Two calls are enough for an answer to find the wrong one, for a
callback's name to be called by the second call, and for a call from either
side to cross one from the other. `MaxIds` equals `IdSpace` in `rpc` so that
ids are used up without a repetition; in `rpc_wrap` there are two ids and the
client uses three, so that its runs go through calls with ids that differ, where
`CallsComplete` promises an answer, and to calls that replace an earlier one,
where it does not: the callback replaced is destroyed unheard (`peer.cpp:49`).
Four subscribers and five marks let one cycle mark subscribers before and after
the running one and twice over. Two subscriptions let a name be used again
while messages of its first use are under way; every queue is bounded by the
number of subscriptions except that of updates, which `MaxQueue` bounds: a T
does nothing but end a subscription, so one on its way at a time suffices
(`MaxQueue` 2 and three subscriptions of one topic give the same answers).
In `peer_lock`, three calls or messages let a message meet a call of either
thread, or one call nest in another's callback while a third thread waits for
the lock; `MaxDepth` bounds the frames below a callback that may still call,
so that one nested call is possible from every callback. In `attachments`, one
message of two attachments and one of one let a message's own attachments and
those of two messages be confused, and `MaxFrames` keeps an upload that goes
round from sending for ever. `vars` needs a single call for its violation. The
proofs below do without these bounds.

**Fairness.** `Rpc`: the listener of an open peer goes on to the next message,
a handler returns, a catch completes, a delivered callback runs, a broken
carrier is noticed (`Receive`, `HandlerReturn`, `CatchException`, `Deliver`,
`OnClose`): these are steps of a thread that `start_listen` keeps running. That
a kept Request is one day answered or destroyed (`FinishRequest`) is the
application's part of the bargain. No fairness is assumed of any call being
made. `Topics`: the listeners run; a publishing function in use is called again
and again, the code's own assumption (`peer.h:234-239`: "the next call"); a
destruction that has begun ends. Nobody has to end a publication, unsubscribe
or reach the high water mark. `PeerLock`: every thread runs on, callbacks
return; nobody has to call, and no message has to arrive. That
is enough to get the lock, because here a thread can be kept from it by no more
than the calls that are left, or by one that has it for ever: a thread that
waits for itself, one in the loop of `run_upload`, or one in `flush`, which is
not fair (`FlushEnds`) since the other side need not read. `KeptPeerIsReleased`
names these three (`Halted`). `Attachments`: the sender's threads run on, the
receiver listens, and every future is set in the end, which is what the
application that passed it promises. `Vars` states no fairness: it has no
liveness property.

**Deadlock** is not checked: each of the models may rightly come to rest (all
calls made, both peers destroyed, `MaxSubs` used up with no cycle running, all
attachments received). In
`PeerLock` there is one lock and a relock may be for ever, which is what
`RelocksAreKnown` is about.

## 4. The proofs

| Theorem | States |
|---|---|
| `RpcProofs!TypeCorrect` | `Spec => []TypeOK` |
| `RpcProofs!HeldOnce` | `Spec => []CallbackHeldOnce` |
| `RpcProofs!OutcomeFinality` | `Spec => OutcomeIsFinal` |
| `RpcAnswersProofs!OneAnswer` | `Spec => []OneAnswerUnlessThrown` |
| `RpcAnswersProofs!NoneForgotten` | `Spec => []NoCallForgotten` |
| `RpcAnswersProofs!AnswersMatch` | `Spec => []AnswersMatchCalls`, if `NeverWraps` |
| `RpcAnswersProofs!NamesRetire` | `Spec => []NamesStayRetired`, if `NeverWraps` |
| `RpcAnswersProofs!ImplementsPromise` | `Spec => PromiseSpec`, if `NeverWraps` |
| `PublisherProofs!TypeCorrect` | `Spec => []TypeOK` |
| `PublisherProofs!MarkedRemoved` | `Spec => []MarkedAreRemoved` |
| `PublisherProofs!NobodyElse` | `Spec => []NobodyElseRemoved` |
| `PublisherProofs!StableCycle` | `Spec => CycleIsStable` |
| `PublisherProofs!UnmarkedIsTheLoop` | what `do_unsubscribe`'s loop keeps is `Unmarked` |
| `TopicsProofs!TypeCorrect` | `Spec => []TypeOK` |
| `TopicsProofs!NobodyWaits` | `Spec => []NobodyIsLeftWaiting` |
| `TopicsProofs!NobodyInVain` | `Spec => []NobodyPublishesInVain` |
| `AttachmentsProofs!TypeCorrect` | `Spec => []TypeOK` |
| `AttachmentsProofs!FramesOrdered` | `Spec => []FramesInOrder` |
| `AttachmentsProofs!OneUpload` | `Spec => []OneUploadAtATime` |
| `AttachmentsProofs!KeptRight` | `Spec => []PromisesKeptRight` |
| `PeerLockProofs!WellFormed` | `Spec => []TypeOK` |
| `PeerLockProofs!Once` | `Spec => []NotifiedOnce` |
| `PeerLockProofs!RelocksKnown` | `Spec => []RelocksAreKnown` |
| `PeerLockProofs!UnlockedRace` | `Spec => []OnlyTheUnlockedRace` |
| `PeerLockProofs!LeftAlone` | `Spec => []ApplicationHasLeft` |
| `VarsProofs!TypeCorrect` | `Spec => []TypeOK` |
| `VarsProofs!LastAnnounced` | `Spec => []LastIsAnnounced` |
| `RoutingProofs!LongestRoute` | `FindsTheLongestRoute` for all methods, routes and names |
| `RoutingProofs!HiddenRoutes` | `MissesOnlyHiddenRoutes` for all finite sets of routes and all names |

They hold for every value of the constants that satisfies the named
assumptions: the two peers differ, an absent entry (`NoCall`, `NoSub`) is no
call or subscription, the id space is not empty, bounds are naturals, a message
of `Attachments` has at least one attachment, the listener of `PeerLock` is no
thread of the application. Every safety invariant and action property that a
passing run checks has its theorem.

Three theorems of `RpcAnswersProofs` have a hypothesis besides: that no peer
uses more ids than there are (`NeverWraps`), that is, a Peer makes fewer than
2^32 calls and callbacks. The code does not see to it, but without it they are
false: after the counter has wrapped, an answer finds the call that has the id
now (that is what the run `rpc_wrap` is about), and a callback's name is given
out a second time. The other theorems of Rpc hold after a wrap too.

*Rpc.* `CallbackHeldOnce` is inductive with the types alone
(`HInv == TypeOK /\ CallbackHeldOnce`). Issuing a call overwrites the entry
under its id, whose callback, if there is one, is dropped with it; `finish_call`
moves a callback from the map to the listener; delivery ends it; destroying a
Peer drops all it had. Nothing in this needs ids to be distinct, so the theorem
holds for any `IdSpace`, also after the counter has wrapped. `OutcomeFinality`
follows: an outcome only changes for a call whose callback is held somewhere,
and such a call is pending.

*Rpc, the answers.* `Accounted(c)` follows a call's request: it is in one inbox,
or with one listener, or kept as one Request, and the answers given so far are
those these places do not owe any more. With the types it is inductive for any
id space, and `OneAnswerUnlessThrown` is its last conjunct. `NoCallForgotten`
is inductive with the types alone. For the rest ids have to tell calls apart:
every id in the map, in messages, in Requests and with a listener is below the
counter and stands for one call, and every call has one (`IdsDiffer`). The refinement needs
more than both, because `RpcPromise` decides a call when its *first* answer is
given, while the issuer takes the first that *arrives*: `VerdictOnItsWay` says
that the first answer in the inbox of a call not completed is the first one
given, and that it has not been lost while the carrier stands; `Awaited`, that
who gives a first answer gives it to a call still pending, so that the abstract
step is possible. Under `RInv`, their conjunction, every action is a step of
`RpcPromise` or a stutter. TLC checked `RInv` on the instance of the run `rpc`
before it was proved.

*Publisher.* `PInv` adds to the two properties where ids and marks come from
(`IdsGiven`, `MarksAreOwned`, `MarksComplete`) and `MarksInOrder`: as long as
the cycle is not disturbed, `_unsubs` ascends and ends no higher than the
running subscriber. With that, `OrderedMarksRemove` says the single walk
finds every mark; without it, `OnlyMarkedRemoved` still says that it removes
nothing else. The run `publisher_marks` shows that the order is really needed.
`UnmarkedIsTheLoop` says that `Unmarked` is what the loop computes: after each
call of the predicate the walk has passed nothing above the subscriber it was
called on (`WalkHasPassed`), so looking for the next stop from there on is
looking for it from the start. There is always such a walk (`WalkExists`). The
induction over the calls takes the least call that would be wrong
(`LeastNatural`, from the well-founded order of the naturals).

*Topics.* The invariant `TInv` ties the two maps together by the order of the
messages to the publisher. `Served(t)`: a registration that was asked for has
its ask on its way behind every U for the topic, or its function exists, the
topic is in the map *and no U for it is on its way*, or a Z is coming.
`Refused(t)`: what is published or asked for without a registration has a U
behind the last ask. Neither holds without the other parts of the invariant
(that a registration's plan is for that topic, that a carrier that holds has two
open ends), and both are stronger than the properties: an ask or a U being
*somewhere* in the queue is not preserved when the other overtakes it. The
argument is one lemma for each way of sending or receiving an ask or a U
(`AskSent`, `UnsubSent`, `AskReceived`, `UnsubReceived`), then one for each
action. `TInv` was model-checked before it was proved, on the instance of the
run `topics` and on one topic with three subscriptions.

*Attachments.* Undisturbed, the system is in one of three phases: nothing waits
(`PhaseIdle`), the head of the queue is waited for (`PhaseWaiting`), or it was
sent and is about to be popped (`PhasePopping`). In each, the queue is what is
left of the attachments announced, and those of the message about to be, after
the frames sent, less the one to be popped (`Suffix`). This is needed because
neither property alone says where the next frame stands in the announcements.
`Orderly` adds that one sender at a time is at work and that its `need_start` is
right: it began when nothing waited. One lemma per action shows which phase
follows.
The receiver's side, `PInv`, says of every frame on its way how much of the
announcements the receiver will have heard of and how much it will have taken
when it receives that frame (`heard`, `taken`): a message moves the first mark
over its own attachments, a binary frame the second over its one, which is the
next; what the receiver waits for (`dwnl`) lies between the two. While the
connection is up the marks end where the sender stands (`OnTheWay`). That both
ends agree now is not inductive: it has to hold at every position between them.
A break only cuts the wire off, which keeps all but the last conjunct. TLC
checked `PInv` on the instance of the run `attachments` first.

*Peer lock.* `LInv` says of each frame of a stack what its function may have at
the point where it is (`FrameFits`: in its section a lock, and of the mode the
function uses; out of it none) and of each two adjacent frames that one calls
the other there (`Calls`), so the lock a thread has is that of a frame whose
callee is known: this is `RelocksAreKnown`. The other parts are about several
stacks. `WriterIsAlone` is the lock itself. `EndIsLonely` is about the end:
once `~Peer` runs, nobody refers to the Peer any more, and there is one `~Peer`
at most. It is kept because only the application, in a thread of its own or in a
callback, makes calls that hold a reference, and it needs one to begin with; all
other steps make no new one (`CallingKept`). The first frame of a thread of the
application is such a call or `~Peer`, whence `ApplicationHasLeft`.
`TakenOnce`: one frame at most has what `disconnect()` took,
and only if it has reset `_conn`. `NotYetTold`: what is stored and what was
taken but not run was given and not told. A race needs two frames on top of two
stacks; `FrameFits` says which lock each has at its point (`WritersLock`,
`ReadersLock`), and `WriterIsAlone` leaves those that hold none, or share it.
Steps fall into a few kinds (a return, a turn within a function, a nested call,
taking the lock, taking the notifications, dying), with one lemma each about
what they keep. TLC checked `LInv` on the run's instance before the proof.

*Vars.* `InOrder(n)`: while nothing has raced for `n`, one thread at most has a
change of it to announce, that change is the latest, and without one the last
announcement is the value. What `syncVar` makes of the announcement is the
subject of the finding below.

*Routing.* Of two prefixes of a name, the one that is not above the other is
not the longer one, so the first entry of the descending map that is a prefix
is the longest. The order is total and transitive (`NotAboveIsTotal`,
`NotAboveIsTransitive`), so among finitely many routes not above a name there is
a highest (`HighestName`), the one `lower_bound` returns; `HiddenRoutes` follows
from its being antisymmetric. The highest is the one with the fewest routes not
below it, which needs no induction over sets.

**Only model-checked**: the liveness properties `CallsComplete`,
`UnsubscribeTakesEffect`, `AttachmentsArrive` and `KeptPeerIsReleased`:
liveness and ENABLED are outside what the installed prover
handles. That the recursion of `DoUnsubscribe`, a fold, computes what `Walk`
relates is checked for small inputs only: the provers cannot unfold a fold.

## 5. Where the code disagrees with its documentation

1. **Pending calls are forgotten at a disconnect** (`rpc_disconnect`).
   `disconnect()` prepares `clmp`, completes every call in it as
   `disconnected`, but never swaps `_call_map` into it (`peer.cpp:321,
   329-341`).
2. **A handler that throws answers twice** (`rpc_answers`). The Request's
   destructor sends an empty result during unwinding, then the catch sends the
   exception (`request.cpp:41-45`, `peer.cpp:424`); the caller sees a success.
3. **A marked subscriber may stay** (`publisher_marks`). `publish` appends to
   `_unsubs` without regard to a later id a callback has put there
   (`publisher.cpp:31-33`).
4. **An unsubscribed function may go on publishing** (`topics_revived`). It
   looks for its topic by name and finds the entry of the next subscription
   (`peer.cpp:81-84`).
5. **Updates for an unknown topic are not refused** (`topics_unknown`). The
   return value of `on_topic_update` is ignored and no U is sent
   (`peer.cpp:457`).
6. **Variables are announced the wrong way round** (`vars`). `syncVar` sends X
   for a variable that has a value, and S with the content of an empty
   `optional` for one that was deleted (`peer.cpp:723-727`).

Met while modelling, without a run of their own:

* A node error does not close the connection. `send_node_error` holds `_lock`
  when it calls `disconnect()` (`peer.cpp:568-572`), which then blocks for ever
  or throws; `doc/umq_cs.md` says the global error is always followed by the
  end of the connection. `RelocksAreKnown` names it among its five situations;
  `HighWaterMarkBehavior::close`, the callbacks of a call on a disconnected peer
  and of a topic's update, and objects of the application that are destroyed
  under the lock (`peer.cpp:104, 122, 273`) are the others.
* The lock may be held for ever: by the endless loop of `run_upload`
  (`peer.cpp:293-315`) in a call, an update or an upload, shared by a publishing
  function that waits in `flush` (`peer.cpp:502`).
* Nobody stops the listener before the Peer is destroyed (`connection.h:51-53`):
  `~Peer` may run below `parse_text_message`, when the last reference goes with
  a callback, or in another thread meanwhile. `ApplicationHasLeft` is about the
  other threads only.
* `disconnect()` goes on to `_dwnl_attachments` (`peer.cpp:342`) after its event
  may have destroyed the Peer.
* `keep_until_disconnected` after the disconnect keeps the Peer for ever. The
  demo calls it after `init_server` (`tests/umq_demo.cpp:125-126`).
* Answers (`peer.cpp:564`), changes of variables (`peer.cpp:761-763`) and
  uploads (`peer.cpp:297-303`) are sent without `_lock`, publishing functions
  send under a shared one, while a connection need not be safe for several
  threads (`connection.h:29`) and `disconnect()` may reset `_conn` meanwhile.
  `_discnt_cb` is written without the lock (`peer.cpp:127`) and `is_connected`
  reads `_conn` without it (`peer.cpp:595`). `OnlyTheUnlockedRace` lists these.
* An attachment that is set before its turn is sent again and again
  (`peer.cpp:308-313`), and senders that do not hold `_lock` alone race for the
  upload queue: the flag `disturbed` of `Attachments`.
* Attachments promised by a peer that disconnects are never set:
  `disconnect()` swaps the queue away and then walks the empty member
  (`peer.cpp:332, 342`).
* Variables set before the connection is up are not announced later, and remote
  ones are not deleted when it closes (`doc/umq_cs.md:201`).
* A route hides shorter ones from the names above it (`methodlist.h:98`):
  with the routes "ab" and "abc", "abd" finds nothing.

## 6. Not modelled

* `TCPConnection`: no definition of its destructor and of `is_hwm`, a read that
  is never re-armed, `_ping_sent` never set, a frame parser that does not
  consume its size byte, and nothing constructs it. It has no behaviour yet.
* The JavaScript peer: a second implementation of the protocol, to which
  nothing said here about the C++ one applies. Its hazards are listed.
* A callback that is replaced because its id is used again (`peer.cpp:49`), which
  is destroyed under the lock, in `PeerLock`: it takes 2^32 calls. An exception
  that leaves a destructor ends the program and is no step there.
* The handshake beyond its use of the lock: the other models begin after it.
* TLS, WebSocket framing and the buffers of the stream (libraries), the format
  of messages and the wording of errors.
* `Publisher` callbacks that publish, subscribe or reset on the Publisher that
  is calling them.
* A Publisher whose subscribers are publishing functions of several peers as
  one model. Its parts meet in the return value of such a function, which both
  models leave free.

What could come next: an abstract specification of Topics (a subscription that
is asked for, served and ended) and of Publisher, shown to be implemented as
`RpcPromise` is; a model of the JavaScript peer.
