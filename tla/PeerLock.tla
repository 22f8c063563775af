------------------------------ MODULE PeerLock ------------------------------
(***************************************************************************)
(* One C++ Peer, the thread that listens on its connection and the threads *)
(* of the application: which function takes Peer::_lock, which sends or    *)
(* reads without it, which calls back into the application and so perhaps  *)
(* into the Peer again, and how the Peer ends (peer.cpp).                  *)
(*                                                                         *)
(* A thread is its call stack. A frame is a function, a point in it and    *)
(* the lock it holds there; a frame that ends, by return or by exception,  *)
(* releases its lock, as the destructor of std::unique_lock does. What     *)
(* messages and map entries contain is left to the other modules.          *)
(***************************************************************************)
EXTENDS Naturals, Sequences

CONSTANTS
  Listener,  \* the connection's thread
  Apps,      \* the application's threads
  MaxDepth,  \* bound: frames on a stack that callbacks may call from
  MaxCalls   \* bound: calls made and messages received, all told

ASSUME ListenerAssumption == Listener \notin Apps
ASSUME BoundsAssumption == MaxDepth \in Nat /\ MaxCalls \in Nat

Threads == Apps \cup {Listener}

\* Functions that do all of their work under _lock.  "update" stands for
\* those that only touch a map and perhaps send: subscribe, unsubscribe,
\* reg_callback, unreg_callback, set_hwm, VarSpace::set of remote and context,
\* the trailer of a publishing function; "call" for call, discover and
\* call_callback; "publish", the publishing function, for get and get_hwm too,
\* which share the lock and return.
Whole == {"update", "call", "set_methods", "start_publish", "on_unsubscribe",
          "publish"}

\* Those that take something under _lock and go on without it; "finish"
\* stands for finish_call and on_callback, "unsubscribed" is the handler of U.
Taking == {"finish", "unsubscribed", "disconnect"}

\* Those that send without _lock: the answers of a Request, VarSpace::set of
\* local after its section, and the callback of run_upload before its own,
\* called by whoever sets the attachment.
Sending == {"answer", "set_var", "upload"}

Locking == Whole \cup Taking \cup {"on_topic_update", "send_node_error",
                                   "set_var", "upload"}

\* What the application calls from any thread.
Public == Whole \cup Sending \cup {"on_disconnect", "is_connected"}

\* Functions that destroy the application's objects under _lock: a callback
\* or a std::any that is erased or replaced, the old method list.
Erasing == {"update", "set_methods", "on_unsubscribe"}

\* What a message leads to inside parse_text_message's try block: H and W go
\* to a callback or an answer, ? to "on_method_call", - and binary frames to
\* "download", and so does A, whose own message is parsed as if it came alone.
Handlers == {"on_method_call", "finish", "unsubscribed", "on_topic_update",
             "update", "callback", "answer", "download"}

Fns == Locking \cup Public \cup Handlers \cup {"parse", "destroy"}
Points == {"start", "enter", "stuck", "in", "flush", "spin", "use", "nested",
           "trying_call", "trying", "caught", "event", "topics", "loop"}
Slots == {"plain", "keep", "request"}
Frames == [fn: Fns, at: Points, lock: {"no", "shared", "unique"},
           took: SUBSET Slots]

VARIABLES
  stack,      \* stack[t]: the frames of thread t, innermost last
  raised,     \* raised[t]: an exception is unwinding t's stack
  conn,       \* _conn: "set" or "reset"
  carrier,    \* whether the connection still delivers: "up" or "down"
  peer,       \* "alive" or "destroyed"
  owned,      \* the application holds a PPeer outside of any call
  event,      \* _discnt_cb: "none", "plain", or keep_until_disconnected's
  topic_map,  \* an entry of _topic_map: "none", "bare", or with a "request"
  given,      \* history: how often a disconnect event or request was stored
  told,       \* history: how often one was run
  late,       \* history: the event was last stored after a disconnect
  budget      \* the calls and messages that may still come

vars == <<stack, raised, conn, carrier, peer, owned, event, topic_map, given,
          told, late, budget>>

Kinds == {"event", "request"}

TypeOK ==
  /\ stack \in [Threads -> Seq(Frames)]
  /\ raised \in [Threads -> BOOLEAN]
  /\ conn \in {"set", "reset"}
  /\ carrier \in {"up", "down"}
  /\ peer \in {"alive", "destroyed"}
  /\ owned \in BOOLEAN
  /\ event \in {"none", "plain", "keep"}
  /\ topic_map \in {"none", "bare", "request"}
  /\ given \in [Kinds -> Nat]
  /\ told \in [Kinds -> Nat]
  /\ late \in BOOLEAN
  /\ budget \in Nat

\* init_server or init_client has run.  An on_disconnect before it is one
\* that comes first.
Init ==
  /\ stack = [t \in Threads |-> <<>>]
  /\ raised = [t \in Threads |-> FALSE]
  /\ conn = "set"
  /\ carrier = "up"
  /\ peer = "alive"
  /\ owned = TRUE
  /\ event = "none"
  /\ topic_map = "none"
  /\ given = [k \in Kinds |-> 0]
  /\ told = [k \in Kinds |-> 0]
  /\ late = FALSE
  /\ budget = MaxCalls

-----------------------------------------------------------------------------
(* Stacks.                                                                 *)

\* Faulty: subscribe, unsubscribe and the like are content to share the lock.
ModeOfReaders(fn) == IF fn \in {"publish", "on_topic_update", "update"}
                     THEN "shared" ELSE "unique"

Mode(fn) == IF fn \in {"publish", "on_topic_update"} THEN "shared"
            ELSE "unique"

New(fn) == [fn |-> fn,
            at |-> IF fn \in Locking \ {"upload"} THEN "enter" ELSE "start",
            lock |-> "no", took |-> {}]

Top(t) == stack[t][Len(stack[t])]
Below(t) == SubSeq(stack[t], 1, Len(stack[t]) - 1)

\* What t executes: this function, at this point.
At(t, fn, at) ==
  stack[t] # <<>> /\ ~raised[t] /\ Top(t).fn = fn /\ Top(t).at = at

Push(t, f) == stack' = [stack EXCEPT ![t] = Append(@, f)]
Return(t) == stack' = [stack EXCEPT ![t] = Below(t)]
Become(t, f) == stack' = [stack EXCEPT ![t] = Append(Below(t), f)]
BecomeAndCall(t, f, fn) ==
  stack' = [stack EXCEPT ![t] = Append(Append(Below(t), f), New(fn))]

Held(t) == {stack[t][i].lock : i \in DOMAIN stack[t]} \ {"no"}

\* A thread waits for the lock, or asks for it.
Entering(t) == stack[t] # <<>> /\ ~raised[t] /\ Top(t).at = "enter"

\* The other threads leave room for a lock of this mode.
Free(t, mode) ==
  \A u \in Threads \ {t} :
    Held(u) = {} \/ (mode = "shared" /\ "unique" \notin Held(u))

\* A call the application makes, from a thread of its own or in a callback,
\* holds the reference it came by, what the listener calls does not; and the
\* event of keep_until_disconnected holds one, wherever it is.
Calling(t) == \E i \in DOMAIN stack[t] :
                /\ stack[t][i].fn \in Public
                /\ i > 1 => stack[t][i - 1].fn = "callback"
Keeping(t) == \E i \in DOMAIN stack[t] : "keep" \in stack[t][i].took

\* Faulty: publishing functions and answers use the Peer without locking
\* their weak pointer.
ReferencedByOwner ==
  owned \/ event = "keep" \/ \E t \in Threads : Keeping(t)

Referenced ==
  owned \/ event = "keep" \/ \E t \in Threads : Calling(t) \/ Keeping(t)

Destroying == \E t \in Threads : \E i \in DOMAIN stack[t] :
                stack[t][i].fn = "destroy"

\* t runs the application's destructors, or ~Peer.  An exception that leaves
\* one ends the program.
InDestructor(t) == \E i \in DOMAIN stack[t] :
                     /\ stack[t][i].fn \in Erasing \cup {"destroy"}
                     /\ stack[t][i].at = "nested"

members == <<conn, carrier, peer, owned, event, topic_map, given, told, late>>

-----------------------------------------------------------------------------
(* _lock, a std::shared_timed_mutex.                                       *)

Acquire(t) ==
  /\ Entering(t)
  /\ Held(t) = {}
  /\ Free(t, Mode(Top(t).fn))
  /\ Become(t, [Top(t) EXCEPT !.at = "in", !.lock = Mode(Top(t).fn)])
  /\ UNCHANGED <<raised, members, budget>>

\* The thread has the lock already, for which the standard promises nothing.
\* It waits for itself for ever; or the implementation sees that it is the
\* writer itself and throws (EDEADLK); or a second shared lock is granted.
Relock(t) ==
  /\ Entering(t)
  /\ Held(t) # {}
  /\ \/ /\ Become(t, [Top(t) EXCEPT !.at = "stuck"])
        /\ UNCHANGED raised
     \/ /\ "unique" \in Held(t) /\ ~InDestructor(t)
        /\ Return(t)
        /\ raised' = [raised EXCEPT ![t] = TRUE]
     \/ /\ "unique" \notin Held(t)
        /\ Mode(Top(t).fn) = "shared"
        /\ Free(t, "shared")
        /\ Become(t, [Top(t) EXCEPT !.at = "in", !.lock = "shared"])
        /\ UNCHANGED raised
  /\ UNCHANGED <<members, budget>>

-----------------------------------------------------------------------------
(* Calls and messages.                                                     *)

\* A thread of the application, or a callback of any thread, calls the Peer.
Enter(t, fn) ==
  /\ budget > 0
  /\ peer = "alive" /\ Referenced
  /\ \/ stack[t] = <<>> /\ ~raised[t] /\ t \in Apps
     \/ At(t, "callback", "start") /\ Len(stack[t]) < MaxDepth
  /\ Push(t, New(fn))
  /\ budget' = budget - 1
  /\ UNCHANGED <<raised, members>>

\* start_listen was given the Listener, a member of the Peer, and nobody stops
\* the connection: it delivers while ~Peer runs.  A message that comes after
\* it finds no Peer, and anything may happen.
Listening ==
  /\ stack[Listener] = <<>> /\ ~raised[Listener]
  /\ carrier = "up"
  /\ peer = "alive"

\* Where in parse_text_message the handler is called: in the try block of
\* the calls, which is inside the other, in the other only, or, for binary
\* frames and empty text, outside of both, as a catch block is.
TryBlocks(fn) ==
  CASE fn = "on_method_call" -> {"trying_call"}
    [] fn = "finish" -> {"trying_call", "trying"}
    [] fn \in {"download", "send_node_error"} -> {"trying", "caught"}
    [] OTHER -> {"trying"}

ParseMessage(fn) ==
  /\ budget > 0
  /\ Listening
  /\ \E at \in TryBlocks(fn) :
       stack' = [stack EXCEPT ![Listener] =
                   <<[New("parse") EXCEPT !.at = at], New(fn)>>]
  /\ budget' = budget - 1
  /\ UNCHANGED <<raised, members>>

\* Listener::on_close, after the last message.
OnClose ==
  /\ Listening
  /\ carrier' = "down"
  /\ Push(Listener, New("disconnect"))
  /\ UNCHANGED <<raised, conn, peer, owned, event, topic_map, given, told,
                 late, budget>>

-----------------------------------------------------------------------------
(* Functions that hold the lock.                                           *)

Nested(f) == [f EXCEPT !.at = "nested"]
Released(f) == [f EXCEPT !.at = "nested", !.lock = "no"]

\* The whole section: a map or _methods is changed, the message is sent if
\* _conn is set.  The destructor of what was erased or replaced runs before
\* the unlock.
Update(t) ==
  /\ At(t, "update", "in") \/ At(t, "set_methods", "in")
  /\ Return(t) \/ BecomeAndCall(t, Nested(Top(t)), "callback")
  /\ UNCHANGED <<raised, members, budget>>

\* run_upload finds an attachment that is set already: it sends it, does not
\* pop it, and finds it again.  The loop has no end.
Spin(t) == Become(t, [Top(t) EXCEPT !.at = "spin"])

\* On a disconnected peer the callback is run here, under the lock; else the
\* call is sent, with its attachments.
Call(t) ==
  /\ At(t, "call", "in")
  /\ IF conn = "set" THEN Return(t) \/ Spin(t)
     ELSE BecomeAndCall(t, Nested(Top(t)), "callback")
  /\ UNCHANGED <<raised, members, budget>>

\* VarSpace::set of local: the variable is changed, or was so before; what
\* changed is announced after the unlock.
SetVar(t) ==
  /\ At(t, "set_var", "in")
  /\ \/ Return(t)
     \/ Become(t, [Top(t) EXCEPT !.at = "start", !.lock = "no"])
  /\ UNCHANGED <<raised, members, budget>>

\* The callback of run_upload pops the attachment it has sent and runs the
\* loop for the next.
Upload(t) ==
  /\ At(t, "upload", "in")
  /\ Return(t) \/ Spin(t)
  /\ UNCHANGED <<raised, members, budget>>

StartPublish(t) ==
  /\ At(t, "start_publish", "in")
  /\ topic_map' = IF conn = "set" /\ topic_map = "none" THEN "bare"
                  ELSE topic_map
  /\ Return(t)
  /\ UNCHANGED <<raised, conn, carrier, peer, owned, event, given, told, late,
                 budget>>

\* Peer::on_unsubscribe(topic, cb); a request that is replaced is destroyed.
OnUnsubscribe(t) ==
  /\ At(t, "on_unsubscribe", "in")
  /\ IF topic_map = "none" THEN UNCHANGED <<topic_map, given>>
     ELSE /\ topic_map' = "request"
          /\ given' = [given EXCEPT !["request"] = @ + 1]
  /\ \/ Return(t)
     \/ /\ topic_map = "request"
        /\ BecomeAndCall(t, Nested(Top(t)), "callback")
  /\ UNCHANGED <<raised, conn, carrier, peer, owned, event, told, late, budget>>

\* The publishing function.  Above the high water mark the behaviour "block"
\* waits for the connection to drain and "close" calls disconnect; in all
\* other cases it sends, perhaps with attachments, or does not.
Publish(t) ==
  /\ At(t, "publish", "in")
  /\ \/ Return(t)
     \/ /\ conn = "set" /\ topic_map # "none"
        /\ \/ Spin(t)
           \/ Become(t, [Top(t) EXCEPT !.at = "flush"])
           \/ BecomeAndCall(t, Nested(Top(t)), "disconnect")
  /\ UNCHANGED <<raised, members, budget>>

\* The other side has read enough, and the update is sent.
FlushEnds(t) ==
  /\ At(t, "publish", "flush")
  /\ Return(t) \/ Spin(t)
  /\ UNCHANGED <<raised, members, budget>>

OnTopicUpdate(t) ==
  /\ At(t, "on_topic_update", "in")
  /\ Return(t) \/ BecomeAndCall(t, Nested(Top(t)), "callback")
  /\ UNCHANGED <<raised, members, budget>>

SendNodeError(t) ==
  /\ At(t, "send_node_error", "in")
  /\ BecomeAndCall(t, Nested(Top(t)), "disconnect")
  /\ UNCHANGED <<raised, members, budget>>

-----------------------------------------------------------------------------
(* Functions that take and unlock.                                         *)

\* Faulty: the callback runs before the unlock.
FinishUnderLock(t) ==
  /\ At(t, "finish", "in")
  /\ Return(t) \/ BecomeAndCall(t, Nested(Top(t)), "callback")
  /\ UNCHANGED <<raised, members, budget>>

Finish(t) ==
  /\ At(t, "finish", "in")
  /\ Return(t) \/ BecomeAndCall(t, Released(Top(t)), "callback")
  /\ UNCHANGED <<raised, members, budget>>

\* Faulty: the request is run, but the entry stays.
UnsubscribedWithoutErase(t) ==
  /\ At(t, "unsubscribed", "in")
  /\ IF topic_map = "request"
     THEN /\ told' = [told EXCEPT !["request"] = @ + 1]
          /\ BecomeAndCall(t, Released(Top(t)), "callback")
     ELSE Return(t) /\ UNCHANGED told
  /\ UNCHANGED <<raised, conn, carrier, peer, owned, event, topic_map, given,
                 late, budget>>

\* The handler of U.
Unsubscribed(t) ==
  /\ At(t, "unsubscribed", "in")
  /\ topic_map' = "none"
  /\ IF topic_map = "request"
     THEN /\ told' = [told EXCEPT !["request"] = @ + 1]
          /\ BecomeAndCall(t, Released(Top(t)), "callback")
     ELSE Return(t) /\ UNCHANGED told
  /\ UNCHANGED <<raised, conn, carrier, peer, owned, event, given, late,
                 budget>>

\* Faulty: an entry without a request is not told from one with it.
DisconnectTakesNull(t) ==
  /\ At(t, "disconnect", "in")
  /\ conn = "set"
  /\ conn' = "reset" /\ event' = "none" /\ topic_map' = "none"
  /\ Become(t, [Top(t) EXCEPT !.at = "event", !.lock = "no",
                              !.took = {event, topic_map}])
  /\ UNCHANGED <<raised, carrier, peer, owned, given, told, late, budget>>

\* Faulty: the swap of _discnt_cb is forgotten, the event stays.
DisconnectForgetsEvent(t) ==
  /\ At(t, "disconnect", "in")
  /\ IF conn = "set"
     THEN /\ conn' = "reset" /\ topic_map' = "none"
          /\ Become(t, [Top(t) EXCEPT !.at = "event", !.lock = "no",
                                !.took = {topic_map} \cap Slots])
     ELSE /\ Become(t, [Top(t) EXCEPT !.at = "event", !.lock = "no"])
          /\ UNCHANGED <<conn, topic_map>>
  /\ UNCHANGED <<raised, carrier, peer, owned, event, given, told, late,
                 budget>>

\* disconnect(): the first to come resets _conn and takes the event and the
\* topics, then the lock is released.
Disconnect(t) ==
  /\ At(t, "disconnect", "in")
  /\ IF conn = "set"
     THEN /\ conn' = "reset" /\ event' = "none" /\ topic_map' = "none"
          /\ Become(t, [Top(t) EXCEPT !.at = "event", !.lock = "no",
                                !.took = {event, topic_map} \cap Slots])
     ELSE /\ Become(t, [Top(t) EXCEPT !.at = "event", !.lock = "no"])
          /\ UNCHANGED <<conn, event, topic_map>>
  /\ UNCHANGED <<raised, carrier, peer, owned, given, told, late, budget>>

\* The event runs.  keep_until_disconnected's drops its reference to the
\* Peer: if it was the last, ~Peer runs here and now.
RunEvent(t) ==
  LET f == [Top(t) EXCEPT !.at = "topics", !.took = @ \cap {"request"}]
      referenced == \/ owned \/ event = "keep"
                    \/ \E u \in Threads : Calling(u) \/ (u # t /\ Keeping(u))
  IN  /\ At(t, "disconnect", "event")
      /\ IF "plain" \in Top(t).took THEN BecomeAndCall(t, f, "callback")
         ELSE IF "keep" \in Top(t).took /\ ~referenced
              THEN BecomeAndCall(t, f, "destroy")
              ELSE Become(t, f)
      /\ told' = IF Top(t).took \subseteq {"request"} THEN told
                 ELSE [told EXCEPT !["event"] = @ + 1]
      /\ UNCHANGED <<raised, conn, carrier, peer, owned, event, topic_map,
                     given, late, budget>>

\* The UnsubscribeRequests of the topics run.
RunRequests(t) ==
  LET f == [Top(t) EXCEPT !.at = "loop", !.took = {}]
  IN  /\ At(t, "disconnect", "topics")
      /\ IF "request" \in Top(t).took
         THEN /\ BecomeAndCall(t, f, "callback")
              /\ told' = [told EXCEPT !["request"] = @ + 1]
         ELSE Become(t, f) /\ UNCHANGED told
      /\ UNCHANGED <<raised, conn, carrier, peer, owned, event, topic_map,
                     given, late, budget>>

\* The loop over the member _dwnl_attachments, after everything else; those
\* who wait for an attachment hear of it, and the callbacks taken are
\* destroyed.
EndDisconnect(t) ==
  /\ At(t, "disconnect", "loop")
  /\ Return(t) \/ BecomeAndCall(t, Nested(Top(t)), "callback")
  /\ UNCHANGED <<raised, members, budget>>

-----------------------------------------------------------------------------
(* Functions without the lock.                                             *)

\* What a function does after it has sent without the lock: the callback of
\* run_upload waits for the lock; an answer with attachments may find them set.
Sent(t) ==
  \/ Top(t).fn = "upload" /\ Become(t, [Top(t) EXCEPT !.at = "enter"])
  \/ Top(t).fn # "upload" /\ Return(t)
  \/ Top(t).fn = "answer" /\ Spin(t)

\* Peer::send_message without the lock: _conn is looked at, then used.
SendUnlocked(t) ==
  /\ \E fn \in Sending :
       \/ /\ At(t, fn, "start")
          /\ IF conn = "set" THEN Become(t, [Top(t) EXCEPT !.at = "use"])
             ELSE Sent(t)
       \/ At(t, fn, "use") /\ Sent(t)
  /\ UNCHANGED <<raised, members, budget>>

IsConnected(t) ==
  /\ At(t, "is_connected", "start")
  /\ Return(t)
  /\ UNCHANGED <<raised, members, budget>>

\* _methods is read; the handler runs, or the call is refused.
OnMethodCall(t) ==
  /\ At(t, "on_method_call", "start")
  /\ \/ BecomeAndCall(t, Nested(Top(t)), "callback")
     \/ Become(t, New("answer"))
  /\ UNCHANGED <<raised, members, budget>>

\* on_disconnect and keep_until_disconnected.
OnDisconnect(t) ==
  /\ At(t, "on_disconnect", "start")
  /\ event' \in {"plain", "keep"}
  /\ given' = [given EXCEPT !["event"] = @ + 1]
  /\ late' = (conn = "reset")
  /\ Return(t)
  /\ UNCHANGED <<raised, conn, carrier, peer, owned, topic_map, told, budget>>

\* _dwnl_attachments is filled, drained, which those hear who wait for the
\* attachment, or found empty.
Download(t) ==
  /\ At(t, "download", "start")
  /\ \/ Return(t)
     \/ BecomeAndCall(t, Nested(Top(t)), "callback")
     \/ Become(t, New("send_node_error"))
  /\ UNCHANGED <<raised, members, budget>>

-----------------------------------------------------------------------------
(* Returns and exceptions.                                                 *)

\* The application's code comes to its end.
EndCallback(t) ==
  /\ At(t, "callback", "start")
  /\ Return(t)
  /\ UNCHANGED <<raised, members, budget>>

\* The caller goes on after a nested call.  A topic's callback that returned
\* false is unsubscribed in a second section.
Resume(t) ==
  /\ stack[t] # <<>> /\ ~raised[t]
  /\ Top(t).fn # "destroy"
  /\ Top(t).at = "nested" \/ Top(t).fn = "parse"
  /\ \/ Return(t)
     \/ Top(t).fn = "on_topic_update" /\ Become(t, New("update"))
  /\ UNCHANGED <<raised, members, budget>>

\* The application throws, but not out of a destructor.
Throw(t) ==
  /\ At(t, "callback", "start")
  /\ ~InDestructor(t)
  /\ Return(t)
  /\ raised' = [raised EXCEPT ![t] = TRUE]
  /\ UNCHANGED <<members, budget>>

\* An exception leaves a frame, or is caught: by the application, by the try
\* block of the calls, which answers, or by the other, which reports it.
Unwind(t) ==
  /\ raised[t]
  /\ stack[t] # <<>>
  /\ LET caught == [Top(t) EXCEPT !.at = "caught"] IN
     \/ /\ Top(t).fn # "parse" \/ Top(t).at = "caught"
        /\ Return(t)
        /\ UNCHANGED raised
     \/ /\ Top(t).fn = "callback"
        /\ raised' = [raised EXCEPT ![t] = FALSE]
        /\ UNCHANGED stack
     \/ /\ Top(t).fn = "parse" /\ Top(t).at # "caught"
        /\ raised' = [raised EXCEPT ![t] = FALSE]
        /\ BecomeAndCall(t, caught, IF Top(t).at = "trying_call"
                                    THEN "answer" ELSE "send_node_error")
  /\ UNCHANGED <<members, budget>>

\* It reaches the application, or the connection, which may give up.
Escape(t) ==
  /\ raised[t]
  /\ stack[t] = <<>>
  /\ raised' = [raised EXCEPT ![t] = FALSE]
  /\ \/ t = Listener /\ carrier' = "down"
     \/ UNCHANGED carrier
  /\ UNCHANGED <<stack, conn, peer, owned, event, topic_map, given, told, late,
                 budget>>

-----------------------------------------------------------------------------
(* The end of the Peer.                                                    *)

DropOwner ==
  /\ owned
  /\ owned' = FALSE
  /\ UNCHANGED <<stack, raised, conn, carrier, peer, event, topic_map, given,
                 told, late, budget>>

\* ~Peer, where the last reference is dropped: in a thread of the application,
\* or in a callback of any thread.  The listener may be anywhere.
Destroy(t) ==
  /\ peer = "alive" /\ ~Referenced /\ ~Destroying
  /\ \/ stack[t] = <<>> /\ ~raised[t] /\ t \in Apps
     \/ At(t, "callback", "start")
  /\ Push(t, New("destroy"))
  /\ UNCHANGED <<raised, members, budget>>

\* ~Peer disconnects, then its members go.  Functions below it on the stack
\* go on with a Peer that is no more: what they then do is undefined, and here
\* they do what they would have done.
Destructor(t) ==
  \/ /\ At(t, "destroy", "start")
     /\ BecomeAndCall(t, Nested(Top(t)), "disconnect")
     /\ UNCHANGED <<raised, members, budget>>
  \/ /\ At(t, "destroy", "nested")
     /\ peer' = "destroyed"
     /\ Return(t)
     /\ UNCHANGED <<raised, conn, carrier, owned, event, topic_map, given,
                    told, late, budget>>

-----------------------------------------------------------------------------
Step(t) ==
  \/ Acquire(t) \/ Relock(t)
  \/ Update(t) \/ Call(t) \/ SetVar(t) \/ Upload(t)
  \/ StartPublish(t) \/ OnUnsubscribe(t) \/ Publish(t)
  \/ OnTopicUpdate(t) \/ SendNodeError(t)
  \/ Finish(t) \/ Unsubscribed(t)
  \/ Disconnect(t) \/ RunEvent(t) \/ RunRequests(t) \/ EndDisconnect(t)
  \/ SendUnlocked(t) \/ IsConnected(t) \/ OnMethodCall(t)
  \/ OnDisconnect(t) \/ Download(t)
  \/ EndCallback(t) \/ Resume(t) \/ Throw(t) \/ Unwind(t) \/ Escape(t)
  \/ Destroy(t) \/ Destructor(t)

Next ==
  \/ OnClose
  \/ DropOwner
  \/ \E fn \in Handlers \cup {"send_node_error"} : ParseMessage(fn)
  \/ \E t \in Threads : \/ Step(t) \/ FlushEnds(t)
                       \/ \E fn \in Public : Enter(t, fn)

Spec == Init /\ [][Next]_vars

\* Threads run on; callbacks return.  The other side need not read, so a
\* flush need not end.
Fairness == \A t \in Threads : WF_vars(Step(t))

FairSpec == Spec /\ Fairness

-----------------------------------------------------------------------------
(* What holds whatever the application's callbacks do.                     *)

\* The members a function reads and writes at a point of it.  "stream" is
\* what the connection writes to, "maps" are those of Peer.
Members == {"maps", "_conn", "_methods", "_discnt_cb", "_dwnl_attachments",
            "_upld_attachments", "stream"}

Writes(f) ==
  CASE f.fn \in {"start_publish", "on_unsubscribe", "finish", "unsubscribed",
                 "set_var"} /\ f.at = "in" -> {"maps"}
    [] f.fn = "update" /\ f.at = "in" -> {"maps", "stream"}
    [] f.fn = "call" /\ f.at = "in" -> {"maps", "stream", "_upld_attachments"}
    [] f.fn = "set_methods" /\ f.at = "in" -> {"_methods"}
    [] f.fn = "publish" /\ f.at = "in" -> {"stream", "_upld_attachments"}
    [] f.fn = "upload" /\ f.at = "in" -> {"_upld_attachments"}
    [] f.fn = "send_node_error" /\ f.at = "in" -> {"stream"}
    [] f.fn = "disconnect" /\ f.at = "in" ->
         {"_conn", "maps", "_discnt_cb", "_dwnl_attachments"}
    [] f.fn = "disconnect" /\ f.at = "loop" -> {"_dwnl_attachments"}
    [] f.fn = "download" /\ f.at = "start" -> {"_dwnl_attachments"}
    [] f.fn = "on_disconnect" /\ f.at = "start" -> {"_discnt_cb"}
    [] f.fn = "answer" /\ f.at = "start" -> {"_upld_attachments"}
    [] f.at \in {"flush", "spin", "use"} -> {"stream"}
    [] OTHER -> {}

Reads(f) ==
  CASE f.fn \in {"publish", "on_topic_update"} /\ f.at \in {"in", "nested"} ->
         {"_conn", "maps"}
    [] f.fn \in Locking /\ f.at = "in" -> {"_conn"}
    [] f.at \in {"flush", "spin", "use"} -> {"_conn", "_upld_attachments"}
    [] f.fn \in Sending \cup {"is_connected"} /\ f.at = "start" -> {"_conn"}
    [] f.fn = "on_method_call" /\ f.at = "start" -> {"_methods"}
    [] OTHER -> {}

\* What a function uses without the lock, or, when it publishes, under a lock
\* that others share.
Unprotected(f) ==
  CASE f.fn = "answer" -> {"_conn", "stream", "_upld_attachments"}
    [] f.fn \in {"set_var", "upload"} /\ f.lock = "no" ->
         {"_conn", "stream", "_upld_attachments"}
    [] f.fn = "is_connected" -> {"_conn"}
    [] f.fn = "on_method_call" -> {"_methods"}
    [] f.fn = "on_disconnect" -> {"_discnt_cb"}
    [] f.fn = "download" -> {"_dwnl_attachments"}
    [] f.fn = "disconnect" /\ f.at = "loop" -> {"_dwnl_attachments"}
    [] f.fn = "publish" -> {"stream", "_upld_attachments"}
    [] OTHER -> {}

Race(f, g, m) == m \in Writes(f) /\ m \in Writes(g) \cup Reads(g)

\* Two threads never touch a member at once, one of them writing, but for
\* members some function uses without the lock: _conn is reset while an
\* answer, a variable or an upload is sent or is_connected asks, _methods is
\* replaced while a call looks for its method, the disconnect event set while
\* it is taken, the attachments expected failed while one arrives; and
\* messages are sent, and attachments queued, at once by these and, under
\* their shared locks, by publishing functions.  The maps are never raced for.
OnlyTheUnlockedRace ==
  \A t, u \in Threads :
    t # u /\ stack[t] # <<>> /\ stack[u] # <<>> =>
      \A m \in Members :
        Race(Top(t), Top(u), m)
          => m \in Unprotected(Top(t)) \cup Unprotected(Top(u))

\* A thread asks for the lock it already has in five situations only: a call
\* on a disconnected peer, or a topic's update, runs a callback that calls the
\* Peer or drops the last reference to it, and so does the destructor of what
\* is erased or replaced under the lock; a publishing function with "close" at
\* the high water mark, or a node error, disconnects.  All other callbacks may
\* call anything.
RelocksAreKnown ==
  \A t \in Threads :
    stack[t] # <<>> /\ Top(t).at \in {"enter", "stuck"} =>
      \A i \in DOMAIN stack[t] :
        stack[t][i].lock # "no" =>
          \/ /\ stack[t][i].fn \in {"call", "on_topic_update"} \cup Erasing
             /\ stack[t][i + 1].fn = "callback"
          \/ /\ stack[t][i].fn \in {"publish", "send_node_error"}
             /\ stack[t][i + 1].fn = "disconnect"

\* A disconnect event and the UnsubscribeRequest of a topic run once at
\* most, though U, disconnect() and ~Peer may all come for them at once.
NotifiedOnce == \A k \in Kinds : told[k] <= given[k]

\* When ~Peer runs in one thread, and after it, no thread of the application
\* is in the Peer: what it calls holds a reference, be it by a weak pointer.
\* The listener has none and may be anywhere in it.
ApplicationHasLeft ==
  Destroying \/ peer = "destroyed" =>
    \A t \in Apps :
      stack[t] # <<>> => stack[t][1].fn = "destroy" /\ peer = "alive"

\* A thread waits for itself, for the other side to read, or for nothing.
Halted(t) == stack[t] # <<>> /\ Top(t).at \in {"stuck", "flush", "spin"}

\* A disconnected peer nobody refers to is destroyed: keep_until_disconnected
\* gives its reference back, unless it was called after the disconnect.
KeptPeerIsReleased ==
  conn = "reset" /\ ~owned
    ~> \/ peer = "destroyed"
       \/ event = "keep" /\ late
       \/ \E t \in Threads : Halted(t)
=============================================================================
