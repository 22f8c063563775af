-------------------------------- MODULE Rpc --------------------------------
(***************************************************************************)
(* Requests and their answers between two C++ peers (peer.cpp, peer.h,     *)
(* request.cpp, request.h): Peer::call, Peer::discover and                 *)
(* Peer::call_callback, the registries _call_map and _cb_map, the listener *)
(* that parses one message at a time, the life of a Request object inside  *)
(* and after its handler, and what a disconnect or ~Peer leaves behind.    *)
(*                                                                         *)
(* Every action is a stretch of code no other thread can divide: what is   *)
(* done under Peer::_lock, or the step between an unlock and the next lock.*)
(* What a handler or an owner of a kept Request does is any legal use of   *)
(* the public interface, in any order.                                     *)
(*                                                                         *)
(* `call' names the call a message, a Request or a map entry stands for.   *)
(* It is history: the wire carries only `id', and no guard reads it.       *)
(***************************************************************************)
EXTENDS Integers, Sequences

CONSTANTS
  Client, Server,  \* the two ends; the protocol does not tell them apart
  Calls,    \* the calls the two applications may issue, each at most once
  NoCall,   \* the absence of an entry in _call_map
  IdSpace,  \* how many values the counter _call_id has: 2^32 in the code
  MaxIds,   \* bound: MaxIds[p], how many ids p hands out
  MayFail   \* bound: whether the carrier may break and peers be destroyed

ASSUME PeersAssumption == Client # Server
ASSUME NoCallAssumption == NoCall \notin Calls
ASSUME IdSpaceAssumption == IdSpace \in Nat \ {0}
ASSUME MayFailAssumption == MayFail \in BOOLEAN

Peers == {Client, Server}

ASSUME MaxIdsAssumption == MaxIds \in [Peers -> Nat]

Other(p) == IF p = Client THEN Server ELSE Client
Ids == 0 .. IdSpace - 1

Ops == {"method_call", "discover", "callback"}
AnswerTypes == {"result", "exception", "execute_error"}

\* Faulty: every value of Response::Type can be sent.
AnyResponseType(op) == AnswerTypes \cup {"disconnected"}

\* What a handler can answer with: a DiscoverRequest has no execute error.
HandlerAnswers(op) ==
  IF op = "discover" THEN {"result", "exception"} ELSE AnswerTypes

VARIABLES
  peer,      \* peer[p]: "open" (_conn is set), "closed" (reset), "destroyed"
  link,      \* the carrier below the two connections: "up" or "broken"
  inbox,     \* inbox[p]: the messages on their way to p, oldest first
  call_id,   \* call_id[p]: how many ids p took from _call_id
  call_map,  \* call_map[p][id]: the call whose callback _call_map holds
  cb_map,    \* cb_map[p]: the names registered in _cb_map
  listener,  \* listener[p]: what p's listener thread is doing
  requests,  \* requests[p]: Request objects moved out of their handlers
  outcome,   \* outcome[c]: what the issuer of c knows about it
  answers,   \* history: the answers to c put on the wire, oldest first
  threw,     \* history: the calls whose handler threw
  retired    \* history: retired[p], callback names used up or unregistered

vars == <<peer, link, inbox, call_id, call_map, cb_map, listener, requests,
          outcome, answers, threw, retired>>

RequestMsgs == [kind: {"request"}, id: Ids, call: Calls, op: Ops, name: Ids]
AnswerMsgs == [kind: {"answer"}, id: Ids, call: Calls, type: AnswerTypes]
Requests == [id: Ids, call: Calls, op: Ops]

Idle == [at |-> "idle"]
Handling(r, sent) == [at |-> "handler", req |-> r, sent |-> sent]
Listening ==
  {Idle}
    \cup [at: {"handler"}, req: Requests, sent: BOOLEAN]
    \cup [at: {"catch"}, req: Requests]
    \cup [at: {"deliver"}, call: Calls, type: AnswerTypes, for: Calls]

Final == AnswerTypes \cup {"disconnected", "dropped"}
Outcomes == {"idle", "pending"} \cup Final

TypeOK ==
  /\ peer \in [Peers -> {"open", "closed", "destroyed"}]
  /\ link \in {"up", "broken"}
  /\ inbox \in [Peers -> Seq(RequestMsgs \cup AnswerMsgs)]
  /\ call_id \in [Peers -> Nat]
  /\ call_map \in [Peers -> [Ids -> Calls \cup {NoCall}]]
  /\ cb_map \in [Peers -> SUBSET Ids]
  /\ listener \in [Peers -> Listening]
  /\ requests \in [Peers -> SUBSET Requests]
  /\ outcome \in [Calls -> Outcomes]
  /\ answers \in [Calls -> Seq(AnswerTypes)]
  /\ threw \in SUBSET Calls
  /\ retired \in [Peers -> SUBSET Ids]

\* Both peers have exchanged hello and welcome; nothing is under way.
Init ==
  /\ peer = [p \in Peers |-> "open"]
  /\ link = "up"
  /\ inbox = [p \in Peers |-> <<>>]
  /\ call_id = [p \in Peers |-> 0]
  /\ call_map = [p \in Peers |-> [i \in Ids |-> NoCall]]
  /\ cb_map = [p \in Peers |-> {}]
  /\ listener = [p \in Peers |-> Idle]
  /\ requests = [p \in Peers |-> {}]
  /\ outcome = [c \in Calls |-> "idle"]
  /\ answers = [c \in Calls |-> <<>>]
  /\ threw = {}
  /\ retired = [p \in Peers |-> {}]

-----------------------------------------------------------------------------
(* The wire.                                                               *)

\* Peer::send_message drops the message when _conn is reset; a connection
\* whose carrier or far end is gone drops it as well.
Delivers(p) == peer[p] = "open" /\ peer[Other(p)] = "open" /\ link = "up"

Push(q, p, m) ==
  IF Delivers(p) THEN [q EXCEPT ![Other(p)] = Append(@, m)] ELSE q

Pop(q, p) == [q EXCEPT ![p] = Tail(@)]

\* p's listener is free, and its next message is of this kind.
Receives(p, kind) ==
  /\ peer[p] = "open"
  /\ listener[p] = Idle
  /\ inbox[p] # <<>>
  /\ Head(inbox[p]).kind = kind

\* An answer goes out on the queues q; whether anybody gets it or not, the
\* sender is done with the request.
SendAnswer(q, p, r, type) ==
  /\ inbox' = Push(q, p, [kind |-> "answer", id |-> r.id, call |-> r.call,
                          type |-> type])
  /\ answers' = IF Delivers(p)
                THEN [answers EXCEPT ![r.call] = Append(@, type)]
                ELSE answers

-----------------------------------------------------------------------------
(* Issuing a call.                                                         *)

\* Faulty: the id is read, but _call_id is not advanced.
IssueWithoutIncrement(p, c, op, name) ==
  LET id == call_id[p] % IdSpace
  IN  /\ outcome[c] = "idle"
      /\ peer[p] = "open"
      /\ call_map' = [call_map EXCEPT ![p][id] = c]
      /\ outcome' = [d \in Calls |->
                       IF d = c THEN "pending"
                       ELSE IF d = call_map[p][id] THEN "dropped"
                       ELSE outcome[d]]
      /\ inbox' = Push(inbox, p, [kind |-> "request", id |-> id, call |-> c,
                                  op |-> op, name |-> name])
      /\ UNCHANGED <<peer, link, call_id, cb_map, listener, requests, answers,
                     threw, retired>>

\* Faulty: emplace instead of assignment, an occupied id keeps its callback.
IssueWithEmplace(p, c, op, name) ==
  LET id == call_id[p] % IdSpace
  IN  /\ outcome[c] = "idle"
      /\ peer[p] = "open"
      /\ call_id[p] < MaxIds[p]
      /\ call_id' = [call_id EXCEPT ![p] = @ + 1]
      /\ call_map' = [call_map EXCEPT ![p][id] = IF @ = NoCall THEN c ELSE @]
      /\ outcome' = [outcome EXCEPT ![c] = "pending"]
      /\ inbox' = Push(inbox, p, [kind |-> "request", id |-> id, call |-> c,
                                  op |-> op, name |-> name])
      /\ UNCHANGED <<peer, link, cb_map, listener, requests, answers, threw,
                     retired>>

\* The common body of call, discover and call_callback on a connected peer:
\* take an id, store the callback under it - whatever the map held there is
\* destroyed without being called - and send the request, all under _lock.
Issue(p, c, op, name) ==
  LET id == call_id[p] % IdSpace
  IN  /\ outcome[c] = "idle"
      /\ peer[p] = "open"
      /\ call_id[p] < MaxIds[p]
      /\ call_id' = [call_id EXCEPT ![p] = @ + 1]
      /\ call_map' = [call_map EXCEPT ![p][id] = c]
      /\ outcome' = [d \in Calls |->
                       IF d = c THEN "pending"
                       ELSE IF d = call_map[p][id] THEN "dropped"
                       ELSE outcome[d]]
      /\ inbox' = Push(inbox, p, [kind |-> "request", id |-> id, call |-> c,
                                  op |-> op, name |-> name])
      /\ UNCHANGED <<peer, link, cb_map, listener, requests, answers, threw,
                     retired>>

Call(p, c) == Issue(p, c, "method_call", 0)
Discover(p, c) == Issue(p, c, "discover", 0)

\* The name came from the other side in an application message, or was
\* invented: nothing checks it before the call is sent.
CallCallback(p, c, name) == Issue(p, c, "callback", name)

\* On a disconnected peer the callback runs at once.
CallDisconnected(p, c) ==
  /\ outcome[c] = "idle"
  /\ peer[p] = "closed"
  /\ outcome' = [outcome EXCEPT ![c] = "disconnected"]
  /\ UNCHANGED <<peer, link, inbox, call_id, call_map, cb_map, listener,
                 requests, answers, threw, retired>>

RegCallback(p) ==
  /\ peer[p] # "destroyed"
  /\ call_id[p] < MaxIds[p]
  /\ call_id' = [call_id EXCEPT ![p] = @ + 1]
  /\ cb_map' = [cb_map EXCEPT ![p] = @ \cup {call_id[p] % IdSpace}]
  /\ UNCHANGED <<peer, link, inbox, call_map, listener, requests, outcome,
                 answers, threw, retired>>

UnregCallback(p, name) ==
  /\ peer[p] # "destroyed"
  /\ name \in cb_map[p]
  /\ cb_map' = [cb_map EXCEPT ![p] = @ \ {name}]
  /\ retired' = [retired EXCEPT ![p] = @ \cup {name}]
  /\ UNCHANGED <<peer, link, inbox, call_id, call_map, listener, requests,
                 outcome, answers, threw>>

-----------------------------------------------------------------------------
(* Parsing a request.                                                      *)

RequestOf(m) == [id |-> m.id, call |-> m.call, op |-> m.op]

StartHandler(p, m) ==
  /\ listener' = [listener EXCEPT ![p] = Handling(RequestOf(m), FALSE)]
  /\ inbox' = Pop(inbox, p)
  /\ UNCHANGED answers

AnswerAtOnce(p, m, type) ==
  /\ SendAnswer(Pop(inbox, p), p, RequestOf(m), type)
  /\ UNCHANGED listener

\* Which names the method list has may change at any time (set_methods), so
\* a call finds its method or route, or does not.
OnMethodCall(p) ==
  LET m == Head(inbox[p]) IN
    /\ Receives(p, "request")
    /\ m.op = "method_call"
    /\ \/ StartHandler(p, m)
       \/ AnswerAtOnce(p, m, "execute_error")
    /\ UNCHANGED <<peer, link, call_id, call_map, cb_map, requests, outcome,
                   threw, retired>>

\* A listing or a documentation is answered on the spot, a route's handler
\* gets a DiscoverRequest, and an unknown name is an exception.
OnDiscover(p) ==
  LET m == Head(inbox[p]) IN
    /\ Receives(p, "request")
    /\ m.op = "discover"
    /\ \/ StartHandler(p, m)
       \/ AnswerAtOnce(p, m, "result")
       \/ AnswerAtOnce(p, m, "exception")
    /\ UNCHANGED <<peer, link, call_id, call_map, cb_map, requests, outcome,
                   threw, retired>>

\* Faulty: the callback runs but its entry is not erased.
OnCallbackWithoutErase(p) ==
  LET m == Head(inbox[p]) IN
    /\ Receives(p, "request")
    /\ m.op = "callback"
    /\ IF m.name \in cb_map[p]
       THEN /\ StartHandler(p, m)
            /\ retired' = [retired EXCEPT ![p] = @ \cup {m.name}]
       ELSE /\ AnswerAtOnce(p, m, "execute_error")
            /\ UNCHANGED retired
    /\ UNCHANGED <<peer, link, call_id, call_map, cb_map, requests, outcome,
                   threw>>

\* The entry leaves _cb_map under the lock, then the callback runs.
OnCallback(p) ==
  LET m == Head(inbox[p]) IN
    /\ Receives(p, "request")
    /\ m.op = "callback"
    /\ IF m.name \in cb_map[p]
       THEN /\ StartHandler(p, m)
            /\ cb_map' = [cb_map EXCEPT ![p] = @ \ {m.name}]
            /\ retired' = [retired EXCEPT ![p] = @ \cup {m.name}]
       ELSE /\ AnswerAtOnce(p, m, "execute_error")
            /\ UNCHANGED <<cb_map, retired>>
    /\ UNCHANGED <<peer, link, call_id, call_map, requests, outcome, threw>>

-----------------------------------------------------------------------------
(* The Request object.                                                     *)

\* send_result, send_exception or send_execute_error inside the handler.
HandlerAnswer(p) ==
  /\ listener[p].at = "handler"
  /\ ~listener[p].sent
  /\ \E type \in HandlerAnswers(listener[p].req.op) :
       SendAnswer(inbox, p, listener[p].req, type)
  /\ listener' = [listener EXCEPT ![p] = Handling(listener[p].req, TRUE)]
  /\ UNCHANGED <<peer, link, call_id, call_map, cb_map, requests, outcome,
                 threw, retired>>

\* Faulty: the move constructor leaves the other object unanswered.
HandlerKeepACopy(p) ==
  /\ listener[p].at = "handler"
  /\ ~listener[p].sent
  /\ requests' = [requests EXCEPT ![p] = @ \cup {listener[p].req}]
  /\ UNCHANGED <<peer, link, inbox, call_id, call_map, cb_map, listener,
                 outcome, answers, threw, retired>>

\* The handler moves the Request away to answer later; the object it was
\* moved from counts as answered.
HandlerKeep(p) ==
  /\ listener[p].at = "handler"
  /\ ~listener[p].sent
  /\ requests' = [requests EXCEPT ![p] = @ \cup {listener[p].req}]
  /\ listener' = [listener EXCEPT ![p] = Handling(listener[p].req, TRUE)]
  /\ UNCHANGED <<peer, link, inbox, call_id, call_map, cb_map, outcome,
                 answers, threw, retired>>

\* Faulty: the destructor sends nothing.
DestroySilently(p) == UNCHANGED <<inbox, answers>>

\* ~Request and ~DiscoverRequest: an unanswered request gets an empty result.
DestroyRequest(p) ==
  IF listener[p].sent
  THEN UNCHANGED <<inbox, answers>>
  ELSE SendAnswer(inbox, p, listener[p].req, "result")

HandlerReturn(p) ==
  /\ listener[p].at = "handler"
  /\ DestroyRequest(p)
  /\ listener' = [listener EXCEPT ![p] = Idle]
  /\ UNCHANGED <<peer, link, call_id, call_map, cb_map, requests, outcome,
                 threw, retired>>

\* Unwinding destroys the Request before parse_text_message's catch runs.
HandlerThrow(p) ==
  /\ listener[p].at = "handler"
  /\ DestroyRequest(p)
  /\ listener' = [listener EXCEPT
                    ![p] = [at |-> "catch", req |-> listener[p].req]]
  /\ threw' = threw \cup {listener[p].req.call}
  /\ UNCHANGED <<peer, link, call_id, call_map, cb_map, requests, outcome,
                 retired>>

CatchException(p) ==
  /\ listener[p].at = "catch"
  /\ SendAnswer(inbox, p, listener[p].req, "exception")
  /\ listener' = [listener EXCEPT ![p] = Idle]
  /\ UNCHANGED <<peer, link, call_id, call_map, cb_map, requests, outcome,
                 threw, retired>>

\* The owner of a kept Request answers it, or destroys it, which sends the
\* empty result; nothing goes out once the Peer is gone (the weak _peer).
FinishRequest(p) ==
  /\ \E r \in requests[p] :
       /\ \E type \in HandlerAnswers(r.op) : SendAnswer(inbox, p, r, type)
       /\ requests' = [requests EXCEPT ![p] = @ \ {r}]
  /\ UNCHANGED <<peer, link, call_id, call_map, cb_map, listener, outcome,
                 threw, retired>>

-----------------------------------------------------------------------------
(* Parsing an answer: finish_call.                                         *)

\* Faulty: the callback is invoked but its entry stays.
FinishCallWithoutErase(p) ==
  LET m == Head(inbox[p]) IN
    /\ Receives(p, "answer")
    /\ inbox' = Pop(inbox, p)
    /\ listener' = IF call_map[p][m.id] = NoCall THEN listener
                   ELSE [listener EXCEPT
                           ![p] = [at |-> "deliver", type |-> m.type,
                                   call |-> call_map[p][m.id],
                                   for |-> m.call]]
    /\ UNCHANGED <<peer, link, call_id, call_map, cb_map, requests, outcome,
                   answers, threw, retired>>

\* Under the lock the callback leaves _call_map; an unknown id is ignored.
FinishCall(p) ==
  LET m == Head(inbox[p]) IN
    /\ Receives(p, "answer")
    /\ inbox' = Pop(inbox, p)
    /\ IF call_map[p][m.id] # NoCall
       THEN /\ call_map' = [call_map EXCEPT ![p][m.id] = NoCall]
            /\ listener' = [listener EXCEPT
                              ![p] = [at |-> "deliver", type |-> m.type,
                                      call |-> call_map[p][m.id],
                                      for |-> m.call]]
       ELSE UNCHANGED <<call_map, listener>>
    /\ UNCHANGED <<peer, link, call_id, cb_map, requests, outcome, answers,
                   threw, retired>>

\* After the unlock the callback runs with the response.
Deliver(p) ==
  /\ listener[p].at = "deliver"
  /\ outcome' = [outcome EXCEPT ![listener[p].call] = listener[p].type]
  /\ listener' = [listener EXCEPT ![p] = Idle]
  /\ UNCHANGED <<peer, link, inbox, call_id, call_map, cb_map, requests,
                 answers, threw, retired>>

-----------------------------------------------------------------------------
(* Losing the connection.                                                  *)

\* The carrier fails and takes the youngest messages with it.
LinkBreak ==
  /\ MayFail
  /\ link = "up"
  /\ link' = "broken"
  /\ \E n \in 0 .. Len(inbox[Client]), m \in 0 .. Len(inbox[Server]) :
       inbox' = [inbox EXCEPT ![Client] = SubSeq(@, 1, n),
                              ![Server] = SubSeq(@, 1, m)]
  /\ UNCHANGED <<peer, call_id, call_map, cb_map, listener, requests, outcome,
                 answers, threw, retired>>

\* Listener::on_close, after the last message: disconnect().  The local clmp,
\* whose callbacks it would complete as disconnected, is never filled, so the
\* pending calls stay where they are.
OnClose(p) ==
  /\ peer[p] = "open"
  /\ listener[p] = Idle
  /\ inbox[p] = <<>>
  /\ link = "broken" \/ peer[Other(p)] # "open"
  /\ peer' = [peer EXCEPT ![p] = "closed"]
  /\ UNCHANGED <<link, inbox, call_id, call_map, cb_map, listener, requests,
                 outcome, answers, threw, retired>>

\* ~Peer: disconnect(), then the maps and the callbacks they hold go. Its
\* last reference is not dropped while its own listener runs a handler.
Destroy(p) ==
  /\ MayFail
  /\ peer[p] # "destroyed"
  /\ listener[p] = Idle
  /\ peer' = [peer EXCEPT ![p] = "destroyed"]
  /\ inbox' = [inbox EXCEPT ![p] = <<>>]
  /\ call_map' = [call_map EXCEPT ![p] = [i \in Ids |-> NoCall]]
  /\ cb_map' = [cb_map EXCEPT ![p] = {}]
  /\ outcome' = [c \in Calls |->
                   IF \E i \in Ids : call_map[p][i] = c
                   THEN "dropped" ELSE outcome[c]]
  /\ UNCHANGED <<link, call_id, listener, requests, answers, threw, retired>>

-----------------------------------------------------------------------------
Application(p) ==
  \/ \E c \in Calls : Call(p, c) \/ Discover(p, c) \/ CallDisconnected(p, c)
  \/ \E c \in Calls, name \in Ids : CallCallback(p, c, name)
  \/ RegCallback(p)
  \/ \E name \in Ids : UnregCallback(p, name)
  \/ Destroy(p)

Receive(p) ==
  OnMethodCall(p) \/ OnDiscover(p) \/ OnCallback(p) \/ FinishCall(p)

Handle(p) ==
  HandlerAnswer(p) \/ HandlerKeep(p) \/ HandlerReturn(p) \/ HandlerThrow(p)

Next ==
  \/ LinkBreak
  \/ \E p \in Peers :
       \/ Application(p)
       \/ Receive(p)
       \/ Handle(p)
       \/ CatchException(p)
       \/ FinishRequest(p)
       \/ Deliver(p)
       \/ OnClose(p)

Spec == Init /\ [][Next]_vars

\* The connection's thread keeps reading and runs what it started; handlers
\* return; a kept Request is answered or destroyed in the end.
Fairness ==
  \A p \in Peers :
    /\ WF_vars(Receive(p))
    /\ WF_vars(HandlerReturn(p))
    /\ WF_vars(CatchException(p))
    /\ WF_vars(FinishRequest(p))
    /\ WF_vars(Deliver(p))
    /\ WF_vars(OnClose(p))

FairSpec == Spec /\ Fairness

-----------------------------------------------------------------------------
(* What the protocol guarantees.                                           *)

\* No peer hands an id out a second time.
NeverWraps == \A p \in Peers : MaxIds[p] <= IdSpace

Delivering(p, c) == listener[p].at = "deliver" /\ listener[p].call = c

\* The callback of a call is in exactly one place as long as the call is
\* pending - an entry of one peer's _call_map, or the hands of the listener
\* between finish_call's unlock and the invocation - and nowhere before or
\* after.  It cannot run twice, and no entry outlives its call.
CallbackHeldOnce ==
  /\ \A c \in Calls :
       outcome[c] = "pending" <=>
         \/ \E p \in Peers, i \in Ids : call_map[p][i] = c
         \/ \E p \in Peers : Delivering(p, c)
  /\ \A p, q \in Peers, i, j \in Ids :
       call_map[p][i] # NoCall /\ call_map[p][i] = call_map[q][j]
         => p = q /\ i = j
  /\ \A p, q \in Peers, c \in Calls :
       Delivering(p, c) =>
         /\ \A i \in Ids : call_map[q][i] # c
         /\ Delivering(q, c) => p = q

\* An answer reaches the call it was made for: the response callback found
\* under an id belongs to the request that carried the id.  (Holds as long as
\* _call_id does not wrap round: NeverWraps.)
AnswersMatchCalls ==
  \A p \in Peers :
    listener[p].at = "deliver" => listener[p].call = listener[p].for

\* Whatever a handler does with its Request - answers, keeps, moves, forgets
\* it - the call is answered at most once, unless the handler threw: then the
\* catch in parse_text_message adds one answer.
OneAnswerUnlessThrown ==
  \A c \in Calls : Len(answers[c]) <= IF c \in threw THEN 2 ELSE 1

\* The documentation's word (doc/umq_cs.md:108): of R, E and ! the other side
\* sends only one.  The code breaks it when a handler throws.
OneAnswerPerCall == \A c \in Calls : Len(answers[c]) <= 1

InQueue(q, kind, i) ==
  \E n \in 1 .. Len(q) : q[n].kind = kind /\ q[n].id = i

\* Something that will become, or already is, an answer for p's id i.
AnswerComing(p, i) ==
  LET q == Other(p)
  IN  \/ InQueue(inbox[q], "request", i)
      \/ listener[q].at = "handler" /\ ~listener[q].sent
           /\ listener[q].req.id = i
      \/ listener[q].at = "catch" /\ listener[q].req.id = i
      \/ \E r \in requests[q] : r.id = i
      \/ InQueue(inbox[p], "answer", i)

\* As long as the connection stands no call is forgotten: for every entry of
\* _call_map there is a request under way, a Request somebody holds, or an
\* answer under way, whichever path the handler took.
NoCallForgotten ==
  link = "up" /\ (\A p \in Peers : peer[p] = "open") =>
    \A p \in Peers, i \in Ids : call_map[p][i] # NoCall => AnswerComing(p, i)

\* A callback name that was called or unregistered stays invalid (peer.h:284,
\* "identifier is reserved forever"), though calls and callbacks draw their
\* ids from one counter.  (Again if NeverWraps.)
NamesStayRetired == \A p \in Peers : retired[p] \cap cb_map[p] = {}

\* The outcome of a call is settled once: a late, second or stray answer, a
\* disconnect and the end of the Peer never change it.  This needs no bound
\* on the ids.
OutcomeIsFinal ==
  [][\A c \in Calls : outcome[c] \in Final => outcome'[c] = outcome[c]]_vars

\* The documentation's word (request.h:132, peer.cpp:339-341): a call that is
\* pending when its peer is disconnected completes as disconnected.
DisconnectCompletesCalls ==
  \A p \in Peers, i \in Ids :
    peer[p] = "closed" => call_map[p][i] = NoCall

\* What both applications rely on, without peers, ids or messages.
Promise == INSTANCE RpcPromise
             WITH verdict <- [c \in Calls |-> IF answers[c] = <<>> THEN "none"
                                              ELSE Head(answers[c])]
PromiseSpec == Promise!Spec

\* While both peers live, the carrier holds and no id was handed out a second
\* time, every call completes with an answer: its callback is told one, and is
\* neither kept for ever nor destroyed unheard.
CallsComplete ==
  \A c \in Calls :
    outcome[c] = "pending" ~>
      \/ outcome[c] \in AnswerTypes
      \/ link = "broken"
      \/ \E p \in Peers : peer[p] # "open" \/ call_id[p] > IdSpace
=============================================================================
