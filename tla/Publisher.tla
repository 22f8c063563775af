----------------------------- MODULE Publisher -----------------------------
(***************************************************************************)
(* The Publisher (publisher.h, publisher.cpp): a list of subscribers that  *)
(* callbacks change while it is being walked.  publish() keeps the         *)
(* recursive mutex for the whole cycle, so during a cycle only the running *)
(* callback can call in again; reset() works in part without the mutex.    *)
(*                                                                         *)
(* _subs is a vector that only push_back extends, with ++idcnt under the   *)
(* mutex, so it is always in the order of the ids: the set of ids says as  *)
(* much.  _unsubs is kept as a sequence, because its order is what         *)
(* do_unsubscribe depends on.                                              *)
(*                                                                         *)
(* A callback that subscribes, publishes or resets on the Publisher that   *)
(* is calling it changes the vector under the loop; that use is outside    *)
(* what publisher.h:68-79 provides for and is not modelled.                *)
(***************************************************************************)
EXTENDS Integers, Sequences

CONSTANTS
  MaxSubs,   \* bound: how many subscribers are ever registered
  MaxMarks,  \* bound: length of _unsubs
  MaxResets  \* bound: how many threads are inside reset() at once

ASSUME BoundsAssumption ==
  MaxSubs \in Nat /\ MaxMarks \in Nat /\ MaxResets \in Nat

Subscribers == 1 .. MaxSubs

VARIABLES
  subs,     \* ids in _subs
  unsubs,   \* _unsubs
  idcnt,    \* idcnt
  inp,      \* _inp: a publish cycle is running (and its thread has _mx)
  current,  \* the subscriber whose callback runs; 0 when none is left
  resets,   \* threads between reset()'s unlock and its return
  gone,     \* history: ids unsubscribed, or whose callback asked for it
  taken,    \* history: ids removed by reset()
  excused   \* history: a cycle was disturbed (see MarkedAreRemoved)

vars == <<subs, unsubs, idcnt, inp, current, resets, gone, taken, excused>>

TypeOK ==
  /\ subs \in SUBSET Subscribers
  /\ unsubs \in Seq(Subscribers)
  /\ idcnt \in 0 .. MaxSubs
  /\ inp \in BOOLEAN
  /\ current \in 0 .. MaxSubs
  /\ resets \in Nat
  /\ gone \in SUBSET Subscribers
  /\ taken \in SUBSET Subscribers
  /\ excused \in BOOLEAN

Init ==
  /\ subs = {}
  /\ unsubs = <<>>
  /\ idcnt = 0
  /\ inp = FALSE
  /\ current = 0
  /\ resets = 0
  /\ gone = {}
  /\ taken = {}
  /\ excused = FALSE

-----------------------------------------------------------------------------
\* do_unsubscribe walks _subs and _unsubs side by side, once.  The subscriber
\* s is erased when the walk through _unsubs, which stops at the first entry
\* that is not below s, stops at s.
Unmarked(S, u) ==
  {s \in S : ~ \E k \in 1 .. Len(u) :
                 u[k] = s /\ \A j \in 1 .. k - 1 : u[j] < s}

\* Where std::lower_bound may put id: after a smaller entry, before one that
\* is not smaller.  In an ordered _unsubs that is one place.
InsertPoints(u, id) ==
  {k \in 0 .. Len(u) : /\ k > 0 => u[k] < id
                       /\ k < Len(u) => u[k + 1] >= id}

Insert(u, k, id) == SubSeq(u, 1, k) \o <<id>> \o SubSeq(u, k + 1, Len(u))

\* The next subscriber of the range-for after s, 0 at the end.
After(S, s) ==
  IF \E t \in S : t > s
  THEN CHOOSE t \in S : t > s /\ \A r \in S : r > s => t <= r
  ELSE 0

-----------------------------------------------------------------------------
\* Faulty: the id is taken before the counter is advanced.
SubscribeWithOldId ==
  /\ ~inp
  /\ idcnt < MaxSubs
  /\ idcnt' = idcnt + 1
  /\ subs' = subs \cup {idcnt}
  /\ UNCHANGED <<unsubs, inp, current, resets, gone, taken, excused>>

Subscribe ==
  /\ ~inp
  /\ idcnt < MaxSubs
  /\ idcnt' = idcnt + 1
  /\ subs' = subs \cup {idcnt + 1}
  /\ UNCHANGED <<unsubs, inp, current, resets, gone, taken, excused>>

\* unsubscribe() while no cycle runs marks and removes in one go.
Unsubscribe(id) ==
  /\ ~inp
  /\ id <= idcnt
  /\ \E k \in InsertPoints(unsubs, id) :
       subs' = Unmarked(subs, Insert(unsubs, k, id))
  /\ unsubs' = <<>>
  /\ gone' = gone \cup {id}
  /\ UNCHANGED <<idcnt, inp, current, resets, taken, excused>>

Publish ==
  /\ ~inp
  /\ inp' = TRUE
  /\ current' = After(subs, 0)
  /\ UNCHANGED <<subs, unsubs, idcnt, resets, gone, taken, excused>>

\* Faulty: _inp is not looked at, the vector changes under the loop.
CallbackUnsubscribeNow(id) ==
  /\ inp
  /\ current # 0
  /\ id <= idcnt
  /\ subs' = subs \ {id}
  /\ gone' = gone \cup {id}
  /\ UNCHANGED <<unsubs, idcnt, inp, current, resets, taken, excused>>

\* The running callback unsubscribes itself or somebody else: only marked.
CallbackUnsubscribe(id) ==
  /\ inp
  /\ current # 0
  /\ id <= idcnt
  /\ Len(unsubs) < MaxMarks
  /\ \E k \in InsertPoints(unsubs, id) : unsubs' = Insert(unsubs, k, id)
  /\ gone' = gone \cup {id}
  /\ excused' = (excused \/ id > current)
  /\ UNCHANGED <<subs, idcnt, inp, current, resets, taken>>

\* Faulty: the callback's return value is read the wrong way round.
CallbackReturnsTrueMarked ==
  /\ inp
  /\ current # 0
  /\ Len(unsubs) < MaxMarks
  /\ unsubs' = Append(unsubs, current)
  /\ current' = After(subs, current)
  /\ UNCHANGED <<subs, idcnt, inp, resets, gone, taken, excused>>

CallbackReturnsTrue ==
  /\ inp
  /\ current # 0
  /\ current' = After(subs, current)
  /\ UNCHANGED <<subs, unsubs, idcnt, inp, resets, gone, taken, excused>>

\* Faulty: an exception of the callback ends the loop body without the mark.
CallbackAsksSwallowed ==
  /\ inp
  /\ current # 0
  /\ gone' = gone \cup {current}
  /\ current' = After(subs, current)
  /\ UNCHANGED <<subs, unsubs, idcnt, inp, resets, taken, excused>>

\* The callback returns false or throws.
CallbackAsksRemoval ==
  /\ inp
  /\ current # 0
  /\ Len(unsubs) < MaxMarks
  /\ unsubs' = Append(unsubs, current)
  /\ gone' = gone \cup {current}
  /\ current' = After(subs, current)
  /\ UNCHANGED <<subs, idcnt, inp, resets, taken, excused>>

EndPublish ==
  /\ inp
  /\ current = 0
  /\ subs' = Unmarked(subs, unsubs)
  /\ unsubs' = <<>>
  /\ inp' = FALSE
  /\ UNCHANGED <<idcnt, current, resets, gone, taken, excused>>

\* reset(), and ~Publisher: _subs is moved out under the mutex ...
Reset ==
  /\ ~inp
  /\ resets < MaxResets
  /\ resets' = resets + 1
  /\ taken' = taken \cup subs
  /\ subs' = {}
  /\ UNCHANGED <<unsubs, idcnt, inp, current, gone, excused>>

\* ... the callbacks get the empty payload without it, and _unsubs is cleared
\* without it: other threads may have begun a cycle by then.
ResetClear ==
  /\ resets > 0
  /\ resets' = resets - 1
  /\ unsubs' = <<>>
  /\ excused' = (excused \/ unsubs # <<>>)
  /\ UNCHANGED <<subs, idcnt, inp, current, gone, taken>>

Next ==
  \/ Subscribe
  \/ \E id \in Subscribers : Unsubscribe(id)
  \/ Publish
  \/ \E id \in Subscribers : CallbackUnsubscribe(id)
  \/ CallbackReturnsTrue
  \/ CallbackAsksRemoval
  \/ EndPublish
  \/ Reset
  \/ ResetClear

Spec == Init /\ [][Next]_vars

-----------------------------------------------------------------------------
(* What the Publisher guarantees.                                          *)

\* Once no cycle runs, nobody who was unsubscribed or asked for removal is
\* still subscribed (publisher.h:72-74) - provided no callback has marked a
\* subscriber whose turn was still to come, and no reset() has cleared the
\* marks of another thread's cycle.
MarkedAreRemoved == ~inp /\ ~excused => gone \cap subs = {}

\* The documentation's word, without the provisos: "all marked subscribers
\* are removed", "it is also possible to unsubscribe other subscribers"
\* (publisher.h:72-76), because "_unsubs is ordered by id" (publisher.cpp:74).
AllMarkedAreRemoved == ~inp /\ resets = 0 => gone \cap subs = {}

\* Whatever order _unsubs is in, do_unsubscribe takes away nobody else's
\* subscription: an id leaves only because it asked, was unsubscribed, or
\* reset() took it.
NobodyElseRemoved == \A s \in 1 .. idcnt : s \in subs \cup gone \cup taken

\* The vector publish() walks does not change until the walk is over, though
\* callbacks unsubscribe themselves and each other on the way.
CycleIsStable == [][inp => (inp' => subs' = subs)]_vars
=============================================================================
