--------------------------- MODULE PeerLockProofs ---------------------------
(***************************************************************************)
(* Proofs about PeerLock, for any number of threads, calls and nestings of *)
(* callbacks: what races and what locks twice is known, a notification     *)
(* runs once, and no thread of the application is in a Peer that goes.     *)
(***************************************************************************)
EXTENDS PeerLock, SequenceTheorems, TLAPS

-----------------------------------------------------------------------------
(* The invariant.                                                          *)

\* Functions that keep the lock over a nested call.
Holding == {"call", "on_topic_update", "publish", "send_node_error"}
             \cup Erasing

\* The points at which a function that locks has its lock.
Inside == {"in", "flush", "spin"}

\* A lock is held while a function is in its section, or over such a call,
\* and in the function's mode; what disconnect took it has until it runs it.
FrameFits(f) ==
  /\ f.at = "enter" => f.fn \in Locking
  /\ f.lock # "no" =>
       /\ f.fn \in Locking /\ f.lock = Mode(f.fn)
       /\ f.at \in Inside \/ (f.at = "nested" /\ f.fn \in Holding)
  /\ f.fn \in Locking /\ f.at \in Inside => f.lock = Mode(f.fn)
  /\ f.fn \in Holding /\ f.at = "nested" => f.lock # "no"
  /\ f.at = "use" => f.fn \in Sending
  /\ f.at = "flush" => f.fn = "publish"
  /\ f.at = "spin" => f.fn \in {"answer", "call", "upload", "publish"}
  /\ f.took # {} => f.fn = "disconnect" /\ f.at \in {"event", "topics"}
  /\ f.at = "topics" => f.took \subseteq {"request"}

\* f is in a state to have called g.  The disconnect that a publishing
\* function or a node error calls never gets the lock.
Calls(f, g) ==
  \/ f.fn = "parse" /\ g.fn \in Handlers \cup {"send_node_error"}
  \/ f.fn = "callback" /\ g.fn \in Public \cup {"destroy"}
  \/ f.fn = "disconnect" /\ f.at \in {"topics", "loop", "nested"}
       /\ g.fn \in {"callback", "destroy"}
  \/ f.fn = "destroy" /\ f.at = "nested" /\ g.fn = "disconnect"
  \/ /\ f.fn \in {"publish", "send_node_error"} /\ f.at = "nested"
     /\ g.fn = "disconnect" /\ g.at \in {"enter", "stuck"}
  \/ /\ f.fn \in {"call", "on_topic_update", "finish", "unsubscribed",
                  "on_method_call", "download"} \cup Erasing
     /\ f.at = "nested" /\ g.fn = "callback"

\* How a thread's stack begins.
Bottom(t) == IF t = Listener THEN {"parse", "disconnect"}
             ELSE Public \cup {"destroy"}

StackFits(t, s) ==
  /\ \A i \in DOMAIN s : FrameFits(s[i])
  /\ \A i \in DOMAIN s : i + 1 \in DOMAIN s => Calls(s[i], s[i + 1])
  /\ s # <<>> => s[1].fn \in Bottom(t)

\* A writer is alone with the lock.
WriterIsAlone ==
  \A t, u \in Threads : t # u /\ "unique" \in Held(t) => Held(u) = {}

\* Nobody refers to the Peer when ~Peer begins, and nobody does so again;
\* ~Peer runs once.
EndIsLonely ==
  /\ Destroying \/ peer = "destroyed" => ~Referenced
  /\ peer = "destroyed" => ~Destroying
  /\ \A t, u \in Threads : \A i \in DOMAIN stack[t], j \in DOMAIN stack[u] :
       stack[t][i].fn = "destroy" /\ stack[u][j].fn = "destroy"
         => t = u /\ i = j

\* One disconnect has the notifications: the one that reset _conn.
TakenOnce ==
  /\ \A t \in Threads : \A i \in DOMAIN stack[t] :
       stack[t][i].took # {} => conn = "reset"
  /\ \A t, u \in Threads : \A i \in DOMAIN stack[t], j \in DOMAIN stack[u] :
       stack[t][i].took # {} /\ stack[u][j].took # {} => t = u /\ i = j

EventTaken ==
  \E t \in Threads : \E i \in DOMAIN stack[t] :
    "plain" \in stack[t][i].took \/ "keep" \in stack[t][i].took
RequestTaken ==
  \E t \in Threads : \E i \in DOMAIN stack[t] : "request" \in stack[t][i].took

One(b) == IF b THEN 1 ELSE 0

\* What is stored and what is taken was given, and not told yet.
NotYetTold ==
  /\ told["event"] + One(event # "none") + One(EventTaken) <= given["event"]
  /\ told["request"] + One(topic_map = "request") + One(RequestTaken)
       <= given["request"]

LInv ==
  /\ TypeOK
  /\ \A t \in Threads : StackFits(t, stack[t])
  /\ WriterIsAlone
  /\ EndIsLonely
  /\ TakenOnce
  /\ NotYetTold
-----------------------------------------------------------------------------
(* Stacks.                                                                 *)

LEMMA DomainIs ==
  ASSUME NEW s \in Seq(Frames)
  PROVE  /\ DOMAIN s = 1 .. Len(s) /\ Len(s) \in Nat
         /\ s # <<>> <=> Len(s) # 0
         /\ \A i \in DOMAIN s : s[i] \in Frames
BY EmptySeq

LEMMA BelowIs ==
  ASSUME NEW s \in Seq(Frames), s # <<>>
  PROVE  LET r == SubSeq(s, 1, Len(s) - 1) IN
           /\ r \in Seq(Frames) /\ Len(r) = Len(s) - 1
           /\ \A i \in 1 .. Len(s) - 1 : r[i] = s[i]
<1> DEFINE n == Len(s) - 1
<1>1. n \in Nat /\ n + 1 = Len(s) /\ \A i \in 1 .. n : s[i] \in Frames
  BY DomainIs
<1> HIDE DEF n
<1>2. /\ SubSeq(s, 1, n) \in Seq(Frames) /\ Len(SubSeq(s, 1, n)) = n
      /\ \A i \in 1 .. n : SubSeq(s, 1, n)[i] = s[i]
  BY <1>1, SubSeqProperties
<1> QED BY <1>2 DEF n

LEMMA PushedIs ==
  ASSUME NEW s \in Seq(Frames), NEW f \in Frames
  PROVE  /\ Append(s, f) \in Seq(Frames)
         /\ Len(Append(s, f)) = Len(s) + 1 /\ Len(s) \in Nat
         /\ \A i \in 1 .. Len(s) : Append(s, f)[i] = s[i]
         /\ Append(s, f)[Len(s) + 1] = f
BY AppendProperties

LEMMA TopIs ==
  ASSUME TypeOK, NEW t \in Threads, stack[t] # <<>>
  PROVE  /\ stack[t] \in Seq(Frames)
         /\ Len(stack[t]) \in DOMAIN stack[t]
         /\ Top(t) = stack[t][Len(stack[t])] /\ Top(t) \in Frames
         /\ StackFits(t, stack[t]) => FrameFits(Top(t))
<1>1. stack[t] \in Seq(Frames)
  BY DEF TypeOK
<1> QED BY <1>1, DomainIs DEF Top, StackFits

\* A function returns.
LEMMA BelowFits ==
  ASSUME NEW t, NEW s \in Seq(Frames), s # <<>>, StackFits(t, s)
  PROVE  StackFits(t, SubSeq(s, 1, Len(s) - 1))
<1> DEFINE r == SubSeq(s, 1, Len(s) - 1)
<1>1. /\ r \in Seq(Frames) /\ Len(r) = Len(s) - 1 /\ Len(s) \in Nat \ {0}
      /\ \A i \in 1 .. Len(s) - 1 : r[i] = s[i]
  BY BelowIs, DomainIs
<1> HIDE DEF r
<1>2. /\ DOMAIN s = 1 .. Len(s) /\ DOMAIN r = 1 .. Len(s) - 1
      /\ r # <<>> => 1 \in DOMAIN r
  BY <1>1, DomainIs
<1>3. \A i \in DOMAIN r : i \in DOMAIN s /\ r[i] = s[i]
  BY <1>1, <1>2
<1>4. StackFits(t, r)
  BY <1>3, <1>2 DEF StackFits
<1> QED BY <1>4 DEF r

\* A function is called.
LEMMA PushFits ==
  ASSUME NEW t, NEW s \in Seq(Frames), StackFits(t, s),
         NEW f \in Frames, FrameFits(f),
         s = <<>> => f.fn \in Bottom(t),
         s # <<>> => Calls(s[Len(s)], f)
  PROVE  StackFits(t, Append(s, f))
<1> DEFINE r == Append(s, f)
<1>1. /\ r \in Seq(Frames) /\ Len(r) = Len(s) + 1 /\ Len(s) \in Nat
      /\ \A i \in 1 .. Len(s) : r[i] = s[i]
      /\ r[Len(s) + 1] = f
  BY PushedIs
<1> HIDE DEF r
<1>2. DOMAIN s = 1 .. Len(s) /\ DOMAIN r = 1 .. Len(s) + 1
  BY <1>1, DomainIs
<1>3. \A i \in DOMAIN r : FrameFits(r[i])
  BY <1>1, <1>2 DEF StackFits
<1>4. ASSUME NEW i \in DOMAIN r, i + 1 \in DOMAIN r
      PROVE  Calls(r[i], r[i + 1])
  <2>1. CASE i + 1 \in DOMAIN s
    <3>1. i \in DOMAIN s /\ r[i] = s[i] /\ r[i + 1] = s[i + 1]
      BY <1>1, <1>2, <2>1
    <3> QED BY <2>1, <3>1 DEF StackFits
  <2>2. CASE i + 1 \notin DOMAIN s
    <3>1. i = Len(s) /\ r[i] = s[i] /\ r[i + 1] = f /\ s # <<>>
      BY <1>1, <1>2, <1>4, <2>2, DomainIs
    <3> QED BY <3>1
  <2> QED BY <2>1, <2>2
<1>5. r[1].fn \in Bottom(t)
  <2>1. CASE s = <<>>
    BY <1>1, <2>1, DomainIs
  <2>2. CASE s # <<>>
    BY <1>1, <2>2, DomainIs DEF StackFits
  <2> QED BY <2>1, <2>2
<1>6. StackFits(t, r)
  BY <1>3, <1>4, <1>5 DEF StackFits
<1> QED BY <1>6 DEF r

\* The function on top moves on, or another takes its place.
LEMMA BecomeFits ==
  ASSUME NEW t, NEW s \in Seq(Frames), s # <<>>, StackFits(t, s),
         NEW f \in Frames, FrameFits(f),
         \A i \in DOMAIN s : Calls(s[i], s[Len(s)]) => Calls(s[i], f),
         s[Len(s)].fn \in Bottom(t) => f.fn \in Bottom(t)
  PROVE  StackFits(t, Append(SubSeq(s, 1, Len(s) - 1), f))
<1> DEFINE r == SubSeq(s, 1, Len(s) - 1)
<1>1. /\ r \in Seq(Frames) /\ Len(r) = Len(s) - 1 /\ Len(s) \in Nat \ {0}
      /\ \A i \in 1 .. Len(s) - 1 : r[i] = s[i]
      /\ StackFits(t, r)
      /\ DOMAIN s = 1 .. Len(s)
      /\ r # <<>> <=> Len(r) # 0
  BY BelowIs, BelowFits, DomainIs
<1> HIDE DEF r
<1>2. CASE r = <<>>
  <2>1. s[Len(s)].fn \in Bottom(t)
    BY <1>1, <1>2 DEF StackFits
  <2> QED BY <1>1, <1>2, <2>1, PushFits DEF r
<1>3. CASE r # <<>>
  <2> DEFINE k == Len(s) - 1
  <2>1. k \in DOMAIN s /\ k + 1 \in DOMAIN s /\ k + 1 = Len(s) /\ r[k] = s[k]
    BY <1>1, <1>3
  <2>2. Calls(s[k], s[Len(s)])
    BY <2>1 DEF StackFits
  <2>3. Calls(r[Len(r)], f)
    BY <1>1, <2>1, <2>2
  <2> QED BY <1>1, <1>3, <2>3, PushFits DEF r
<1> QED BY <1>2, <1>3
\* What a step of t leaves of the stacks: at most the frame on top is
\* changed, into one of F, and at most one of G is put on it.
Only(t, F, G) ==
  /\ stack' \in [Threads -> Seq(Frames)]
  /\ \A u \in Threads : u # t => stack'[u] = stack[u]
  /\ \A i \in DOMAIN stack'[t] :
       \/ i \in DOMAIN stack[t] /\ stack'[t][i] = stack[t][i]
       \/ i = Len(stack[t]) /\ i \in DOMAIN stack[t] /\ stack'[t][i] \in F
       \/ i = Len(stack[t]) + 1 /\ stack'[t][i] \in G

LEMMA ReturnOnly ==
  ASSUME TypeOK, NEW t \in Threads, StackFits(t, stack[t]), stack[t] # <<>>,
         Return(t)
  PROVE  /\ Only(t, {}, {}) /\ StackFits(t, stack'[t])
         /\ Len(stack[t]) \notin DOMAIN stack'[t]
<1> DEFINE s == stack[t]
           r == SubSeq(s, 1, Len(s) - 1)
<1>1. s \in Seq(Frames) /\ stack' = [stack EXCEPT ![t] = r]
  BY DEF TypeOK, Return, Below
<1>2. /\ r \in Seq(Frames) /\ StackFits(t, r)
      /\ Len(s) \in Nat /\ DOMAIN s = 1 .. Len(s) /\ DOMAIN r = 1 .. Len(s) - 1
      /\ \A i \in 1 .. Len(s) - 1 : r[i] = s[i]
  BY <1>1, BelowIs, BelowFits, DomainIs
<1> HIDE DEF r
<1>3. /\ stack' \in [Threads -> Seq(Frames)] /\ stack'[t] = r
      /\ \A u \in Threads : u # t => stack'[u] = stack[u]
  BY <1>1, <1>2 DEF TypeOK
<1>4. \A i \in DOMAIN r : i \in DOMAIN s /\ r[i] = s[i]
  BY <1>2
<1> QED BY <1>2, <1>3, <1>4 DEF Only

LEMMA BecomeOnly ==
  ASSUME TypeOK, NEW t \in Threads, StackFits(t, stack[t]), stack[t] # <<>>,
         NEW f \in Frames, FrameFits(f),
         \A i \in DOMAIN stack[t] :
           Calls(stack[t][i], Top(t)) => Calls(stack[t][i], f),
         Top(t).fn \in Bottom(t) => f.fn \in Bottom(t),
         Become(t, f)
  PROVE  Only(t, {f}, {}) /\ StackFits(t, stack'[t])
<1> DEFINE s == stack[t]
           b == SubSeq(s, 1, Len(s) - 1)
           r == Append(b, f)
<1>1. s \in Seq(Frames) /\ stack' = [stack EXCEPT ![t] = r]
  BY DEF TypeOK, Become, Below
<1>2. /\ b \in Seq(Frames) /\ Len(b) = Len(s) - 1
      /\ \A i \in 1 .. Len(s) - 1 : b[i] = s[i]
      /\ Len(s) \in Nat \ {0} /\ DOMAIN s = 1 .. Len(s)
      /\ StackFits(t, r)
  BY <1>1, BelowIs, BecomeFits, DomainIs DEF Top
<1> HIDE DEF b
<1>3. /\ r \in Seq(Frames) /\ DOMAIN r = 1 .. Len(s) /\ r[Len(s)] = f
      /\ \A i \in 1 .. Len(s) - 1 : r[i] = s[i]
  BY <1>2, PushedIs, DomainIs
<1> HIDE DEF r
<1>4. /\ stack' \in [Threads -> Seq(Frames)] /\ stack'[t] = r
      /\ \A u \in Threads : u # t => stack'[u] = stack[u]
  BY <1>1, <1>3 DEF TypeOK
<1> QED BY <1>2, <1>3, <1>4 DEF Only

LEMMA NewFits ==
  ASSUME NEW fn \in Fns
  PROVE  /\ New(fn) \in Frames /\ FrameFits(New(fn))
         /\ New(fn).fn = fn /\ New(fn).lock = "no" /\ New(fn).took = {}
         /\ fn \in Locking \ {"upload"} => New(fn).at = "enter"
         /\ fn \notin Locking \ {"upload"} => New(fn).at = "start"
BY DEF New, Frames, Points, FrameFits, Inside, Locking, Whole, Taking

LEMMA BecomeAndCallOnly ==
  ASSUME TypeOK, NEW t \in Threads, StackFits(t, stack[t]), stack[t] # <<>>,
         NEW f \in Frames, FrameFits(f),
         \A i \in DOMAIN stack[t] :
           Calls(stack[t][i], Top(t)) => Calls(stack[t][i], f),
         Top(t).fn \in Bottom(t) => f.fn \in Bottom(t),
         NEW fn \in Fns, Calls(f, New(fn)),
         BecomeAndCall(t, f, fn)
  PROVE  Only(t, {f}, {New(fn)}) /\ StackFits(t, stack'[t])
<1> DEFINE s == stack[t]
           b == SubSeq(s, 1, Len(s) - 1)
           r == Append(b, f)
           g == New(fn)
           x == Append(r, g)
<1>1. s \in Seq(Frames) /\ stack' = [stack EXCEPT ![t] = x]
  BY DEF TypeOK, BecomeAndCall, Below
<1>2. /\ b \in Seq(Frames) /\ Len(b) = Len(s) - 1
      /\ \A i \in 1 .. Len(s) - 1 : b[i] = s[i]
      /\ Len(s) \in Nat \ {0} /\ DOMAIN s = 1 .. Len(s)
      /\ StackFits(t, r)
  BY <1>1, BelowIs, BecomeFits, DomainIs DEF Top
<1> HIDE DEF b
<1>3. /\ r \in Seq(Frames) /\ Len(r) = Len(s) /\ r[Len(s)] = f
      /\ \A i \in 1 .. Len(s) - 1 : r[i] = s[i]
      /\ r # <<>>
  <2>1. /\ r \in Seq(Frames) /\ Len(r) = Len(b) + 1 /\ r[Len(b) + 1] = f
        /\ \A i \in 1 .. Len(b) : r[i] = b[i]
    BY <1>2, PushedIs
  <2> HIDE DEF r
  <2>2. Len(b) + 1 = Len(s)
    BY <1>2
  <2> QED BY <1>2, <2>1, <2>2, DomainIs
<1>4. g \in Frames /\ FrameFits(g) /\ Calls(f, g)
  BY NewFits
<1> HIDE DEF r, g
<1>5. /\ x \in Seq(Frames) /\ DOMAIN x = 1 .. Len(s) + 1
      /\ x[Len(s) + 1] = g
      /\ \A i \in 1 .. Len(s) : x[i] = r[i]
      /\ StackFits(t, x)
  BY <1>2, <1>3, <1>4, PushedIs, DomainIs, PushFits
<1> HIDE DEF x
<1>6. /\ stack' \in [Threads -> Seq(Frames)] /\ stack'[t] = x
      /\ \A u \in Threads : u # t => stack'[u] = stack[u]
  BY <1>1, <1>5 DEF TypeOK
<1>7. ASSUME NEW i \in DOMAIN x
      PROVE  \/ i \in DOMAIN s /\ x[i] = s[i]
             \/ i = Len(s) /\ i \in DOMAIN s /\ x[i] = f
             \/ i = Len(s) + 1 /\ x[i] = g
  <2>1. \/ i \in 1 .. Len(s) - 1 /\ i \in 1 .. Len(s)
        \/ i = Len(s) /\ i \in 1 .. Len(s)
        \/ i = Len(s) + 1
    BY <1>2, <1>5
  <2> QED BY <1>2, <1>3, <1>5, <2>1
<1> QED BY <1>5, <1>6, <1>7 DEF Only, g

LEMMA PushOnly ==
  ASSUME TypeOK, NEW t \in Threads, StackFits(t, stack[t]), NEW fn \in Fns,
         stack[t] = <<>> => fn \in Bottom(t),
         stack[t] # <<>> => Calls(Top(t), New(fn)),
         Push(t, New(fn))
  PROVE  Only(t, {}, {New(fn)}) /\ StackFits(t, stack'[t])
<1> DEFINE s == stack[t]
           g == New(fn)
           r == Append(s, g)
<1>1. s \in Seq(Frames) /\ stack' = [stack EXCEPT ![t] = r]
  BY DEF TypeOK, Push
<1>2. g \in Frames /\ FrameFits(g) /\ g.fn = fn
  BY NewFits
<1>3. s # <<>> => Calls(s[Len(s)], g)
  BY DEF Top
<1> HIDE DEF g
<1>4. /\ r \in Seq(Frames) /\ DOMAIN r = 1 .. Len(s) + 1
      /\ DOMAIN s = 1 .. Len(s) /\ Len(s) \in Nat
      /\ r[Len(s) + 1] = g
      /\ \A i \in 1 .. Len(s) : r[i] = s[i]
      /\ StackFits(t, r)
  BY <1>1, <1>2, <1>3, PushedIs, DomainIs, PushFits
<1> HIDE DEF r
<1>5. /\ stack' \in [Threads -> Seq(Frames)] /\ stack'[t] = r
      /\ \A u \in Threads : u # t => stack'[u] = stack[u]
  BY <1>1, <1>4 DEF TypeOK
<1> QED BY <1>4, <1>5 DEF Only, g
-----------------------------------------------------------------------------
(* What most steps leave alone.                                            *)

\* No lock is taken.
LocksKept ==
  \A u \in Threads : \A i \in DOMAIN stack'[u] :
    stack'[u][i].lock # "no" =>
      i \in DOMAIN stack[u] /\ stack[u][i].lock = stack'[u][i].lock

\* No notification is taken.
TooksKept ==
  \A u \in Threads : \A i \in DOMAIN stack'[u] :
    \A x \in stack'[u][i].took : i \in DOMAIN stack[u] /\ x \in stack[u][i].took

\* No ~Peer begins.
NoNewDestroy ==
  \A u \in Threads : \A i \in DOMAIN stack'[u] :
    stack'[u][i].fn = "destroy" =>
      i \in DOMAIN stack[u] /\ stack[u][i].fn = "destroy"

\* Nobody comes to refer to the Peer by calling it.
CallingKept == \A u \in Threads : Calling(u)' => Calling(u)

\* f may take the place of the frame on top of t's stack.
Turn(t, f) ==
  /\ f \in Frames /\ FrameFits(f)
  /\ \A e \in Frames : Calls(e, Top(t)) => Calls(e, f)
  /\ f.lock \in {"no", Top(t).lock} /\ f.took \subseteq Top(t).took
  /\ \/ f.fn = Top(t).fn
     \/ /\ Top(t).fn \in {"on_method_call", "on_topic_update", "download"}
        /\ f.fn \in {"answer", "update", "send_node_error"}

Quiet(t) ==
  \/ UNCHANGED stack
  \/ /\ stack[t] # <<>>
     /\ \/ Return(t)
        \/ \E f : Turn(t, f) /\ Become(t, f)
        \/ \E f : \E fn \in Fns \ {"destroy"} :
             /\ Turn(t, f) /\ f.fn # "callback" /\ Calls(f, New(fn))
             /\ BecomeAndCall(t, f, fn)

LEMMA OnlyKeeps ==
  ASSUME TypeOK, NEW t \in Threads, NEW F, NEW G, Only(t, F, G),
         \A f \in F : f.fn = Top(t).fn \/ f.fn # "destroy",
         \A g \in G : g.lock = "no" /\ g.took = {}
  PROVE  /\ (\A f \in F : f.lock \in {"no", Top(t).lock}) => LocksKept
         /\ (\A f \in F : f.took \subseteq Top(t).took) => TooksKept
         /\ (\A g \in G : g.fn # "destroy") => NoNewDestroy
<1> DEFINE n == Len(stack[t])
<1>1. stack[t] \in Seq(Frames)
  BY DEF TypeOK
<1>2. /\ n \in Nat /\ DOMAIN stack[t] = 1 .. n
      /\ Top(t) = stack[t][n]
  BY <1>1, DomainIs DEF Top
<1>3. /\ \A u \in Threads : u # t => stack'[u] = stack[u]
      /\ \A i \in DOMAIN stack'[t] :
           \/ i \in DOMAIN stack[t] /\ stack'[t][i] = stack[t][i]
           \/ i = n /\ i \in DOMAIN stack[t] /\ stack'[t][i] \in F
           \/ i = n + 1 /\ stack'[t][i] \in G
  BY DEF Only
<1>4. \A i \in DOMAIN stack[t] : i = n => stack[t][i] = Top(t)
  BY <1>2
<1> HIDE DEF n
<1>5. ASSUME \A f \in F : f.lock \in {"no", Top(t).lock} PROVE LocksKept
  BY <1>3, <1>4, <1>5 DEF LocksKept
<1>6. ASSUME \A f \in F : f.took \subseteq Top(t).took PROVE TooksKept
  BY <1>3, <1>4, <1>6 DEF TooksKept
<1>7. ASSUME \A g \in G : g.fn # "destroy" PROVE NoNewDestroy
  BY <1>3, <1>4, <1>7 DEF NoNewDestroy
<1> QED BY <1>5, <1>6, <1>7

\* What stands above parse_text_message is no call of the application's.
OverParse(t) ==
  /\ Len(stack[t]) # 1
  /\ stack[t][Len(stack[t]) - 1].fn = "parse"

\* Only a callback calls on its behalf.
LEMMA OnlyCalls ==
  ASSUME TypeOK, NEW t \in Threads, NEW F, NEW G, Only(t, F, G),
         \A f \in F : f.fn = Top(t).fn \/ OverParse(t),
         \/ \A g \in G : g.fn \notin Public
         \/ /\ stack[t] # <<>> /\ Top(t).fn # "callback"
            /\ \A f \in F : f.fn # "callback"
  PROVE  CallingKept
<1> SUFFICES ASSUME NEW u \in Threads, Calling(u)' PROVE Calling(u)
  BY DEF CallingKept
<1> DEFINE n == Len(stack[t])
<1>1. /\ \A v \in Threads : v # t => stack'[v] = stack[v]
      /\ \A i \in DOMAIN stack'[t] :
           \/ i \in DOMAIN stack[t] /\ stack'[t][i] = stack[t][i]
           \/ i = n /\ i \in DOMAIN stack[t] /\ stack'[t][i] \in F
           \/ i = n + 1 /\ stack'[t][i] \in G
  BY DEF Only
<1>2. /\ n \in Nat /\ DOMAIN stack[t] = 1 .. n
      /\ Top(t) = stack[t][n]
      /\ stack[t] # <<>> <=> n # 0
      /\ DOMAIN stack'[t] = 1 .. Len(stack'[t]) /\ Len(stack'[t]) \in Nat
  <2>1. stack[t] \in Seq(Frames) /\ stack'[t] \in Seq(Frames)
    BY DEF TypeOK, Only
  <2> QED BY <2>1, DomainIs DEF Top
<1>3. OverParse(t) => n # 1 /\ stack[t][n - 1].fn = "parse"
  BY DEF OverParse
<1>4. CASE u # t
  BY <1>1, <1>4 DEF Calling
<1>5. CASE u = t
  <2>1. PICK i \in DOMAIN stack'[t] :
          /\ stack'[t][i].fn \in Public
          /\ i > 1 => stack'[t][i - 1].fn = "callback"
    BY <1>5 DEF Calling
  <2> HIDE DEF n
  <2>2. /\ i \in Nat /\ i >= 1 /\ (i > 1 => i - 1 \in DOMAIN stack'[t])
        /\ i - 1 # i /\ i <= Len(stack'[t])
    BY <1>2, <2>1
  <2>3. CASE i \in DOMAIN stack[t]
    <3>1. i <= n /\ i - 1 # n /\ i - 1 # n + 1 /\ i # n + 1
      BY <1>2, <2>2, <2>3
    <3>2. i > 1 => stack'[t][i - 1] = stack[t][i - 1]
      BY <1>1, <2>2, <3>1
    <3>3. stack'[t][i].fn = stack[t][i].fn
      <4>1. CASE OverParse(t) /\ i = n
        <5>1. i > 1 /\ stack[t][i - 1].fn = "parse"
          BY <1>3, <2>2, <4>1
        <5> QED BY <2>1, <3>2, <5>1
      <4>2. CASE ~OverParse(t) \/ i # n
        BY <1>1, <1>2, <3>1, <4>2
      <4> QED BY <4>1, <4>2
    <3> QED BY <1>5, <2>1, <2>3, <3>2, <3>3 DEF Calling
  <2>4. CASE i \notin DOMAIN stack[t]
    <3>1. i = n + 1 /\ stack'[t][i] \in G
      BY <1>1, <2>1, <2>4
    <3>2. CASE \A g \in G : g.fn \notin Public
      BY <2>1, <3>1, <3>2
    <3>3. CASE /\ stack[t] # <<>> /\ Top(t).fn # "callback"
               /\ \A f \in F : f.fn # "callback"
      <4>1. i > 1 /\ i - 1 = n /\ n # n + 1
        BY <1>2, <3>1, <3>3
      <4>2. stack'[t][n].fn # "callback"
        BY <1>1, <1>2, <2>2, <3>3, <4>1
      <4> QED BY <2>1, <4>1, <4>2
    <3> QED BY <3>2, <3>3
  <2> QED BY <2>3, <2>4
<1> QED BY <1>4, <1>5

\* Three functions of the listener's give way to another; they are called by
\* parse_text_message.
LEMMA ReplacedIsParsed ==
  ASSUME NEW t \in Threads, stack[t] \in Seq(Frames), stack[t] # <<>>,
         StackFits(t, stack[t]),
         Top(t).fn \in {"on_method_call", "on_topic_update", "download"}
  PROVE  OverParse(t)
<1> DEFINE s == stack[t]
           n == Len(s)
           k == n - 1
<1>1. /\ StackFits(t, s) /\ s[n].fn = Top(t).fn /\ n \in Nat \ {0}
      /\ DOMAIN s = 1 .. n
  BY DomainIs DEF Top
<1>2. n # 1
  BY <1>1 DEF StackFits, Bottom, Public, Whole, Sending
<1> HIDE DEF n
<1>3. k \in DOMAIN s /\ k + 1 = n /\ n \in DOMAIN s
  BY <1>1, <1>2
<1> HIDE DEF k, s
<1>4. s[k].fn = "parse"
  <2>1. Calls(s[k], s[n])
    BY <1>1, <1>3 DEF StackFits
  <2> QED BY <1>1, <2>1 DEF Calls, Public, Whole, Sending
<1> QED BY <1>2, <1>4 DEF OverParse, s, n, k

LEMMA QuietKeeps ==
  ASSUME TypeOK, \A u \in Threads : StackFits(u, stack[u]),
         NEW t \in Threads, Quiet(t)
  PROVE  /\ stack' \in [Threads -> Seq(Frames)]
         /\ \A u \in Threads : StackFits(u, stack'[u])
         /\ LocksKept /\ TooksKept /\ NoNewDestroy /\ CallingKept
<1> DEFINE Fit == /\ stack' \in [Threads -> Seq(Frames)]
                  /\ \A u \in Threads : u # t => stack'[u] = stack[u]
                  /\ StackFits(t, stack'[t])
<1>1. StackFits(t, stack[t]) /\ stack[t] \in Seq(Frames)
  BY DEF TypeOK
<1>2. ASSUME NEW f, Turn(t, f), stack[t] # <<>>
      PROVE  /\ Top(t).fn \in Bottom(t) => f.fn \in Bottom(t)
             /\ f.fn = Top(t).fn \/ (f.fn # "destroy" /\ OverParse(t))
             /\ \A i \in DOMAIN stack[t] :
                  Calls(stack[t][i], Top(t)) => Calls(stack[t][i], f)
  <2>1. \A i \in DOMAIN stack[t] : stack[t][i] \in Frames
    BY <1>1, DomainIs
  <2>2. Top(t).fn \in {"on_method_call", "on_topic_update", "download"}
          => OverParse(t) /\ Top(t).fn \notin Bottom(t)
    BY <1>1, <1>2, ReplacedIsParsed DEF Bottom, Public, Whole, Sending
  <2>3. Top(t).fn \in Bottom(t) => f.fn \in Bottom(t)
    BY <1>2, <2>2 DEF Turn
  <2>4. f.fn = Top(t).fn \/ (f.fn # "destroy" /\ OverParse(t))
    BY <1>2, <2>2 DEF Turn
  <2> QED BY <1>2, <2>1, <2>3, <2>4 DEF Turn
<1>3. CASE UNCHANGED stack
  <2>1. LocksKept /\ TooksKept /\ NoNewDestroy
    BY <1>3 DEF LocksKept, TooksKept, NoNewDestroy
  <2> QED BY <1>3, <2>1 DEF TypeOK, CallingKept, Calling
<1>4. CASE stack[t] # <<>> /\ Return(t)
  <2>1. Only(t, {}, {}) /\ StackFits(t, stack'[t])
    BY <1>1, <1>4, ReturnOnly
  <2>2. LocksKept /\ TooksKept /\ NoNewDestroy /\ CallingKept
    BY <2>1, OnlyKeeps, OnlyCalls
  <2> QED BY <2>1, <2>2 DEF Only
<1>5. ASSUME NEW f, stack[t] # <<>>, Turn(t, f), Become(t, f)
      PROVE  Fit /\ LocksKept /\ TooksKept /\ NoNewDestroy /\ CallingKept
  <2>1. Only(t, {f}, {}) /\ StackFits(t, stack'[t])
    BY <1>1, <1>2, <1>5, BecomeOnly DEF Turn
  <2>2. LocksKept /\ TooksKept /\ NoNewDestroy
    BY <1>2, <1>5, <2>1, OnlyKeeps DEF Turn
  <2>3. CallingKept
    BY <1>2, <1>5, <2>1, OnlyCalls
  <2> QED BY <2>1, <2>2, <2>3 DEF Only
<1>6. ASSUME NEW f, NEW fn \in Fns \ {"destroy"}, stack[t] # <<>>,
             Turn(t, f), f.fn # "callback", Calls(f, New(fn)),
             BecomeAndCall(t, f, fn)
      PROVE  Fit /\ LocksKept /\ TooksKept /\ NoNewDestroy /\ CallingKept
  <2>1. Only(t, {f}, {New(fn)}) /\ StackFits(t, stack'[t])
    BY <1>1, <1>2, <1>6, BecomeAndCallOnly DEF Turn
  <2>2. New(fn).lock = "no" /\ New(fn).took = {} /\ New(fn).fn = fn
    BY NewFits
  <2>3. /\ f.lock \in {"no", Top(t).lock} /\ f.took \subseteq Top(t).took
        /\ f.fn = Top(t).fn \/ (f.fn # "destroy" /\ OverParse(t))
        /\ Top(t).fn # "callback"
    BY <1>2, <1>6 DEF Turn
  <2>4. LocksKept /\ TooksKept /\ NoNewDestroy
    BY <2>1, <2>2, <2>3, OnlyKeeps
  <2>5. CallingKept
    BY <1>6, <2>1, <2>3, OnlyCalls
  <2> QED BY <2>1, <2>4, <2>5 DEF Only
<1> QED BY <1>3, <1>4, <1>5, <1>6 DEF Quiet
-----------------------------------------------------------------------------
(* The steps that change no more than that.                                *)

LEMMA AtIs ==
  ASSUME TypeOK, NEW t \in Threads, StackFits(t, stack[t]),
         NEW fn, NEW at, At(t, fn, at)
  PROVE  /\ stack[t] # <<>> /\ Top(t) \in Frames /\ FrameFits(Top(t))
         /\ Top(t).fn = fn /\ Top(t).at = at
BY TopIs DEF At

\* The frame on top moves on.
LEMMA TurnIf ==
  ASSUME NEW t, NEW f \in Frames, FrameFits(f), f.fn = Top(t).fn,
         f.lock \in {"no", Top(t).lock}, f.took \subseteq Top(t).took,
         f.fn = "disconnect" =>
           Top(t).at \notin {"enter", "stuck"} \/ f.at \in {"enter", "stuck"}
  PROVE  Turn(t, f)
BY DEF Turn, Calls

\* A section that ends, goes on without the lock, or never ends.
LEMMA SectionIsQuiet ==
  ASSUME TypeOK, NEW t \in Threads, StackFits(t, stack[t]),
         NEW fn \in {"call", "set_var", "upload", "publish"},
         NEW at \in {"in", "flush"}, At(t, fn, at),
         \/ Return(t)
         \/ fn # "set_var" /\ Spin(t)
         \/ fn = "publish" /\ Become(t, [Top(t) EXCEPT !.at = "flush"])
         \/ fn = "set_var"
            /\ Become(t, [Top(t) EXCEPT !.at = "start", !.lock = "no"])
  PROVE  Quiet(t)
<1> DEFINE g == Top(t)
           spin == [g EXCEPT !.at = "spin"]
           flush == [g EXCEPT !.at = "flush"]
           start == [g EXCEPT !.at = "start", !.lock = "no"]
<1>1. /\ stack[t] # <<>> /\ g \in Frames /\ FrameFits(g)
      /\ g.fn = fn /\ g.at = at
  BY AtIs
<1>2. /\ g.lock = Mode(fn) /\ g.took = {}
  BY <1>1 DEF FrameFits, Locking, Whole, Taking, Inside
<1>3. \/ Return(t)
      \/ fn # "set_var" /\ Become(t, spin)
      \/ fn = "publish" /\ Become(t, flush)
      \/ fn = "set_var" /\ Become(t, start)
  BY DEF Spin
<1> HIDE DEF g
<1>4. /\ spin \in Frames /\ spin.fn = fn /\ spin.at = "spin"
      /\ spin.lock = g.lock /\ spin.took = {}
      /\ flush \in Frames /\ flush.fn = fn /\ flush.at = "flush"
      /\ flush.lock = g.lock /\ flush.took = {}
      /\ start \in Frames /\ start.fn = fn /\ start.at = "start"
      /\ start.lock = "no" /\ start.took = {}
  BY <1>1, <1>2 DEF Frames, Points
<1> HIDE DEF spin, flush, start
<1>5. fn \in Locking
  BY DEF Locking, Whole
<1>6. CASE Return(t)
  BY <1>1, <1>6 DEF Quiet
<1>7. CASE fn # "set_var" /\ Become(t, spin)
  <2>1. FrameFits(spin)
    BY <1>2, <1>4, <1>5, <1>7 DEF FrameFits, Inside
  <2>2. Turn(t, spin)
    BY <1>1, <1>2, <1>4, <2>1, TurnIf DEF g
  <2> QED BY <1>1, <1>7, <2>2 DEF Quiet
<1>8. CASE fn = "publish" /\ Become(t, flush)
  <2>1. FrameFits(flush)
    BY <1>2, <1>4, <1>5, <1>8 DEF FrameFits, Inside
  <2>2. Turn(t, flush)
    BY <1>1, <1>2, <1>4, <2>1, TurnIf DEF g
  <2> QED BY <1>1, <1>8, <2>2 DEF Quiet
<1>9. CASE fn = "set_var" /\ Become(t, start)
  <2>1. FrameFits(start)
    BY <1>4, <1>9 DEF FrameFits, Inside
  <2>2. Turn(t, start)
    BY <1>1, <1>2, <1>4, <2>1, TurnIf DEF g
  <2> QED BY <1>1, <1>9, <2>2 DEF Quiet
<1> QED BY <1>3, <1>6, <1>7, <1>8, <1>9

\* A nested call, under the lock or after it.
LEMMA NestedIsQuiet ==
  ASSUME TypeOK, NEW t \in Threads, StackFits(t, stack[t]),
         NEW fn \in Holding \cup {"finish", "unsubscribed"}, At(t, fn, "in"),
         \/ Return(t)
         \/ /\ fn \in {"call", "on_topic_update"} \cup Erasing
            /\ BecomeAndCall(t, Nested(Top(t)), "callback")
         \/ /\ fn \in {"publish", "send_node_error"}
            /\ BecomeAndCall(t, Nested(Top(t)), "disconnect")
         \/ /\ fn \in {"finish", "unsubscribed"}
            /\ BecomeAndCall(t, Released(Top(t)), "callback")
  PROVE  Quiet(t)
<1> DEFINE g == Top(t)
<1>1. /\ stack[t] # <<>> /\ g \in Frames /\ FrameFits(g)
      /\ g.fn = fn /\ g.at = "in"
  BY AtIs
<1>2. \/ Return(t)
      \/ /\ fn \in {"call", "on_topic_update"} \cup Erasing
         /\ BecomeAndCall(t, Nested(g), "callback")
      \/ /\ fn \in {"publish", "send_node_error"}
         /\ BecomeAndCall(t, Nested(g), "disconnect")
      \/ /\ fn \in {"finish", "unsubscribed"}
         /\ BecomeAndCall(t, Released(g), "callback")
  OBVIOUS
<1> HIDE DEF g
<1>3. /\ Nested(g) \in Frames /\ Nested(g).fn = fn /\ Nested(g).at = "nested"
      /\ Nested(g).lock = g.lock /\ Nested(g).took = g.took
      /\ Released(g) \in Frames /\ Released(g).fn = fn
      /\ Released(g).at = "nested" /\ Released(g).lock = "no"
      /\ Released(g).took = g.took
  BY <1>1 DEF Nested, Released, Frames, Points
<1>4. fn \in Locking
  BY DEF Holding, Erasing, Locking, Whole, Taking
<1>5. g.took = {} /\ g.lock = Mode(fn) /\ Mode(fn) # "no"
  BY <1>1, <1>4 DEF FrameFits, Inside, Mode
<1>6. {"callback", "disconnect"} \subseteq Fns \ {"destroy"}
  BY DEF Fns, Handlers, Locking, Taking
<1>7. /\ New("callback").fn = "callback"
      /\ New("disconnect").fn = "disconnect"
      /\ New("disconnect").at = "enter"
  BY <1>6, NewFits DEF Locking, Taking
<1>8. CASE fn \in Holding
  <2>1. FrameFits(Nested(g))
    BY <1>1, <1>3, <1>4, <1>5, <1>8 DEF FrameFits, Inside
  <2>2. Turn(t, Nested(g))
    BY <1>1, <1>3, <2>1, TurnIf DEF g
  <2>3. fn \in {"call", "on_topic_update"} \cup Erasing
          => Calls(Nested(g), New("callback"))
    BY <1>3, <1>7 DEF Calls
  <2>4. fn \in {"publish", "send_node_error"}
          => Calls(Nested(g), New("disconnect"))
    BY <1>3, <1>7 DEF Calls
  <2>5. fn \notin {"callback", "finish", "unsubscribed"}
    BY <1>8 DEF Holding, Erasing
  <2> QED BY <1>1, <1>2, <1>3, <1>6, <2>2, <2>3, <2>4, <2>5 DEF Quiet
<1>9. CASE fn \in {"finish", "unsubscribed"}
  <2>1. FrameFits(Released(g))
    BY <1>1, <1>3, <1>4, <1>5, <1>9 DEF FrameFits, Inside, Holding, Erasing
  <2>2. Turn(t, Released(g))
    BY <1>1, <1>3, <1>9, <2>1, TurnIf DEF g
  <2>3. Calls(Released(g), New("callback"))
    BY <1>3, <1>7, <1>9 DEF Calls
  <2>4. fn \notin {"call", "on_topic_update"} \cup Erasing
    BY <1>9 DEF Erasing
  <2> QED BY <1>1, <1>2, <1>3, <1>6, <1>9, <2>2, <2>3, <2>4 DEF Quiet
<1> QED BY <1>8, <1>9

LEMMA LockedIsQuiet ==
  ASSUME TypeOK, NEW t \in Threads, StackFits(t, stack[t]),
         \/ Update(t) \/ Call(t) \/ SetVar(t) \/ Upload(t) \/ OnUnsubscribe(t)
         \/ Publish(t) \/ FlushEnds(t) \/ OnTopicUpdate(t) \/ SendNodeError(t)
         \/ Finish(t) \/ Unsubscribed(t)
  PROVE  Quiet(t)
<1>1. /\ {"update", "set_methods", "on_unsubscribe", "call", "publish",
          "on_topic_update", "send_node_error"} \subseteq Holding
      /\ {"update", "set_methods", "on_unsubscribe"} \subseteq Erasing
  BY DEF Holding, Erasing
<1>2. CASE Update(t) \/ OnUnsubscribe(t)
  BY <1>1, <1>2, NestedIsQuiet DEF Update, OnUnsubscribe
<1>3. CASE OnTopicUpdate(t) \/ SendNodeError(t)
  BY <1>1, <1>3, NestedIsQuiet DEF OnTopicUpdate, SendNodeError
<1>4. CASE Finish(t) \/ Unsubscribed(t)
  BY <1>4, NestedIsQuiet DEF Finish, Unsubscribed
<1>5. CASE Call(t)
  <2>1. \/ Return(t) \/ Spin(t)
        \/ BecomeAndCall(t, Nested(Top(t)), "callback")
    BY <1>5 DEF Call
  <2> QED BY <1>1, <1>5, <2>1, SectionIsQuiet, NestedIsQuiet DEF Call
<1>6. CASE Publish(t)
  <2>1. \/ Return(t) \/ Spin(t) \/ Become(t, [Top(t) EXCEPT !.at = "flush"])
        \/ BecomeAndCall(t, Nested(Top(t)), "disconnect")
    BY <1>6 DEF Publish
  <2> QED BY <1>1, <1>6, <2>1, SectionIsQuiet, NestedIsQuiet DEF Publish
<1>7. CASE SetVar(t) \/ Upload(t) \/ FlushEnds(t)
  BY <1>7, SectionIsQuiet DEF SetVar, Upload, FlushEnds
<1> QED BY <1>2, <1>3, <1>4, <1>5, <1>6, <1>7

\* The event of keep_until_disconnected drops the last reference.
Dies(t) ==
  /\ RunEvent(t)
  /\ "plain" \notin Top(t).took /\ "keep" \in Top(t).took
  /\ ~owned /\ event # "keep"
  /\ \A u \in Threads : ~Calling(u) /\ (u # t => ~Keeping(u))

\* disconnect() on a disconnected Peer, and its way from there.
LEMMA DisconnectingIsQuiet ==
  ASSUME TypeOK, NEW t \in Threads, StackFits(t, stack[t]),
         \/ Disconnect(t) /\ conn = "reset"
         \/ RunEvent(t) /\ ~Dies(t)
         \/ RunRequests(t) \/ EndDisconnect(t)
  PROVE  Quiet(t)
<1> DEFINE g == Top(t)
           event1 == [g EXCEPT !.at = "event", !.lock = "no"]
           topics1 == [g EXCEPT !.at = "topics", !.took = @ \cap {"request"}]
           loop1 == [g EXCEPT !.at = "loop", !.took = {}]
           nested1 == Nested(g)
<1>1. \/ At(t, "disconnect", "in") /\ Become(t, event1)
      \/ /\ At(t, "disconnect", "event")
         /\ Become(t, topics1) \/ BecomeAndCall(t, topics1, "callback")
      \/ /\ At(t, "disconnect", "topics")
         /\ Become(t, loop1) \/ BecomeAndCall(t, loop1, "callback")
      \/ /\ At(t, "disconnect", "loop")
         /\ Return(t) \/ BecomeAndCall(t, nested1, "callback")
  BY DEF Disconnect, RunEvent, RunRequests, EndDisconnect, At, Dies
<1>2. /\ stack[t] # <<>> /\ g \in Frames /\ FrameFits(g)
      /\ At(t, "disconnect", "in") => g.fn = "disconnect" /\ g.at = "in"
      /\ At(t, "disconnect", "event") => g.fn = "disconnect" /\ g.at = "event"
      /\ At(t, "disconnect", "topics") => g.fn = "disconnect" /\ g.at = "topics"
      /\ At(t, "disconnect", "loop") => g.fn = "disconnect" /\ g.at = "loop"
  BY <1>1, TopIs DEF At
<1> HIDE DEF g
<1>3. /\ event1 \in Frames /\ event1.fn = g.fn /\ event1.at = "event"
      /\ event1.lock = "no" /\ event1.took = g.took
  BY <1>2 DEF Frames, Points
<1>4. /\ topics1 \in Frames /\ topics1.fn = g.fn /\ topics1.at = "topics"
      /\ topics1.lock = g.lock /\ topics1.took = g.took \cap {"request"}
  BY <1>2 DEF Frames, Points, Slots
<1>5. /\ loop1 \in Frames /\ loop1.fn = g.fn /\ loop1.at = "loop"
      /\ loop1.lock = g.lock /\ loop1.took = {}
  BY <1>2 DEF Frames, Points
<1>6. "callback" \in Fns \ {"destroy"} /\ New("callback").fn = "callback"
  BY NewFits DEF Fns, Handlers
<1>10. /\ nested1 \in Frames /\ nested1.fn = g.fn /\ nested1.at = "nested"
       /\ nested1.lock = g.lock /\ nested1.took = g.took
  BY <1>2 DEF Nested, Frames, Points
<1> HIDE DEF event1, topics1, loop1, nested1
<1>7. CASE At(t, "disconnect", "in") /\ Become(t, event1)
  <2>1. FrameFits(event1)
    BY <1>2, <1>3, <1>7 DEF FrameFits, Inside, Holding, Erasing
  <2>2. Turn(t, event1)
    BY <1>2, <1>3, <1>7, <2>1, TurnIf DEF g
  <2> QED BY <1>2, <1>7, <2>2 DEF Quiet
<1>8. CASE /\ At(t, "disconnect", "event")
           /\ Become(t, topics1) \/ BecomeAndCall(t, topics1, "callback")
  <2>1. FrameFits(topics1)
    BY <1>2, <1>4, <1>8 DEF FrameFits, Inside, Holding, Erasing
  <2>2. Turn(t, topics1)
    BY <1>2, <1>4, <1>8, <2>1, TurnIf DEF g
  <2>3. Calls(topics1, New("callback"))
    BY <1>2, <1>4, <1>6, <1>8 DEF Calls
  <2> QED BY <1>2, <1>4, <1>6, <1>8, <2>2, <2>3 DEF Quiet
<1>9. CASE /\ At(t, "disconnect", "topics")
           /\ Become(t, loop1) \/ BecomeAndCall(t, loop1, "callback")
  <2>1. FrameFits(loop1)
    BY <1>2, <1>5, <1>9 DEF FrameFits, Inside, Holding, Erasing
  <2>2. Turn(t, loop1)
    BY <1>2, <1>5, <1>9, <2>1, TurnIf DEF g
  <2>3. Calls(loop1, New("callback"))
    BY <1>2, <1>5, <1>6, <1>9 DEF Calls
  <2> QED BY <1>2, <1>5, <1>6, <1>9, <2>2, <2>3 DEF Quiet
<1>11. CASE /\ At(t, "disconnect", "loop")
            /\ Return(t) \/ BecomeAndCall(t, nested1, "callback")
  <2>1. FrameFits(nested1)
    BY <1>2, <1>10, <1>11 DEF FrameFits, Inside, Holding, Erasing
  <2>2. Turn(t, nested1)
    BY <1>2, <1>10, <1>11, <2>1, TurnIf DEF g
  <2>3. Calls(nested1, New("callback"))
    BY <1>2, <1>10, <1>6, <1>11 DEF Calls
  <2> QED BY <1>2, <1>10, <1>6, <1>11, <2>2, <2>3 DEF Quiet
<1> QED BY <1>1, <1>7, <1>8, <1>9, <1>11 DEF Quiet
\* A function of the listener's gives way to another.
LEMMA ReplaceIsTurn ==
  ASSUME NEW t, Top(t).fn \in {"on_method_call", "on_topic_update", "download"},
         NEW fn \in {"answer", "update", "send_node_error"}
  PROVE  Turn(t, New(fn))
<1>1. fn \in Fns
  BY DEF Fns, Handlers, Locking
<1>2. /\ New(fn) \in Frames /\ FrameFits(New(fn)) /\ New(fn).fn = fn
      /\ New(fn).lock = "no" /\ New(fn).took = {}
  BY <1>1, NewFits
<1>3. ASSUME NEW e \in Frames, Calls(e, Top(t)) PROVE Calls(e, New(fn))
  <2>1. e.fn = "parse"
    BY <1>3 DEF Calls, Public, Whole, Sending
  <2> QED BY <1>2, <2>1 DEF Calls, Handlers
<1> QED BY <1>2, <1>3 DEF Turn

LEMMA ReturningIsQuiet ==
  ASSUME NEW t,
         \/ StartPublish(t) \/ IsConnected(t) \/ OnDisconnect(t)
         \/ EndCallback(t) \/ Throw(t) \/ Escape(t)
  PROVE  Quiet(t)
BY DEF StartPublish, IsConnected, OnDisconnect, EndCallback, Throw, Escape, At,
       Quiet

\* Without the lock _conn is looked at, then used.
LEMMA SendingIsQuiet ==
  ASSUME TypeOK, NEW t \in Threads, StackFits(t, stack[t]), SendUnlocked(t)
  PROVE  Quiet(t)
<1> DEFINE g == Top(t)
           use == [g EXCEPT !.at = "use"]
           enter == [g EXCEPT !.at = "enter"]
           spin == [g EXCEPT !.at = "spin"]
<1>1. PICK fn \in Sending, at \in {"start", "use"} :
        /\ At(t, fn, at)
        /\ \/ at = "start" /\ Become(t, use)
           \/ Sent(t)
  BY DEF SendUnlocked
<1>2. /\ stack[t] # <<>> /\ g \in Frames /\ FrameFits(g)
      /\ g.fn = fn /\ g.at = at
  BY <1>1, AtIs
<1>3. \/ Return(t)
      \/ at = "start" /\ Become(t, use)
      \/ fn = "upload" /\ Become(t, enter)
      \/ fn = "answer" /\ Become(t, spin)
  BY <1>1, <1>2 DEF Sent, Spin
<1> HIDE DEF g
<1>4. g.lock = "no" /\ g.took = {}
  BY <1>2 DEF FrameFits, Inside
<1>5. /\ use \in Frames /\ use.fn = fn /\ use.at = "use"
      /\ use.lock = "no" /\ use.took = {}
      /\ enter \in Frames /\ enter.fn = fn /\ enter.at = "enter"
      /\ enter.lock = "no" /\ enter.took = {}
      /\ spin \in Frames /\ spin.fn = fn /\ spin.at = "spin"
      /\ spin.lock = "no" /\ spin.took = {}
  BY <1>2, <1>4 DEF Frames, Points
<1> HIDE DEF use, enter, spin
<1>6. fn # "disconnect"
  BY DEF Sending
<1>7. CASE Return(t)
  BY <1>2, <1>7 DEF Quiet
<1>8. CASE at = "start" /\ Become(t, use)
  <2>1. FrameFits(use)
    BY <1>5 DEF FrameFits, Inside
  <2>2. Turn(t, use)
    BY <1>2, <1>4, <1>5, <1>6, <2>1, TurnIf DEF g
  <2> QED BY <1>2, <1>8, <2>2 DEF Quiet
<1>9. CASE fn = "upload" /\ Become(t, enter)
  <2>1. FrameFits(enter)
    BY <1>5, <1>9 DEF FrameFits, Inside, Locking
  <2>2. Turn(t, enter)
    BY <1>2, <1>4, <1>5, <1>6, <2>1, TurnIf DEF g
  <2> QED BY <1>2, <1>9, <2>2 DEF Quiet
<1>10. CASE fn = "answer" /\ Become(t, spin)
  <2>1. FrameFits(spin)
    BY <1>5, <1>10 DEF FrameFits, Inside, Locking, Whole, Taking
  <2>2. Turn(t, spin)
    BY <1>2, <1>4, <1>5, <1>6, <2>1, TurnIf DEF g
  <2> QED BY <1>2, <1>10, <2>2 DEF Quiet
<1> QED BY <1>3, <1>7, <1>8, <1>9, <1>10

LEMMA UnlockedIsQuiet ==
  ASSUME TypeOK, NEW t \in Threads, StackFits(t, stack[t]),
         \/ OnMethodCall(t) \/ Download(t) \/ Resume(t)
         \/ Unwind(t) \/ Destructor(t)
  PROVE  Quiet(t)
<1> DEFINE g == Top(t)
           caught == [g EXCEPT !.at = "caught"]
<1>1. /\ stack[t] # <<>> /\ g \in Frames /\ FrameFits(g)
      /\ \A fn, at : At(t, fn, at) => g.fn = fn /\ g.at = at
  BY TopIs DEF OnMethodCall, Download, Resume, Unwind, Destructor, At
<1> HIDE DEF g
<1>2. /\ Nested(g) \in Frames /\ Nested(g).fn = g.fn
      /\ Nested(g).at = "nested"
      /\ Nested(g).lock = g.lock /\ Nested(g).took = g.took
  BY <1>1 DEF Nested, Frames, Points
<1>3. /\ caught \in Frames /\ caught.fn = g.fn /\ caught.at = "caught"
      /\ caught.lock = g.lock /\ caught.took = g.took
  BY <1>1 DEF Frames, Points
<1> HIDE DEF caught
<1>4. {"callback", "disconnect", "answer", "send_node_error"}
        \subseteq Fns \ {"destroy"}
  BY DEF Fns, Handlers, Locking, Taking
<1>5. \A fn \in {"callback", "disconnect", "answer", "send_node_error"} :
        New(fn).fn = fn
  BY <1>4, NewFits
<1>6. CASE Return(t) \/ UNCHANGED stack
  BY <1>1, <1>6 DEF Quiet
<1>8. CASE /\ At(t, "on_method_call", "start") \/ At(t, "download", "start")
           /\ BecomeAndCall(t, Nested(g), "callback")
  <2>1. g.fn \in {"on_method_call", "download"} /\ g.at = "start"
    BY <1>1, <1>8
  <2>2. FrameFits(Nested(g))
    BY <1>1, <1>2, <2>1 DEF FrameFits, Inside, Locking, Whole, Taking, Holding,
                            Erasing
  <2>3. Turn(t, Nested(g))
    BY <1>2, <2>1, <2>2, TurnIf DEF g
  <2>4. Calls(Nested(g), New("callback"))
    BY <1>2, <1>5, <2>1 DEF Calls
  <2> QED BY <1>1, <1>2, <1>4, <1>8, <2>1, <2>3, <2>4 DEF Quiet
<1>9. CASE \/ At(t, "on_method_call", "start") /\ Become(t, New("answer"))
           \/ At(t, "download", "start") /\ Become(t, New("send_node_error"))
           \/ g.fn = "on_topic_update" /\ Become(t, New("update"))
  <2>1. PICK fn \in {"answer", "update", "send_node_error"} :
          /\ Become(t, New(fn))
          /\ g.fn \in {"on_method_call", "on_topic_update", "download"}
    BY <1>1, <1>9
  <2>2. Turn(t, New(fn))
    BY <2>1, ReplaceIsTurn DEF g
  <2> QED BY <1>1, <2>1, <2>2 DEF Quiet
<1>10. CASE /\ g.fn = "parse" /\ g.at # "caught"
            /\ \E fn \in {"answer", "send_node_error"} :
                 BecomeAndCall(t, caught, fn)
  <2>1. PICK fn \in {"answer", "send_node_error"} : BecomeAndCall(t, caught, fn)
    BY <1>10
  <2>2. FrameFits(caught)
    BY <1>1, <1>3, <1>10 DEF FrameFits, Inside, Locking, Whole, Taking, Holding,
                            Erasing
  <2>3. Turn(t, caught)
    BY <1>3, <1>10, <2>2, TurnIf DEF g
  <2>4. Calls(caught, New(fn))
    BY <1>3, <1>5, <1>10, <2>1 DEF Calls, Handlers
  <2> QED BY <1>1, <1>3, <1>4, <1>10, <2>1, <2>3, <2>4 DEF Quiet
<1>11. CASE At(t, "destroy", "start")
            /\ BecomeAndCall(t, Nested(g), "disconnect")
  <2>1. g.fn = "destroy" /\ g.at = "start"
    BY <1>1, <1>11
  <2>2. FrameFits(Nested(g))
    BY <1>1, <1>2, <2>1 DEF FrameFits, Inside, Locking, Whole, Taking, Holding,
                            Erasing
  <2>3. Turn(t, Nested(g))
    BY <1>2, <2>1, <2>2, TurnIf DEF g
  <2>4. Calls(Nested(g), New("disconnect"))
    BY <1>2, <1>5, <2>1 DEF Calls
  <2> QED BY <1>1, <1>2, <1>4, <1>11, <2>1, <2>3, <2>4 DEF Quiet
<1>12. CASE Unwind(t)
  <2>1. \/ Return(t) \/ UNCHANGED stack
        \/ /\ g.fn = "parse" /\ g.at # "caught"
           /\ \E fn \in {"answer", "send_node_error"} :
                BecomeAndCall(t, caught, fn)
    BY <1>12 DEF Unwind, g, caught
  <2> QED BY <1>6, <1>10, <2>1
<1>13. CASE OnMethodCall(t) \/ Download(t) \/ Resume(t) \/ Destructor(t)
  <2>1. \/ Return(t)
        \/ /\ At(t, "on_method_call", "start") \/ At(t, "download", "start")
           /\ BecomeAndCall(t, Nested(g), "callback")
        \/ At(t, "on_method_call", "start") /\ Become(t, New("answer"))
        \/ At(t, "download", "start") /\ Become(t, New("send_node_error"))
        \/ g.fn = "on_topic_update" /\ Become(t, New("update"))
        \/ At(t, "destroy", "start")
           /\ BecomeAndCall(t, Nested(g), "disconnect")
    BY <1>13 DEF OnMethodCall, Download, Resume, Destructor, g
  <2> QED BY <1>6, <1>8, <1>9, <1>11, <2>1
<1> QED BY <1>12, <1>13

\* A second lock the thread does not get.
LEMMA NoRelockIsQuiet ==
  ASSUME TypeOK, NEW t \in Threads, StackFits(t, stack[t]), Entering(t),
         \/ Become(t, [Top(t) EXCEPT !.at = "stuck"])
         \/ Return(t)
  PROVE  Quiet(t)
<1> DEFINE g == Top(t)
           f == [g EXCEPT !.at = "stuck"]
<1>1. stack[t] # <<>> /\ g \in Frames /\ FrameFits(g) /\ g.at = "enter"
  BY TopIs DEF Entering
<1> HIDE DEF g
<1>2. /\ f \in Frames /\ f.fn = g.fn /\ f.at = "stuck"
      /\ f.lock = g.lock /\ f.took = g.took
  BY <1>1 DEF Frames, Points
<1> HIDE DEF f
<1>3. FrameFits(f)
  BY <1>1, <1>2 DEF FrameFits, Inside
<1>4. Turn(t, f)
  BY <1>2, <1>3, TurnIf DEF g
<1> QED BY <1>1, <1>4 DEF Quiet, f, g
-----------------------------------------------------------------------------
(* The others.                                                             *)

\* What the thread holds is held in some frame.
LEMMA HeldIs ==
  ASSUME NEW t
  PROVE  /\ \A i \in DOMAIN stack[t] :
              stack[t][i].lock # "no" => stack[t][i].lock \in Held(t)
         /\ \A x \in Held(t) :
              x # "no" /\ \E i \in DOMAIN stack[t] : stack[t][i].lock = x
BY DEF Held

LEMMA LocksStay ==
  ASSUME LocksKept, WriterIsAlone
  PROVE  WriterIsAlone'
<1>1. ASSUME NEW t \in Threads, NEW x \in Held(t)' PROVE x \in Held(t)
  <2>1. x # "no" /\ \E i \in DOMAIN stack'[t] : stack'[t][i].lock = x
    BY <1>1 DEF Held
  <2>2. PICK i \in DOMAIN stack'[t] : stack'[t][i].lock = x
    BY <2>1
  <2>3. i \in DOMAIN stack[t] /\ stack[t][i].lock = x
    BY <2>1, <2>2 DEF LocksKept
  <2> QED BY <2>1, <2>3, HeldIs
<1> QED BY <1>1 DEF WriterIsAlone

\* The lock is granted, for the first time or again.
LEMMA GrantKeeps ==
  ASSUME TypeOK, \A u \in Threads : StackFits(u, stack[u]), WriterIsAlone,
         NEW t \in Threads, Entering(t), NEW mode, mode = Mode(Top(t).fn),
         \/ Held(t) = {}
         \/ mode = "shared" /\ "unique" \notin Held(t),
         Free(t, mode),
         Become(t, [Top(t) EXCEPT !.at = "in", !.lock = mode])
  PROVE  /\ stack' \in [Threads -> Seq(Frames)]
         /\ \A u \in Threads : StackFits(u, stack'[u])
         /\ WriterIsAlone'
         /\ TooksKept /\ NoNewDestroy /\ CallingKept
<1> DEFINE g == Top(t)
           f == [g EXCEPT !.at = "in", !.lock = mode]
<1>1. stack[t] # <<>> /\ g \in Frames /\ FrameFits(g) /\ g.at = "enter"
  BY TopIs DEF Entering
<1> HIDE DEF g
<1>2. mode \in {"shared", "unique"} /\ mode = Mode(g.fn)
  BY DEF Mode, g
<1>3. /\ f \in Frames /\ f.fn = g.fn /\ f.at = "in"
      /\ f.lock = mode /\ f.took = g.took
  BY <1>1, <1>2 DEF Frames, Points
<1>4. Become(t, f)
  BY DEF g
<1> HIDE DEF f
<1>5. FrameFits(f)
  BY <1>1, <1>2, <1>3 DEF FrameFits, Inside
<1>6. ASSUME NEW i \in DOMAIN stack[t], Calls(stack[t][i], g)
      PROVE  Calls(stack[t][i], f)
  <2> DEFINE e == stack[t][i]
  <2>1. FrameFits(e)
    BY DEF StackFits
  <2>2. e.fn \in Holding /\ e.at = "nested" => Held(t) # {}
    BY <2>1, HeldIs DEF FrameFits
  <2>3. e.fn \in {"publish", "send_node_error"} /\ e.at = "nested"
          => g.fn # "disconnect"
    BY <1>2, <2>2 DEF Mode, Holding
  <2> HIDE DEF e
  <2>4. Calls(e, f)
    BY <1>3, <1>6, <2>3 DEF Calls, e
  <2> QED BY <2>4 DEF e
<1>7. Only(t, {f}, {}) /\ StackFits(t, stack'[t])
  BY <1>1, <1>3, <1>4, <1>5, <1>6, BecomeOnly DEF g
<1>8. TooksKept /\ NoNewDestroy /\ CallingKept
  BY <1>1, <1>3, <1>7, OnlyKeeps, OnlyCalls DEF g
<1>9. \A u \in Threads : u # t => stack'[u] = stack[u]
  BY <1>7 DEF Only
<1>10. ASSUME NEW x \in Held(t)' PROVE x \in Held(t) \/ x = mode
  <2>1. x # "no" /\ \E i \in DOMAIN stack'[t] : stack'[t][i].lock = x
    BY <1>10 DEF Held
  <2>2. PICK i \in DOMAIN stack'[t] : stack'[t][i].lock = x
    BY <2>1
  <2>3. \/ i \in DOMAIN stack[t] /\ stack'[t][i] = stack[t][i]
        \/ stack'[t][i] = f
    BY <1>7 DEF Only
  <2> QED BY <1>3, <2>1, <2>2, <2>3, HeldIs
<1>11. \A u \in Threads : u # t => Held(u)' = Held(u)
  BY <1>9 DEF Held
<1>12. WriterIsAlone'
  <2> SUFFICES ASSUME NEW u \in Threads, NEW v \in Threads, u # v,
                      "unique" \in Held(u)'
               PROVE  Held(v)' = {}
    BY DEF WriterIsAlone
  <2>1. CASE u = t
    <3>1. (mode = "unique" /\ Held(t) = {}) \/ "unique" \in Held(t)
      BY <1>2, <1>10, <2>1
    <3>2. Held(v) = {}
      BY <2>1, <3>1 DEF Free, WriterIsAlone
    <3> QED BY <1>11, <2>1, <3>2
  <2>2. CASE u # t
    <3>1. "unique" \in Held(u)
      BY <1>11, <2>2
    <3>2. v # t
      BY <2>2, <3>1 DEF Free
    <3> QED BY <1>11, <3>1, <3>2 DEF WriterIsAlone
  <2> QED BY <2>1, <2>2
<1> QED BY <1>7, <1>8, <1>9, <1>12 DEF Only
\* The disconnect that resets _conn.
LEMMA TakingKeeps ==
  ASSUME TypeOK, \A u \in Threads : StackFits(u, stack[u]),
         NEW t \in Threads, Disconnect(t), conn = "set"
  PROVE  /\ stack' \in [Threads -> Seq(Frames)]
         /\ \A u \in Threads : StackFits(u, stack'[u])
         /\ LocksKept /\ NoNewDestroy /\ CallingKept
         /\ \A u \in Threads : \A i \in DOMAIN stack'[u] :
              \/ i \in DOMAIN stack[u] /\ stack'[u][i] = stack[u][i]
              \/ /\ u = t /\ i = Len(stack[t])
                 /\ stack'[u][i].took = {event, topic_map} \cap Slots
<1> DEFINE g == Top(t)
           f == [g EXCEPT !.at = "event", !.lock = "no",
                          !.took = {event, topic_map} \cap Slots]
<1>1. /\ stack[t] # <<>> /\ g \in Frames /\ FrameFits(g)
      /\ g.fn = "disconnect" /\ g.at = "in"
  BY AtIs DEF Disconnect
<1>2. Become(t, f)
  BY DEF Disconnect
<1> HIDE DEF g
<1>3. /\ f \in Frames /\ f.fn = "disconnect" /\ f.at = "event"
      /\ f.lock = "no" /\ f.took = {event, topic_map} \cap Slots
  BY <1>1 DEF Frames, Points
<1> HIDE DEF f
<1>4. FrameFits(f)
  BY <1>3 DEF FrameFits, Inside, Holding, Erasing
<1>5. \A i \in DOMAIN stack[t] : Calls(stack[t][i], g) => Calls(stack[t][i], f)
  BY <1>1, <1>3 DEF Calls
<1>6. Only(t, {f}, {}) /\ StackFits(t, stack'[t])
  BY <1>1, <1>2, <1>3, <1>4, <1>5, BecomeOnly DEF g
<1>7. LocksKept /\ NoNewDestroy /\ CallingKept
  BY <1>1, <1>3, <1>6, OnlyKeeps, OnlyCalls DEF g
<1> QED BY <1>3, <1>6, <1>7 DEF Only

\* A call from outside, or from a callback.
LEMMA EnterKeeps ==
  ASSUME TypeOK, \A u \in Threads : StackFits(u, stack[u]),
         NEW t \in Threads, NEW fn \in Public, Enter(t, fn)
  PROVE  /\ stack' \in [Threads -> Seq(Frames)]
         /\ \A u \in Threads : StackFits(u, stack'[u])
         /\ LocksKept /\ TooksKept /\ NoNewDestroy
<1>1. /\ fn \in Fns /\ fn # "destroy"
      /\ Push(t, New(fn))
  BY DEF Enter, Fns, Public, Whole, Sending
<1>2. New(fn).fn = fn /\ New(fn).lock = "no" /\ New(fn).took = {}
  BY <1>1, NewFits
<1>3. stack[t] = <<>> => fn \in Bottom(t)
  BY ListenerAssumption DEF Enter, At, Bottom
<1>4. stack[t] # <<>> => Calls(Top(t), New(fn))
  BY <1>2 DEF Enter, At, Calls
<1>5. Only(t, {}, {New(fn)}) /\ StackFits(t, stack'[t])
  BY <1>1, <1>3, <1>4, PushOnly
<1>6. LocksKept /\ TooksKept /\ NoNewDestroy
  BY <1>1, <1>2, <1>5, OnlyKeeps
<1> QED BY <1>5, <1>6 DEF Only

LEMMA OnCloseKeeps ==
  ASSUME TypeOK, \A u \in Threads : StackFits(u, stack[u]), OnClose
  PROVE  /\ stack' \in [Threads -> Seq(Frames)]
         /\ \A u \in Threads : StackFits(u, stack'[u])
         /\ LocksKept /\ TooksKept /\ NoNewDestroy /\ CallingKept
<1>1. /\ "disconnect" \in Fns /\ Listener \in Threads
      /\ Push(Listener, New("disconnect")) /\ stack[Listener] = <<>>
  BY DEF OnClose, Listening, Fns, Locking, Taking, Threads
<1>2. /\ New("disconnect").fn = "disconnect"
      /\ New("disconnect").lock = "no" /\ New("disconnect").took = {}
  BY <1>1, NewFits
<1>3. "disconnect" \in Bottom(Listener)
  BY DEF Bottom
<1>4. /\ Only(Listener, {}, {New("disconnect")})
      /\ StackFits(Listener, stack'[Listener])
  BY <1>1, <1>3, PushOnly
<1>5. LocksKept /\ TooksKept /\ NoNewDestroy /\ CallingKept
  BY <1>1, <1>2, <1>4, OnlyKeeps, OnlyCalls
     DEF Public, Whole, Sending
<1> QED BY <1>4, <1>5 DEF Only

\* Two frames at once, on an empty stack.
LEMMA PairKeeps ==
  ASSUME TypeOK, \A u \in Threads : StackFits(u, stack[u]),
         NEW t \in Threads, stack[t] = <<>>,
         NEW f \in Frames, NEW g \in Frames, FrameFits(f), FrameFits(g),
         f.fn \in Bottom(t), Calls(f, g),
         stack' = [stack EXCEPT ![t] = <<f, g>>]
  PROVE  /\ stack' \in [Threads -> Seq(Frames)]
         /\ \A u \in Threads : StackFits(u, stack'[u])
         /\ \A u \in Threads : u # t => stack'[u] = stack[u]
         /\ DOMAIN stack'[t] = {1, 2}
         /\ stack'[t][1] = f /\ stack'[t][2] = g
<1> DEFINE s == <<f, g>>
<1>1. s \in Seq(Frames) /\ DOMAIN s = {1, 2} /\ s[1] = f /\ s[2] = g
  <2>1. s \in Seq(Frames) /\ Len(s) = 2 /\ s[1] = f /\ s[2] = g
    OBVIOUS
  <2> QED BY <2>1, DomainIs
<1> HIDE DEF s
<1>2. StackFits(t, s)
  <2>1. \A i \in DOMAIN s : FrameFits(s[i])
    BY <1>1
  <2>2. \A i \in DOMAIN s : i + 1 \in DOMAIN s => i = 1
    BY <1>1
  <2> QED BY <1>1, <2>1, <2>2 DEF StackFits
<1>3. /\ stack' \in [Threads -> Seq(Frames)] /\ stack'[t] = s
      /\ \A u \in Threads : u # t => stack'[u] = stack[u]
  BY <1>1 DEF TypeOK, s
<1> QED BY <1>1, <1>2, <1>3

LEMMA ParseKeeps ==
  ASSUME TypeOK, \A u \in Threads : StackFits(u, stack[u]),
         NEW fn \in Handlers \cup {"send_node_error"}, ParseMessage(fn)
  PROVE  /\ stack' \in [Threads -> Seq(Frames)]
         /\ \A u \in Threads : StackFits(u, stack'[u])
         /\ LocksKept /\ TooksKept /\ NoNewDestroy /\ CallingKept
<1>1. PICK at \in TryBlocks(fn) :
        stack' = [stack EXCEPT ![Listener] =
                    <<[New("parse") EXCEPT !.at = at], New(fn)>>]
  BY DEF ParseMessage
<1> DEFINE f == [New("parse") EXCEPT !.at = at]
           g == New(fn)
<1>2. at \in {"trying_call", "trying", "caught"}
  BY DEF TryBlocks
<1>3. /\ fn \in Fns /\ fn # "destroy"
      /\ "parse" \in Fns /\ "parse" \notin Locking
      /\ Listener \in Threads /\ stack[Listener] = <<>>
  BY DEF Fns, Handlers, Locking, Whole, Taking, Threads, ParseMessage, Listening
<1>4. /\ g \in Frames /\ FrameFits(g) /\ g.fn = fn /\ g.lock = "no"
      /\ g.took = {}
  BY <1>3, NewFits
<1>5. /\ New("parse") \in Frames /\ New("parse").fn = "parse"
      /\ New("parse").lock = "no" /\ New("parse").took = {}
  BY <1>3, NewFits
<1>6. /\ f \in Frames /\ f.fn = "parse" /\ f.at = at /\ f.lock = "no"
      /\ f.took = {}
  BY <1>2, <1>5 DEF Frames, Points
<1> HIDE DEF f, g
<1>7. FrameFits(f)
  BY <1>2, <1>3, <1>6 DEF FrameFits, Inside, Holding, Erasing
<1>8. f.fn \in Bottom(Listener) /\ Calls(f, g)
  BY <1>4, <1>6 DEF Bottom, Calls
<1>9. /\ stack' \in [Threads -> Seq(Frames)]
      /\ \A u \in Threads : StackFits(u, stack'[u])
      /\ \A u \in Threads : u # Listener => stack'[u] = stack[u]
      /\ DOMAIN stack'[Listener] = {1, 2}
      /\ stack'[Listener][1] = f /\ stack'[Listener][2] = g
  <2>1. stack' = [stack EXCEPT ![Listener] = <<f, g>>]
    BY <1>1 DEF f, g
  <2> QED BY <1>3, <1>4, <1>6, <1>7, <1>8, <2>1, PairKeeps
<1>10. LocksKept
  BY <1>4, <1>6, <1>9 DEF LocksKept
<1>11. TooksKept
  BY <1>4, <1>6, <1>9 DEF TooksKept
<1>12. NoNewDestroy
  BY <1>3, <1>4, <1>6, <1>9 DEF NoNewDestroy
<1>13. CallingKept
  <2>1. f.fn \notin Public /\ f.fn # "callback"
    BY <1>6 DEF Public, Whole, Sending
  <2>2. \A i \in DOMAIN stack'[Listener] :
          i = 1 \/ (i = 2 /\ i > 1 /\ i - 1 = 1)
    BY <1>9
  <2>3. ~Calling(Listener)'
    BY <1>9, <2>1, <2>2 DEF Calling
  <2> QED BY <1>9, <2>3 DEF CallingKept, Calling
<1> QED BY <1>9, <1>10, <1>11, <1>12, <1>13
-----------------------------------------------------------------------------
(* The end of the Peer.                                                    *)

\* Where the frame is that moved on.
LEMMA MovedOn ==
  ASSUME TypeOK, NEW t \in Threads, stack[t] # <<>>, NEW f \in Frames,
         Become(t, f) \/ \E fn \in Fns : BecomeAndCall(t, f, fn)
  PROVE  stack'[t][Len(stack[t])] = f
<1> DEFINE b == SubSeq(stack[t], 1, Len(stack[t]) - 1)
           n == Len(stack[t])
           r == Append(b, f)
<1>1. /\ b \in Seq(Frames) /\ Len(b) + 1 = n /\ n \in Nat \ {0}
  BY BelowIs, DomainIs DEF TypeOK
<1>2. \/ stack'[t] = r
      \/ \E fn \in Fns : stack'[t] = Append(r, New(fn))
  BY DEF TypeOK, Become, BecomeAndCall, Below
<1> HIDE DEF b, n
<1>3. /\ r \in Seq(Frames) /\ Len(r) = n /\ r[n] = f
  BY <1>1, PushedIs
<1> HIDE DEF r
<1>4. \A fn \in Fns : Append(r, New(fn))[n] = f
  <2> TAKE fn \in Fns
  <2>1. New(fn) \in Frames
    BY NewFits
  <2>2. n \in 1 .. n
    BY <1>1
  <2> QED BY <1>3, <2>1, <2>2, PushedIs
<1>5. stack'[t][n] = f
  BY <1>2, <1>3, <1>4
<1> QED BY <1>5 DEF n

\* Who refers to nothing does not come to do so.
LEMMA UnreferencedStays ==
  ASSUME ~Referenced, CallingKept, owned' => owned,
         event' = "keep" => event = "keep" \/ \E t \in Threads : Calling(t),
         \A t \in Threads : \A i \in DOMAIN stack'[t] :
           "keep" \in stack'[t][i].took =>
             event = "keep" \/ \E j \in DOMAIN stack[t] : "keep" \in stack[t][j].took
  PROVE  ~Referenced'
<1>1. /\ ~owned /\ event # "keep"
      /\ \A t \in Threads : ~Calling(t) /\ ~Keeping(t)
  BY DEF Referenced
<1>2. \A t \in Threads : ~Calling(t)'
  BY <1>1 DEF CallingKept
<1>3. \A t \in Threads : ~Keeping(t)'
  BY <1>1 DEF Keeping
<1> QED BY <1>1, <1>2, <1>3 DEF Referenced

\* The last reference goes with the event of keep_until_disconnected.
LEMMA DyingKeeps ==
  ASSUME LInv, NEW t \in Threads, Dies(t)
  PROVE  /\ stack' \in [Threads -> Seq(Frames)]
         /\ \A u \in Threads : StackFits(u, stack'[u])
         /\ LocksKept /\ TooksKept /\ EndIsLonely'
<1> DEFINE g == Top(t)
           f == [g EXCEPT !.at = "topics", !.took = @ \cap {"request"}]
           n == Len(stack[t])
<1>1. /\ TypeOK /\ (\A u \in Threads : StackFits(u, stack[u]))
      /\ EndIsLonely /\ TakenOnce
  BY DEF LInv
<1>2. /\ stack[t] # <<>> /\ g \in Frames /\ FrameFits(g)
      /\ g.fn = "disconnect" /\ g.at = "event" /\ "keep" \in g.took
  BY <1>1, AtIs DEF Dies, RunEvent
<1>3. /\ BecomeAndCall(t, f, "destroy")
      /\ ~owned /\ event # "keep" /\ UNCHANGED <<owned, event, peer>>
      /\ \A u \in Threads : ~Calling(u) /\ (u # t => ~Keeping(u))
  BY DEF Dies, RunEvent
<1>4. n \in DOMAIN stack[t] /\ g = stack[t][n]
  BY <1>1, <1>2, TopIs
<1>5. ~Destroying /\ peer # "destroyed"
  BY <1>1, <1>2, <1>4 DEF EndIsLonely, Referenced, Keeping
<1> HIDE DEF g, n
<1>6. /\ f \in Frames /\ f.fn = "disconnect" /\ f.at = "topics"
      /\ f.lock = g.lock /\ f.took = g.took \cap {"request"}
  BY <1>2 DEF Frames, Points, Slots
<1> HIDE DEF f
<1>7. FrameFits(f)
  BY <1>2, <1>6 DEF FrameFits, Inside, Holding, Erasing
<1>8. /\ "destroy" \in Fns /\ New("destroy").fn = "destroy"
      /\ New("destroy").lock = "no" /\ New("destroy").took = {}
  <2>1. "destroy" \in Fns
    BY DEF Fns
  <2> QED BY <2>1, NewFits
<1>9. /\ Only(t, {f}, {New("destroy")})
      /\ StackFits(t, stack'[t])
  <2>1. \A i \in DOMAIN stack[t] : Calls(stack[t][i], g) => Calls(stack[t][i], f)
    BY <1>2, <1>6 DEF Calls
  <2>2. Calls(f, New("destroy"))
    BY <1>6, <1>8 DEF Calls
  <2> QED BY <1>1, <1>2, <1>3, <1>6, <1>7, <1>8, <2>1, <2>2,
             BecomeAndCallOnly DEF g
<1>10. LocksKept /\ TooksKept /\ CallingKept
  <2>1. LocksKept /\ TooksKept
    BY <1>1, <1>2, <1>6, <1>8, <1>9, OnlyKeeps DEF g
  <2>2. "destroy" \notin Public
    BY DEF Public, Whole, Sending
  <2> QED BY <1>1, <1>2, <1>6, <1>8, <1>9, <2>1, <2>2, OnlyCalls DEF g
<1>11. stack'[t][n] = f
  BY <1>1, <1>2, <1>3, <1>6, <1>8, MovedOn DEF n
<1>12. ASSUME NEW u \in Threads, NEW i \in DOMAIN stack'[u],
              "keep" \in stack'[u][i].took
       PROVE  FALSE
  <2>1. i \in DOMAIN stack[u] /\ "keep" \in stack[u][i].took
    BY <1>10, <1>12 DEF TooksKept
  <2>2. u = t /\ i = n
    BY <1>1, <1>2, <1>4, <2>1 DEF TakenOnce
  <2> QED BY <1>6, <1>11, <1>12, <2>2
<1>13. ~Referenced'
  <2>1. \A u \in Threads : ~Calling(u)'
    BY <1>3, <1>10 DEF CallingKept
  <2>2. \A u \in Threads : ~Keeping(u)'
    BY <1>12 DEF Keeping
  <2> QED BY <1>3, <2>1, <2>2 DEF Referenced
<1>14. ASSUME NEW u \in Threads, NEW i \in DOMAIN stack'[u],
              stack'[u][i].fn = "destroy"
       PROVE  u = t /\ i = n + 1
  <2>1. \A v \in Threads : \A j \in DOMAIN stack[v] : stack[v][j].fn # "destroy"
    BY <1>5 DEF Destroying
  <2> QED BY <1>6, <1>9, <1>14, <2>1 DEF Only, n
<1>15. EndIsLonely'
  BY <1>3, <1>5, <1>13, <1>14 DEF EndIsLonely
<1> QED BY <1>1, <1>9, <1>10, <1>15 DEF Only

\* The last reference goes elsewhere.
LEMMA DestroyKeeps ==
  ASSUME LInv, NEW t \in Threads, Destroy(t)
  PROVE  /\ stack' \in [Threads -> Seq(Frames)]
         /\ \A u \in Threads : StackFits(u, stack'[u])
         /\ LocksKept /\ TooksKept /\ EndIsLonely'
<1> DEFINE n == Len(stack[t])
<1>1. TypeOK /\ (\A u \in Threads : StackFits(u, stack[u]))
  BY DEF LInv
<1>2. /\ peer = "alive" /\ ~Referenced /\ ~Destroying
      /\ Push(t, New("destroy"))
      /\ stack[t] = <<>> => t # Listener
      /\ stack[t] # <<>> => Top(t).fn = "callback"
      /\ UNCHANGED <<owned, event, peer>>
  BY ListenerAssumption DEF Destroy, At, members
<1>3. /\ "destroy" \in Fns /\ New("destroy").fn = "destroy"
      /\ New("destroy").lock = "no" /\ New("destroy").took = {}
  <2>1. "destroy" \in Fns
    BY DEF Fns
  <2> QED BY <2>1, NewFits
<1>4. Only(t, {}, {New("destroy")}) /\ StackFits(t, stack'[t])
  <2>1. stack[t] = <<>> => "destroy" \in Bottom(t)
    BY <1>2 DEF Bottom
  <2>2. stack[t] # <<>> => Calls(Top(t), New("destroy"))
    BY <1>2, <1>3 DEF Calls
  <2> QED BY <1>1, <1>2, <1>3, <2>1, <2>2, PushOnly
<1>5. LocksKept /\ TooksKept /\ CallingKept
  <2>1. LocksKept /\ TooksKept
    BY <1>1, <1>3, <1>4, OnlyKeeps
  <2>2. "destroy" \notin Public
    BY DEF Public, Whole, Sending
  <2> QED BY <1>1, <1>3, <1>4, <2>1, <2>2, OnlyCalls
<1>6. ~Referenced'
  BY <1>2, <1>5, UnreferencedStays DEF TooksKept
<1>7. ASSUME NEW u \in Threads, NEW i \in DOMAIN stack'[u],
             stack'[u][i].fn = "destroy"
      PROVE  u = t /\ i = n + 1
  <2>1. \A v \in Threads : \A j \in DOMAIN stack[v] : stack[v][j].fn # "destroy"
    BY <1>2 DEF Destroying
  <2> QED BY <1>4, <1>7, <2>1 DEF Only
<1>8. EndIsLonely'
  BY <1>2, <1>6, <1>7 DEF EndIsLonely
<1> QED BY <1>1, <1>4, <1>5, <1>8 DEF Only

\* The end is lonely as long as nobody comes to refer to the Peer.
LEMMA LonelyStays ==
  ASSUME EndIsLonely, NoNewDestroy, peer' = "destroyed" => peer = "destroyed",
         Destroying \/ peer = "destroyed" => ~Referenced'
  PROVE  EndIsLonely'
<1>1. Destroying' => Destroying
  BY DEF Destroying, NoNewDestroy
<1>2. \A t, u \in Threads : \A i \in DOMAIN stack'[t], j \in DOMAIN stack'[u] :
        stack'[t][i].fn = "destroy" /\ stack'[u][j].fn = "destroy"
          => t = u /\ i = j
  BY DEF EndIsLonely, NoNewDestroy
<1> QED BY <1>1, <1>2 DEF EndIsLonely
-----------------------------------------------------------------------------
(* Every step.                                                             *)

\* The other variables.
MembersFit ==
  /\ raised' \in [Threads -> BOOLEAN]
  /\ conn' \in {"set", "reset"} /\ carrier' \in {"up", "down"}
  /\ peer' \in {"alive", "destroyed"} /\ owned' \in BOOLEAN
  /\ event' \in {"none", "plain", "keep"}
  /\ topic_map' \in {"none", "bare", "request"}
  /\ given' \in [Kinds -> Nat] /\ told' \in [Kinds -> Nat]
  /\ late' \in BOOLEAN /\ budget' \in Nat

\* The steps of t that set one of them.
Sets(t) ==
  \/ OnDisconnect(t) \/ StartPublish(t) \/ OnUnsubscribe(t)
  \/ Unsubscribed(t) \/ RunEvent(t) \/ RunRequests(t) \/ Escape(t)
  \/ Destructor(t) \/ Disconnect(t)

LEMMA OthersSetNone ==
  ASSUME NEW t, Step(t) \/ FlushEnds(t), ~Sets(t)
  PROVE  /\ UNCHANGED <<members, budget>>
         /\ \/ UNCHANGED raised
            \/ \E b \in BOOLEAN : raised' = [raised EXCEPT ![t] = b]
BY DEF Step, Sets, Acquire, Relock, Update, Call, SetVar, Upload, Publish,
   FlushEnds, OnTopicUpdate, SendNodeError, Finish, EndDisconnect,
   SendUnlocked, IsConnected, OnMethodCall, Download, EndCallback, Resume,
   Throw, Unwind, Destroy

LEMMA MembersStep ==
  ASSUME TypeOK, [Next]_vars
  PROVE  MembersFit
<1>1. \A k \in Kinds :
        /\ [told EXCEPT ![k] = @ + 1] \in [Kinds -> Nat]
        /\ [given EXCEPT ![k] = @ + 1] \in [Kinds -> Nat]
  BY DEF TypeOK
<1>2. "event" \in Kinds /\ "request" \in Kinds
  BY DEF Kinds
<1>3. CASE OnClose \/ DropOwner \/ UNCHANGED vars
  BY <1>3 DEF OnClose, DropOwner, vars, TypeOK, MembersFit
<1>4. ASSUME NEW fn, ParseMessage(fn) PROVE MembersFit
  BY <1>4 DEF ParseMessage, members, TypeOK, MembersFit
<1>5. ASSUME NEW t \in Threads, NEW fn, Enter(t, fn) PROVE MembersFit
  BY <1>5 DEF Enter, members, TypeOK, MembersFit
<1>6. ASSUME NEW t \in Threads, Step(t) \/ FlushEnds(t), ~Sets(t)
      PROVE  /\ UNCHANGED <<members, budget>>
             /\ raised' \in [Threads -> BOOLEAN]
  BY <1>6, OthersSetNone DEF TypeOK
<1>7. ASSUME NEW t \in Threads, Sets(t) PROVE MembersFit
  <2>1. CASE OnDisconnect(t)
    BY <1>1, <1>2, <2>1 DEF OnDisconnect, TypeOK, MembersFit
  <2>2. CASE StartPublish(t) \/ OnUnsubscribe(t) \/ Unsubscribed(t)
    BY <1>1, <1>2, <2>2
       DEF StartPublish, OnUnsubscribe, Unsubscribed, TypeOK, MembersFit
  <2>3. CASE RunEvent(t) \/ RunRequests(t)
    BY <1>1, <1>2, <2>3 DEF RunEvent, RunRequests, TypeOK, MembersFit
  <2>4. CASE Escape(t) \/ Destructor(t) \/ Disconnect(t)
    BY <2>4 DEF Escape, Destructor, Disconnect, members, TypeOK, MembersFit
  <2> QED BY <1>7, <2>1, <2>2, <2>3, <2>4 DEF Sets
<1>8. ASSUME NEW t \in Threads, Step(t) \/ FlushEnds(t) PROVE MembersFit
  <2>1. CASE Sets(t)
    BY <1>7, <2>1
  <2>2. CASE ~Sets(t)
    BY <1>6, <1>8, <2>2 DEF members, TypeOK, MembersFit
  <2> QED BY <2>1, <2>2
<1> QED BY <1>3, <1>4, <1>5, <1>8 DEF Next

\* A step is quiet, or one of those that are not.
LEMMA StepIsQuiet ==
  ASSUME TypeOK, NEW t \in Threads, StackFits(t, stack[t]),
         Step(t) \/ FlushEnds(t),
         ~Acquire(t), ~(Disconnect(t) /\ conn = "set"), ~Dies(t), ~Destroy(t)
  PROVE  \/ Quiet(t)
         \/ /\ Relock(t) /\ "unique" \notin Held(t)
            /\ Mode(Top(t).fn) = "shared" /\ Free(t, "shared")
            /\ Become(t, [Top(t) EXCEPT !.at = "in", !.lock = "shared"])
<1>1. CASE Relock(t)
  BY <1>1, NoRelockIsQuiet DEF Relock
<1>2. CASE ~Relock(t)
  <2>1. conn # "set" => conn = "reset"
    BY DEF TypeOK
  <2> QED BY <1>2, <2>1, LockedIsQuiet, DisconnectingIsQuiet,
             ReturningIsQuiet, SendingIsQuiet, UnlockedIsQuiet DEF Step
<1> QED BY <1>1, <1>2
\* The disconnect() that comes first.
Takes(t) == Disconnect(t) /\ conn = "set"

\* ~Peer is done.
Dead(t) == Destructor(t) /\ At(t, "destroy", "nested")

LEMMA MembersOfStep ==
  ASSUME NEW t, Step(t) \/ FlushEnds(t), ~Dead(t)
  PROVE  /\ UNCHANGED <<peer, owned>>
         /\ event' = "keep" => event = "keep" \/ At(t, "on_disconnect", "start")
<1>1. CASE Sets(t)
  BY <1>1 DEF Sets, Dead, OnDisconnect, StartPublish, OnUnsubscribe,
     Unsubscribed, RunEvent, RunRequests, Escape, Destructor,
     Disconnect, members
<1>2. CASE ~Sets(t)
  BY <1>2, OthersSetNone DEF members
<1> QED BY <1>1, <1>2

\* on_disconnect is called by the application.
LEMMA OnDisconnectIsCalling ==
  ASSUME NEW t \in Threads, stack[t] \in Seq(Frames), StackFits(t, stack[t]),
         At(t, "on_disconnect", "start")
  PROVE  Calling(t)
<1> DEFINE s == stack[t]
           n == Len(s)
<1>1. /\ StackFits(t, s) /\ s[n].fn = "on_disconnect" /\ n \in Nat \ {0}
      /\ DOMAIN s = 1 .. n
  BY DomainIs DEF At, Top
<1>2. s[n].fn \in Public /\ n \in DOMAIN s
  BY <1>1 DEF Public
<1> HIDE DEF n
<1>3. n > 1 => s[n - 1].fn = "callback"
  <2> SUFFICES ASSUME n > 1 PROVE s[n - 1].fn = "callback"
    OBVIOUS
  <2> DEFINE k == n - 1
  <2>1. k \in DOMAIN s /\ k + 1 = n
    BY <1>1
  <2> HIDE DEF k, s
  <2>2. Calls(s[k], s[n])
    BY <1>1, <1>2, <2>1 DEF StackFits
  <2>3. s[k].fn = "callback"
    BY <1>1, <2>2 DEF Calls, Handlers
  <2> QED BY <2>3 DEF k
<1> QED BY <1>2, <1>3 DEF Calling, s

\* What every step keeps of the stacks.
StacksKept ==
  /\ stack' \in [Threads -> Seq(Frames)]
  /\ \A u \in Threads : StackFits(u, stack'[u])
  /\ WriterIsAlone'
  /\ EndIsLonely'

\* What comes from outside finds a reference, or does not make one.
LEMMA OutsideStep ==
  ASSUME LInv,
         \/ OnClose \/ DropOwner \/ UNCHANGED vars
         \/ \E fn \in Handlers \cup {"send_node_error"} : ParseMessage(fn)
         \/ \E t \in Threads : \E fn \in Public : Enter(t, fn)
  PROVE  StacksKept /\ TooksKept
<1>1. /\ TypeOK /\ (\A u \in Threads : StackFits(u, stack[u]))
      /\ WriterIsAlone /\ EndIsLonely
  BY DEF LInv
<1>2. ASSUME TooksKept, CallingKept, NoNewDestroy, LocksKept,
             UNCHANGED <<peer, event>>, owned' => owned,
             stack' \in [Threads -> Seq(Frames)],
             \A u \in Threads : StackFits(u, stack'[u])
      PROVE  StacksKept /\ TooksKept
  <2>1. ~Referenced => ~Referenced'
    BY <1>2, UnreferencedStays DEF TooksKept
  <2>2. EndIsLonely'
    BY <1>1, <1>2, <2>1, LonelyStays DEF EndIsLonely
  <2> QED BY <1>1, <1>2, <2>2, LocksStay DEF StacksKept
<1>3. CASE OnClose
  BY <1>1, <1>2, <1>3, OnCloseKeeps DEF OnClose
<1>4. CASE DropOwner \/ UNCHANGED vars
  <2>1. UNCHANGED <<stack, peer, event>> /\ (owned' => owned)
    BY <1>4 DEF DropOwner, vars
  <2>2. Listener \in Threads /\ Quiet(Listener)
    BY <2>1 DEF Quiet, Threads
  <2> QED BY <1>1, <1>2, <2>1, <2>2, QuietKeeps
<1>5. ASSUME NEW fn \in Handlers \cup {"send_node_error"}, ParseMessage(fn)
      PROVE  StacksKept /\ TooksKept
  <2>1. UNCHANGED <<peer, owned, event>>
    BY <1>5 DEF ParseMessage, members
  <2> QED BY <1>1, <1>2, <1>5, <2>1, ParseKeeps
<1>6. ASSUME NEW t \in Threads, NEW fn \in Public, Enter(t, fn)
      PROVE  StacksKept /\ TooksKept
  <2>1. /\ stack' \in [Threads -> Seq(Frames)]
        /\ \A u \in Threads : StackFits(u, stack'[u])
        /\ LocksKept /\ TooksKept /\ NoNewDestroy
    BY <1>1, <1>6, EnterKeeps
  <2>2. Referenced /\ UNCHANGED peer
    BY <1>6 DEF Enter, members
  <2>3. EndIsLonely'
    BY <1>1, <2>1, <2>2, LonelyStays DEF EndIsLonely
  <2> QED BY <1>1, <2>1, <2>3, LocksStay DEF StacksKept
<1> QED BY <1>3, <1>4, <1>5, <1>6

\* A thread goes on.
LEMMA ThreadStep ==
  ASSUME LInv, NEW t \in Threads, Step(t) \/ FlushEnds(t)
  PROVE  StacksKept /\ (TooksKept \/ Takes(t))
<1>1. /\ TypeOK /\ (\A u \in Threads : StackFits(u, stack[u]))
      /\ WriterIsAlone /\ EndIsLonely
  BY DEF LInv
<1>2. ASSUME ~Dead(t), NoNewDestroy, CallingKept,
             \A u \in Threads : \A i \in DOMAIN stack'[u] :
               "keep" \in stack'[u][i].took =>
                 \/ event = "keep"
                 \/ \E j \in DOMAIN stack[u] : "keep" \in stack[u][j].took
      PROVE  EndIsLonely'
  <2>1. /\ UNCHANGED <<peer, owned>>
        /\ event' = "keep" => event = "keep" \/ At(t, "on_disconnect", "start")
    BY <1>2, MembersOfStep
  <2>2. event' = "keep" => event = "keep" \/ Calling(t)
    BY <1>1, <2>1, OnDisconnectIsCalling DEF TypeOK
  <2>3. ~Referenced => ~Referenced'
    BY <1>2, <2>1, <2>2, UnreferencedStays
  <2> QED BY <1>1, <1>2, <2>1, <2>3, LonelyStays DEF EndIsLonely
<1>3. CASE Dies(t)
  BY <1>1, <1>3, DyingKeeps, LocksStay DEF StacksKept
<1>4. CASE Destroy(t)
  BY <1>1, <1>4, DestroyKeeps, LocksStay DEF StacksKept
<1>5. CASE Takes(t)
  <2>1. /\ stack' \in [Threads -> Seq(Frames)]
        /\ \A u \in Threads : StackFits(u, stack'[u])
        /\ LocksKept /\ NoNewDestroy /\ CallingKept
        /\ \A u \in Threads : \A i \in DOMAIN stack'[u] :
              \/ i \in DOMAIN stack[u] /\ stack'[u][i] = stack[u][i]
              \/ /\ u = t /\ i = Len(stack[t])
                 /\ stack'[u][i].took = {event, topic_map} \cap Slots
    BY <1>1, <1>5, TakingKeeps DEF Takes
  <2>2. ~Dead(t)
    BY <1>5 DEF Takes, Disconnect, Dead, At
  <2>3. topic_map # "keep"
    BY <1>1 DEF TypeOK
  <2>4. EndIsLonely'
    BY <1>2, <2>1, <2>2, <2>3
  <2> QED BY <1>1, <1>5, <2>1, <2>4, LocksStay DEF StacksKept
<1>6. CASE Dead(t)
  <2>1. /\ stack[t] # <<>> /\ Top(t).fn = "destroy" /\ Top(t).at = "nested"
        /\ Len(stack[t]) \in DOMAIN stack[t]
        /\ stack[t][Len(stack[t])].fn = "destroy"
    BY <1>1, <1>6, TopIs DEF Dead, At
  <2>2. Return(t) /\ UNCHANGED <<owned, event>>
    BY <1>6, <2>1 DEF Dead, Destructor, At
  <2>3. /\ Only(t, {}, {}) /\ StackFits(t, stack'[t])
        /\ Len(stack[t]) \notin DOMAIN stack'[t]
    BY <1>1, <2>1, <2>2, ReturnOnly
  <2>4. LocksKept /\ TooksKept /\ NoNewDestroy /\ CallingKept
    BY <1>1, <2>3, OnlyKeeps, OnlyCalls
  <2>5. /\ stack' \in [Threads -> Seq(Frames)]
        /\ \A u \in Threads : StackFits(u, stack'[u])
    BY <1>1, <2>3 DEF Only
  <2>6. ~Referenced
    BY <1>1, <2>1 DEF Destroying, EndIsLonely
  <2>7. ~Destroying'
    BY <1>1, <2>1, <2>3, <2>4 DEF Destroying, EndIsLonely, NoNewDestroy
  <2>8. ~Referenced'
    BY <2>2, <2>4, <2>6, UnreferencedStays DEF TooksKept
  <2>9. EndIsLonely'
    BY <2>7, <2>8 DEF EndIsLonely, Destroying
  <2> QED BY <1>1, <2>4, <2>5, <2>9, LocksStay DEF StacksKept
<1>7. CASE /\ Entering(t) /\ Free(t, Mode(Top(t).fn))
           /\ \/ Held(t) = {}
              \/ Mode(Top(t).fn) = "shared" /\ "unique" \notin Held(t)
           /\ Become(t, [Top(t) EXCEPT !.at = "in", !.lock = Mode(Top(t).fn)])
  <2>1. /\ stack' \in [Threads -> Seq(Frames)]
        /\ \A u \in Threads : StackFits(u, stack'[u])
        /\ WriterIsAlone'
        /\ TooksKept /\ NoNewDestroy /\ CallingKept
    BY <1>1, <1>7, GrantKeeps
  <2>2. ~Dead(t)
    BY <1>7 DEF Entering, Dead, At
  <2>3. EndIsLonely'
    BY <1>2, <2>1, <2>2 DEF TooksKept
  <2> QED BY <2>1, <2>3 DEF StacksKept
<1>8. CASE Quiet(t) /\ ~Dead(t)
  <2>1. /\ stack' \in [Threads -> Seq(Frames)]
        /\ \A u \in Threads : StackFits(u, stack'[u])
        /\ LocksKept /\ TooksKept /\ NoNewDestroy /\ CallingKept
    BY <1>1, <1>8, QuietKeeps
  <2>2. EndIsLonely'
    BY <1>2, <1>8, <2>1 DEF TooksKept
  <2> QED BY <1>1, <2>1, <2>2, LocksStay DEF StacksKept
<1>9. CASE Acquire(t)
  BY <1>7, <1>9 DEF Acquire
<1>10. CASE ~(Acquire(t) \/ Dies(t) \/ Destroy(t) \/ Takes(t) \/ Dead(t))
  <2>1. \/ Quiet(t)
        \/ /\ Relock(t) /\ "unique" \notin Held(t)
           /\ Mode(Top(t).fn) = "shared" /\ Free(t, "shared")
           /\ Become(t, [Top(t) EXCEPT !.at = "in", !.lock = "shared"])
    BY <1>1, <1>10, StepIsQuiet DEF Takes
  <2>2. CASE /\ Relock(t) /\ "unique" \notin Held(t)
             /\ Mode(Top(t).fn) = "shared" /\ Free(t, "shared")
             /\ Become(t, [Top(t) EXCEPT !.at = "in", !.lock = "shared"])
    BY <1>7, <2>2 DEF Relock
  <2> QED BY <1>8, <1>10, <2>1, <2>2
<1> QED BY <1>3, <1>4, <1>5, <1>6, <1>9, <1>10
LEMMA StacksStep ==
  ASSUME LInv, [Next]_vars
  PROVE  StacksKept /\ (TooksKept \/ \E t \in Threads : Takes(t))
BY OutsideStep, ThreadStep DEF Next

-----------------------------------------------------------------------------
(* Notifications.                                                          *)

\* _conn is not set again.
LEMMA ConnStep ==
  ASSUME [Next]_vars
  PROVE  conn = "reset" => conn' = "reset"
<1>1. CASE OnClose \/ DropOwner \/ UNCHANGED vars
  BY <1>1 DEF OnClose, DropOwner, vars
<1>2. ASSUME NEW fn, ParseMessage(fn) PROVE UNCHANGED conn
  BY <1>2 DEF ParseMessage, members
<1>3. ASSUME NEW t \in Threads, NEW fn, Enter(t, fn) PROVE UNCHANGED conn
  BY <1>3 DEF Enter, members
<1>4. ASSUME NEW t \in Threads, Step(t) \/ FlushEnds(t)
      PROVE  conn = "reset" => conn' = "reset"
  <2>1. CASE ~Sets(t)
    BY <1>4, <2>1, OthersSetNone DEF members
  <2>2. CASE Sets(t)
    BY <2>2 DEF Sets, OnDisconnect, StartPublish, OnUnsubscribe, Unsubscribed,
       RunEvent, RunRequests, Escape, Destructor, Disconnect, members
  <2> QED BY <2>1, <2>2
<1> QED BY <1>1, <1>2, <1>3, <1>4 DEF Next

LEMMA TakenOnceStep ==
  ASSUME LInv, [Next]_vars
  PROVE  TakenOnce'
<1>1. TypeOK /\ TakenOnce /\ \A u \in Threads : StackFits(u, stack[u])
  BY DEF LInv
<1>2. CASE TooksKept
  <2>1. ASSUME NEW t \in Threads, NEW i \in DOMAIN stack'[t],
               stack'[t][i].took # {}
        PROVE  i \in DOMAIN stack[t] /\ stack[t][i].took # {}
    BY <1>2, <2>1 DEF TooksKept
  <2> QED BY <1>1, <2>1, ConnStep DEF TakenOnce
<1>3. ASSUME NEW t \in Threads, Takes(t) PROVE TakenOnce'
  <2>1. \A u \in Threads : \A i \in DOMAIN stack'[u] :
              \/ i \in DOMAIN stack[u] /\ stack'[u][i] = stack[u][i]
              \/ u = t /\ i = Len(stack[t])
    BY <1>1, <1>3, TakingKeeps DEF Takes
  <2>2. conn = "set" /\ conn' = "reset"
    BY <1>3 DEF Takes, Disconnect
  <2>3. \A u \in Threads : \A i \in DOMAIN stack[u] : stack[u][i].took = {}
    BY <1>1, <2>2 DEF TakenOnce
  <2> QED BY <2>1, <2>2, <2>3 DEF TakenOnce
<1> QED BY <1>2, <1>3, StacksStep

\* What is told, given and stored, and by whom.
LEMMA TalliesStep ==
  ASSUME TypeOK, [Next]_vars
  PROVE  \/ /\ UNCHANGED <<told, given, event>>
            /\ topic_map' = "request" => topic_map = "request"
         \/ /\ UNCHANGED <<told, topic_map>> /\ event' # "none"
            /\ given' = [given EXCEPT !["event"] = @ + 1]
         \/ /\ UNCHANGED <<told, event>>
            /\ given' = [given EXCEPT !["request"] = @ + 1]
         \/ \E t \in Threads :
              Unsubscribed(t) \/ Takes(t) \/ RunEvent(t) \/ RunRequests(t)
<1>1. CASE OnClose \/ DropOwner \/ UNCHANGED vars
  BY <1>1 DEF OnClose, DropOwner, vars
<1>2. ASSUME NEW fn, ParseMessage(fn)
      PROVE  UNCHANGED <<told, given, event, topic_map>>
  BY <1>2 DEF ParseMessage, members
<1>3. ASSUME NEW t \in Threads, NEW fn, Enter(t, fn)
      PROVE  UNCHANGED <<told, given, event, topic_map>>
  BY <1>3 DEF Enter, members
<1>4. ASSUME NEW t \in Threads, Step(t) \/ FlushEnds(t), ~Sets(t)
      PROVE  UNCHANGED <<told, given, event, topic_map>>
  BY <1>4, OthersSetNone DEF members
<1>5. ASSUME NEW t \in Threads,
             \/ Escape(t) \/ Destructor(t) \/ (Disconnect(t) /\ ~Takes(t))
      PROVE  UNCHANGED <<told, given, event, topic_map>>
  BY <1>5 DEF Escape, Destructor, Disconnect, Takes, members
<1>6. ASSUME NEW t \in Threads, StartPublish(t)
      PROVE  /\ UNCHANGED <<told, given, event>>
             /\ topic_map' = "request" => topic_map = "request"
  BY <1>6 DEF StartPublish
<1>7. ASSUME NEW t \in Threads, OnDisconnect(t)
      PROVE  /\ UNCHANGED <<told, topic_map>> /\ event' # "none"
             /\ given' = [given EXCEPT !["event"] = @ + 1]
  BY <1>7 DEF OnDisconnect
<1>8. ASSUME NEW t \in Threads, OnUnsubscribe(t)
      PROVE  \/ UNCHANGED <<told, given, event, topic_map>>
             \/ /\ UNCHANGED <<told, event>>
                /\ given' = [given EXCEPT !["request"] = @ + 1]
  BY <1>8 DEF OnUnsubscribe
<1> QED BY <1>1, <1>2, <1>3, <1>4, <1>5, <1>6, <1>7, <1>8 DEF Next, Sets

\* Who runs a notification has it no more.
LEMMA RunsOnce ==
  ASSUME LInv, NEW t \in Threads, TooksKept
  PROVE  /\ RunEvent(t) => \/ ~EventTaken' /\ EventTaken
                           \/ told' = told
         /\ RunRequests(t) => \/ ~RequestTaken' /\ RequestTaken
                              \/ told' = told
<1> DEFINE g == Top(t)
           n == Len(stack[t])
           f1 == [g EXCEPT !.at = "topics", !.took = @ \cap {"request"}]
           f2 == [g EXCEPT !.at = "loop", !.took = {}]
<1>1. /\ TypeOK /\ TakenOnce /\ \A u \in Threads : StackFits(u, stack[u])
  BY DEF LInv
<1>2. ASSUME RunEvent(t) \/ RunRequests(t)
      PROVE  /\ stack[t] # <<>> /\ g \in Frames /\ n \in DOMAIN stack[t]
             /\ g = stack[t][n]
  BY <1>1, <1>2, TopIs DEF RunEvent, RunRequests, At
<1>3. "callback" \in Fns /\ "destroy" \in Fns
  BY DEF Fns, Handlers
<1>4. RunEvent(t) => Become(t, f1) \/ \E fn \in Fns : BecomeAndCall(t, f1, fn)
  BY <1>3 DEF RunEvent
<1>5. RunRequests(t) => Become(t, f2) \/ \E fn \in Fns : BecomeAndCall(t, f2, fn)
  BY <1>3 DEF RunRequests
<1> HIDE DEF g, n
<1>6. g \in Frames => /\ f1 \in Frames /\ f1.took = g.took \cap {"request"}
                      /\ f2 \in Frames /\ f2.took = {}
  BY DEF Frames, Points, Slots
<1> HIDE DEF f1, f2
<1>7. ASSUME NEW u \in Threads, NEW i \in DOMAIN stack'[u],
             NEW x \in stack'[u][i].took, NEW y \in g.took,
             RunEvent(t) \/ RunRequests(t)
      PROVE  u = t /\ i = n
  <2>1. i \in DOMAIN stack[u] /\ x \in stack[u][i].took
    BY <1>7 DEF TooksKept
  <2> QED BY <1>1, <1>2, <1>7, <2>1 DEF TakenOnce
<1>8. ASSUME RunEvent(t), told' # told
      PROVE  ~EventTaken' /\ EventTaken
  <2>1. ~(g.took \subseteq {"request"})
    BY <1>8 DEF RunEvent, g
  <2>2. "plain" \in g.took \/ "keep" \in g.took
    BY <1>2, <1>8, <2>1 DEF Frames, Slots
  <2>3. EventTaken
    BY <1>2, <1>8, <2>2 DEF EventTaken
  <2>4. stack'[t][n] = f1
    BY <1>1, <1>2, <1>4, <1>6, <1>8, MovedOn DEF n
  <2>5. ~EventTaken'
    BY <1>2, <1>6, <1>7, <1>8, <2>2, <2>4 DEF EventTaken
  <2> QED BY <2>3, <2>5
<1>9. ASSUME RunRequests(t), told' # told
      PROVE  ~RequestTaken' /\ RequestTaken
  <2>1. "request" \in g.took
    BY <1>9 DEF RunRequests, g
  <2>2. RequestTaken
    BY <1>2, <1>9, <2>1 DEF RequestTaken
  <2>3. stack'[t][n] = f2
    BY <1>1, <1>2, <1>5, <1>6, <1>9, MovedOn DEF n
  <2>4. ~RequestTaken'
    BY <1>2, <1>6, <1>7, <1>9, <2>1, <2>3 DEF RequestTaken
  <2> QED BY <2>2, <2>4
<1> QED BY <1>8, <1>9

LEMMA NotYetToldStep ==
  ASSUME LInv, [Next]_vars
  PROVE  NotYetTold'
<1>1. /\ TypeOK /\ TakenOnce /\ NotYetTold
      /\ \A u \in Threads : StackFits(u, stack[u])
  BY DEF LInv
<1> DEFINE e == told["event"]
           r == told["request"]
           E == given["event"]
           R == given["request"]
<1>2. /\ e \in Nat /\ r \in Nat /\ E \in Nat /\ R \in Nat
      /\ DOMAIN told = Kinds /\ DOMAIN given = Kinds
      /\ "event" \in Kinds /\ "request" \in Kinds
  BY <1>1 DEF TypeOK, Kinds
<1>3. TooksKept => /\ EventTaken' => EventTaken
                   /\ RequestTaken' => RequestTaken
  BY DEF TooksKept, EventTaken, RequestTaken
<1>4. /\ e + One(event # "none") + One(EventTaken) <= E
      /\ r + One(topic_map = "request") + One(RequestTaken) <= R
  BY <1>1 DEF NotYetTold
<1>5. SUFFICES
        /\ e' + One(event' # "none") + One(EventTaken') <= E'
        /\ r' + One(topic_map' = "request") + One(RequestTaken') <= R'
  BY DEF NotYetTold, One
<1>6. ASSUME NEW t \in Threads, Takes(t)
      PROVE  /\ ~EventTaken /\ ~RequestTaken
             /\ EventTaken' => event # "none"
             /\ RequestTaken' => topic_map = "request"
  <2>1. \A u \in Threads : \A i \in DOMAIN stack'[u] :
              \/ i \in DOMAIN stack[u] /\ stack'[u][i] = stack[u][i]
              \/ stack'[u][i].took = {event, topic_map} \cap Slots
    BY <1>1, <1>6, TakingKeeps DEF Takes
  <2>2. \A u \in Threads : \A i \in DOMAIN stack[u] : stack[u][i].took = {}
    BY <1>1, <1>6 DEF TakenOnce, Takes
  <2>3. ~EventTaken /\ ~RequestTaken
    BY <2>2 DEF EventTaken, RequestTaken
  <2>4. \A u \in Threads : \A i \in DOMAIN stack'[u] :
          stack'[u][i].took \subseteq {event, topic_map}
    BY <2>1, <2>2
  <2>5. topic_map \notin {"plain", "keep"} /\ event # "request"
    BY <1>1 DEF TypeOK
  <2>6. EventTaken' => event # "none"
    BY <2>4, <2>5 DEF EventTaken
  <2>7. RequestTaken' => topic_map = "request"
    BY <2>4, <2>5 DEF RequestTaken
  <2> QED BY <2>3, <2>6, <2>7
<1>7. CASE \E t \in Threads : Takes(t)
  <2>1. PICK t \in Threads : Takes(t)
    BY <1>7
  <2>2. event' = "none" /\ topic_map' = "none" /\ UNCHANGED <<told, given>>
    BY <2>1 DEF Takes, Disconnect
  <2> HIDE DEF e, r, E, R
  <2>3. e' = e /\ r' = r /\ E' = E /\ R' = R
    BY <2>2 DEF e, r, E, R
  <2> QED BY <1>2, <1>4, <1>6, <2>1, <2>2, <2>3 DEF One
<1>8. CASE TooksKept /\ ~\E t \in Threads : Takes(t)
  <2>1. /\ EventTaken' => EventTaken
        /\ RequestTaken' => RequestTaken
    BY <1>3, <1>8
  <2>2. CASE /\ UNCHANGED <<told, given, event>>
             /\ topic_map' = "request" => topic_map = "request"
    <3> HIDE DEF e, r, E, R
    <3>1. e' = e /\ r' = r /\ E' = E /\ R' = R
      BY <2>2 DEF e, r, E, R
    <3> QED BY <1>2, <1>4, <2>1, <2>2, <3>1 DEF One
  <2>3. CASE /\ UNCHANGED <<told, topic_map>> /\ event' # "none"
             /\ given' = [given EXCEPT !["event"] = @ + 1]
    <3>1. e' = e /\ r' = r /\ E' = E + 1 /\ R' = R
      BY <1>2, <2>3
    <3> HIDE DEF e, r, E, R
    <3> QED BY <1>2, <1>4, <2>1, <2>3, <3>1 DEF One
  <2>4. CASE /\ UNCHANGED <<told, event>>
             /\ given' = [given EXCEPT !["request"] = @ + 1]
    <3>1. e' = e /\ r' = r /\ E' = E /\ R' = R + 1
      BY <1>2, <2>4
    <3> HIDE DEF e, r, E, R
    <3> QED BY <1>2, <1>4, <2>1, <2>4, <3>1 DEF One
  <2>5. ASSUME NEW t \in Threads, Unsubscribed(t) PROVE NotYetTold'
    <3>1. /\ UNCHANGED <<event, given>> /\ topic_map' = "none"
          /\ IF topic_map = "request"
             THEN told' = [told EXCEPT !["request"] = @ + 1]
             ELSE told' = told
      BY <2>5 DEF Unsubscribed
    <3>2. /\ e' = e /\ E' = E /\ R' = R
          /\ r' = IF topic_map = "request" THEN r + 1 ELSE r
      BY <1>2, <3>1
    <3> HIDE DEF e, r, E, R
    <3>3. /\ e' + One(event' # "none") + One(EventTaken') <= E'
          /\ r' + One(topic_map' = "request") + One(RequestTaken') <= R'
      BY <1>2, <1>4, <2>1, <3>1, <3>2 DEF One
    <3> QED BY <3>3 DEF NotYetTold, One, e, r, E, R
  <2>6. ASSUME NEW t \in Threads, RunEvent(t) PROVE NotYetTold'
    <3>1. /\ UNCHANGED <<event, topic_map, given>>
          /\ told' = told \/ told' = [told EXCEPT !["event"] = @ + 1]
      BY <2>6 DEF RunEvent
    <3>2. told' = told \/ (~EventTaken' /\ EventTaken)
      BY <1>8, <2>6, RunsOnce
    <3>3. /\ r' = r /\ E' = E /\ R' = R
          /\ e' = e \/ (e' = e + 1 /\ ~EventTaken' /\ EventTaken)
      BY <1>2, <3>1, <3>2
    <3> HIDE DEF e, r, E, R
    <3>4. /\ e' + One(event' # "none") + One(EventTaken') <= E'
          /\ r' + One(topic_map' = "request") + One(RequestTaken') <= R'
      BY <1>2, <1>4, <2>1, <3>1, <3>3 DEF One
    <3> QED BY <3>4 DEF NotYetTold, One, e, r, E, R
  <2>7. ASSUME NEW t \in Threads, RunRequests(t) PROVE NotYetTold'
    <3>1. /\ UNCHANGED <<event, topic_map, given>>
          /\ told' = told \/ told' = [told EXCEPT !["request"] = @ + 1]
      BY <2>7 DEF RunRequests
    <3>2. told' = told \/ (~RequestTaken' /\ RequestTaken)
      BY <1>8, <2>7, RunsOnce
    <3>3. /\ e' = e /\ E' = E /\ R' = R
          /\ r' = r \/ (r' = r + 1 /\ ~RequestTaken' /\ RequestTaken)
      BY <1>2, <3>1, <3>2
    <3> HIDE DEF e, r, E, R
    <3>4. /\ e' + One(event' # "none") + One(EventTaken') <= E'
          /\ r' + One(topic_map' = "request") + One(RequestTaken') <= R'
      BY <1>2, <1>4, <2>1, <3>1, <3>3 DEF One
    <3> QED BY <3>4 DEF NotYetTold, One, e, r, E, R
  <2>8. NotYetTold' \/
        /\ e' + One(event' # "none") + One(EventTaken') <= E'
        /\ r' + One(topic_map' = "request") + One(RequestTaken') <= R'
    BY <1>1, <1>8, <2>2, <2>3, <2>4, <2>5, <2>6, <2>7, TalliesStep
  <2> QED BY <2>8 DEF NotYetTold, One
<1> QED BY <1>7, <1>8, StacksStep
LEMMA InitLInv == Init => LInv
<1> SUFFICES ASSUME Init PROVE LInv
  OBVIOUS
<1>1. /\ \A t \in Threads : stack[t] = <<>> /\ DOMAIN stack[t] = {}
      /\ Listener \in Threads
  BY DEF Init, Threads
<1>2. TypeOK
  <2>1. stack \in [Threads -> Seq(Frames)] /\ raised \in [Threads -> BOOLEAN]
    BY DEF Init
  <2>2. given \in [Kinds -> Nat] /\ told \in [Kinds -> Nat] /\ budget \in Nat
    BY BoundsAssumption DEF Init
  <2> QED BY <2>1, <2>2 DEF Init, TypeOK
<1>3. \A t \in Threads : StackFits(t, stack[t])
  BY <1>1 DEF StackFits
<1>4. WriterIsAlone
  BY <1>1 DEF WriterIsAlone, Held
<1>5. ~Destroying /\ ~EventTaken /\ ~RequestTaken
  BY <1>1 DEF Destroying, EventTaken, RequestTaken
<1>6. EndIsLonely
  BY <1>1, <1>5 DEF EndIsLonely, Init
<1>7. TakenOnce
  BY <1>1 DEF TakenOnce
<1>8. NotYetTold
  <2>1. /\ told["event"] = 0 /\ told["request"] = 0
        /\ given["event"] = 0 /\ given["request"] = 0
        /\ event = "none" /\ topic_map = "none"
    BY DEF Init, Kinds
  <2> QED BY <1>5, <2>1 DEF NotYetTold, One
<1> QED BY <1>2, <1>3, <1>4, <1>6, <1>7, <1>8 DEF LInv

LEMMA LInvStep == LInv /\ [Next]_vars => LInv'
<1> SUFFICES ASSUME LInv, [Next]_vars PROVE LInv'
  OBVIOUS
<1>1. TypeOK
  BY DEF LInv
<1>2. StacksKept /\ MembersFit
  BY <1>1, StacksStep, MembersStep
<1>3. TypeOK'
  BY <1>2 DEF StacksKept, MembersFit, TypeOK
<1>4. TakenOnce' /\ NotYetTold'
  BY TakenOnceStep, NotYetToldStep
<1> QED BY <1>2, <1>3, <1>4 DEF StacksKept, LInv

LEMMA AlwaysLInv == Spec => []LInv
BY InitLInv, LInvStep, PTL DEF Spec

-----------------------------------------------------------------------------
(* What follows.                                                           *)

\* The stacks, locks, members and histories are what the functions of
\* peer.cpp make of them, however deep callbacks nest.
THEOREM WellFormed == Spec => []TypeOK
<1>1. LInv => TypeOK
  BY DEF LInv
<1> QED BY <1>1, AlwaysLInv, PTL

\* on_disconnect's event and the UnsubscribeRequests run once at most,
\* whoever of U, disconnect() and ~Peer comes for them (peer.cpp:158-168,
\* 318-349).
THEOREM Once == Spec => []NotifiedOnce
<1>1. LInv => NotifiedOnce
  <2> SUFFICES ASSUME LInv PROVE NotifiedOnce
    OBVIOUS
  <2> DEFINE e == told["event"]
             r == told["request"]
             E == given["event"]
             R == given["request"]
  <2>1. /\ e \in Nat /\ r \in Nat /\ E \in Nat /\ R \in Nat
    BY DEF LInv, TypeOK, Kinds
  <2>2. /\ e + One(event # "none") + One(EventTaken) <= E
        /\ r + One(topic_map = "request") + One(RequestTaken) <= R
    BY DEF LInv, NotYetTold
  <2> HIDE DEF e, r, E, R
  <2>3. e <= E /\ r <= R
    BY <2>1, <2>2 DEF One
  <2> QED BY <2>3 DEF NotifiedOnce, Kinds, e, r, E, R
<1> QED BY <1>1, AlwaysLInv, PTL

\* A thread asks for Peer::_lock while it has it only out of a callback of a
\* call on a disconnected peer or of a topic's update, out of the destructor of
\* what is erased under the lock, or for the disconnect of a publishing
\* function or a node error.
THEOREM RelocksKnown == Spec => []RelocksAreKnown
<1>1. LInv => RelocksAreKnown
  <2> SUFFICES ASSUME LInv, NEW t \in Threads, stack[t] # <<>>,
                      Top(t).at \in {"enter", "stuck"},
                      NEW i \in DOMAIN stack[t], stack[t][i].lock # "no"
               PROVE  \/ /\ stack[t][i].fn
                                \in {"call", "on_topic_update"} \cup Erasing
                         /\ stack[t][i + 1].fn = "callback"
                      \/ /\ stack[t][i].fn \in {"publish", "send_node_error"}
                         /\ stack[t][i + 1].fn = "disconnect"
    BY DEF RelocksAreKnown
  <2>1. stack[t] \in Seq(Frames) /\ StackFits(t, stack[t]) /\ TypeOK
    BY DEF LInv, TypeOK
  <2>2. FrameFits(stack[t][i]) /\ FrameFits(Top(t))
    BY <2>1, TopIs DEF StackFits
  <2>3. Top(t).lock = "no"
    BY <2>2 DEF FrameFits, Inside
  <2>4. i # Len(stack[t])
    BY <2>3 DEF Top
  <2>5. i + 1 \in DOMAIN stack[t]
    BY <2>1, <2>4, DomainIs
  <2>6. Calls(stack[t][i], stack[t][i + 1])
    BY <2>1, <2>5 DEF StackFits
  <2>7. stack[t][i].fn \in Locking
    BY <2>2 DEF FrameFits
  <2>8. stack[t][i].at = "nested" => stack[t][i].fn \in Holding
    BY <2>2 DEF FrameFits, Inside
  <2>9. stack[t][i].at \in Inside \cup {"nested"}
    BY <2>2 DEF FrameFits
  <2> HIDE DEF LInv
  <2> QED BY <2>6, <2>7, <2>8, <2>9
         DEF Calls, Inside, Holding, Erasing, Locking, Whole, Taking
<1> QED BY <1>1, AlwaysLInv, PTL

\* Who writes a member that he may not, has the lock alone.
LEMMA WritersLock ==
  ASSUME NEW f, FrameFits(f), NEW m \in Writes(f), m \notin Unprotected(f)
  PROVE  f.lock = "unique"
<1>1. f.fn \in Locking /\ f.at \in Inside => f.lock = Mode(f.fn)
  BY DEF FrameFits
<1>2. f.lock # "no" => f.fn \in Locking /\ f.at \in Inside \cup {"nested"}
  BY DEF FrameFits
<1>3. /\ f.at = "use" => f.fn \in Sending
      /\ f.at = "flush" => f.fn = "publish"
      /\ f.at = "spin" => f.fn \in {"answer", "call", "upload", "publish"}
  BY DEF FrameFits
<1>4. CASE f.at \in {"flush", "spin", "use"}
  <2>1. m = "stream"
    BY <1>4 DEF Writes
  <2>2. f.fn \notin {"answer", "publish"}
    BY <2>1 DEF Unprotected
  <2>3. f.lock = "no" => f.fn \notin {"set_var", "upload"}
    BY <2>1 DEF Unprotected
  <2>4. f.at = "spin" /\ f.fn \in {"call", "upload"}
    <3>1. f.at = "use" => f.fn \in {"set_var", "upload"} /\ f.lock # "no"
      BY <1>3, <2>2, <2>3 DEF Sending
    <3>2. f.at # "use"
      BY <1>2, <3>1 DEF Inside
    <3> QED BY <1>3, <1>4, <2>2, <3>2
  <2> QED BY <1>1, <2>4 DEF Locking, Whole, Inside, Mode
<1>5. CASE f.at = "in"
  <2>1. f.fn # "publish"
    BY <1>5 DEF Writes, Unprotected
  <2>2. f.fn \in {"start_publish", "on_unsubscribe", "finish", "unsubscribed",
                  "set_var", "update", "call", "set_methods", "upload",
                  "send_node_error", "disconnect"}
    BY <1>5, <2>1 DEF Writes
  <2>3. f.fn \in Locking /\ Mode(f.fn) = "unique"
    BY <2>2 DEF Locking, Whole, Taking, Mode
  <2> QED BY <1>1, <1>5, <2>3 DEF Inside
<1>6. CASE f.at \notin {"in", "flush", "spin", "use"}
  BY <1>6 DEF Writes, Unprotected
<1> QED BY <1>4, <1>5, <1>6

\* Who reads one has the lock.
LEMMA ReadersLock ==
  ASSUME NEW f, FrameFits(f), NEW m \in Reads(f), m \notin Unprotected(f)
  PROVE  f.lock # "no"
<1>1. f.fn \in Locking /\ f.at \in Inside => f.lock = Mode(f.fn)
  BY DEF FrameFits
<1>2. f.fn \in Holding /\ f.at = "nested" => f.lock # "no"
  BY DEF FrameFits
<1>3. /\ f.at = "use" => f.fn \in Sending
      /\ f.at = "flush" => f.fn = "publish"
      /\ f.at = "spin" => f.fn \in {"answer", "call", "upload", "publish"}
  BY DEF FrameFits
<1>4. f.fn \in Locking /\ f.at \in Inside => f.lock # "no"
  BY <1>1 DEF Mode
<1>5. CASE f.at \in {"flush", "spin", "use"}
  <2>1. m \in {"_conn", "_upld_attachments"}
    BY <1>5 DEF Reads
  <2>2. f.fn # "answer"
    BY <2>1 DEF Unprotected
  <2>3. f.lock = "no" => f.fn \notin {"set_var", "upload"}
    BY <2>1 DEF Unprotected
  <2>4. f.at = "use" => f.lock # "no"
    BY <1>3, <2>2, <2>3 DEF Sending
  <2>5. f.at \in {"flush", "spin"} => f.lock # "no"
    BY <1>3, <1>4, <2>2 DEF Locking, Whole, Inside
  <2> QED BY <1>5, <2>4, <2>5
<1>6. CASE f.fn \in {"publish", "on_topic_update"} /\ f.at \in {"in", "nested"}
  BY <1>2, <1>4, <1>6 DEF Locking, Whole, Holding, Inside
<1>7. CASE f.fn \in Locking /\ f.at = "in"
  BY <1>4, <1>7 DEF Inside
<1>8. CASE f.fn \in Sending \cup {"is_connected"} /\ f.at = "start"
  <2>1. m = "_conn"
    BY <1>8, SMTT(30) DEF Reads, Sending
  <2> QED BY <1>8, <2>1 DEF Unprotected, Sending
<1>9. CASE f.fn = "on_method_call" /\ f.at = "start"
  BY <1>9 DEF Reads, Unprotected
<1> QED BY <1>5, <1>6, <1>7, <1>8, <1>9 DEF Reads

\* Two threads touch a member at once, one of them writing, only where a
\* function of peer.cpp uses the member without Peer::_lock, or publishes
\* under a lock it shares.
THEOREM UnlockedRace == Spec => []OnlyTheUnlockedRace
<1>1. LInv => OnlyTheUnlockedRace
  <2> SUFFICES
        ASSUME LInv, NEW t \in Threads, NEW u \in Threads, t # u,
               stack[t] # <<>>, stack[u] # <<>>, NEW m \in Members,
               Race(Top(t), Top(u), m),
               m \notin Unprotected(Top(t)), m \notin Unprotected(Top(u))
        PROVE  FALSE
    BY DEF OnlyTheUnlockedRace
  <2>1. TypeOK /\ WriterIsAlone /\ \A v \in Threads : StackFits(v, stack[v])
    BY DEF LInv
  <2>2. FrameFits(Top(t)) /\ FrameFits(Top(u))
    BY <2>1, TopIs
  <2>3. \A v \in {t, u} : Top(v).lock # "no" => Top(v).lock \in Held(v)
    BY <2>1, TopIs, HeldIs
  <2>4. Top(t).lock = "unique"
    BY <2>2, WritersLock DEF Race
  <2>5. Top(u).lock # "no"
    BY <2>2, WritersLock, ReadersLock DEF Race
  <2> QED BY <2>1, <2>3, <2>4, <2>5 DEF WriterIsAlone
<1> QED BY <1>1, AlwaysLInv, PTL

\* When ~Peer runs in one thread (peer.cpp:375-377), and after it, no thread
\* of the application is in a function of the Peer: who calls one holds a
\* reference, and the last is gone.
THEOREM LeftAlone == Spec => []ApplicationHasLeft
<1>1. LInv => ApplicationHasLeft
  <2> SUFFICES ASSUME LInv, Destroying \/ peer = "destroyed",
                      NEW t \in Apps, stack[t] # <<>>
               PROVE  stack[t][1].fn = "destroy" /\ peer = "alive"
    BY DEF ApplicationHasLeft
  <2>1. /\ ~Referenced /\ (peer = "destroyed" => ~Destroying)
        /\ peer \in {"alive", "destroyed"}
    BY DEF LInv, EndIsLonely, TypeOK
  <2>2. /\ t \in Threads /\ t # Listener
        /\ stack[t] \in Seq(Frames) /\ StackFits(t, stack[t])
    BY ListenerAssumption DEF LInv, TypeOK, Threads
  <2>3. 1 \in DOMAIN stack[t]
    BY <2>2, DomainIs
  <2>4. stack[t][1].fn \notin Public
    BY <2>1, <2>2, <2>3 DEF Referenced, Calling
  <2>5. stack[t][1].fn = "destroy"
    BY <2>2, <2>4 DEF StackFits, Bottom
  <2>6. Destroying
    BY <2>2, <2>3, <2>5 DEF Destroying
  <2> QED BY <2>1, <2>5, <2>6
<1> QED BY <1>1, AlwaysLInv, PTL
=============================================================================
