----------------------------- MODULE VarsProofs -----------------------------
(***************************************************************************)
(* Proofs about Vars, for any names, values and threads: the changes of a  *)
(* variable reach syncVar in the order they were made, unless two threads  *)
(* changed it at the same time.  What syncVar makes of them is another     *)
(* matter.                                                                 *)
(***************************************************************************)
EXTENDS Vars, TLAPS

\* While nothing raced for n, one thread at most has a change of n to
\* announce, and the change is the latest.
InOrder(n) ==
  n \notin raced =>
    /\ \A t, k \in Threads : Pending(t, n) /\ Pending(k, n) => t = k
    /\ \A t \in Threads : Pending(t, n) => changed[t][1].value = local[n]
    /\ (\A t \in Threads : ~Pending(t, n)) => last[n] = local[n]

IInv == TypeOK /\ \A n \in Names : InOrder(n)

\* What syncVar sends has the form of an announcement.
LEMMA SyncVarType ==
  ASSUME NEW c \in Changes, NEW m \in SyncVar(c)
  PROVE  m \in Changes
BY DEF SyncVar, Changes

\* The locked part of set() keeps the types and the order.
LEMMA AssignKeeps ==
  ASSUME IInv, NEW t \in Threads, NEW n \in Names,
         NEW v \in Values \cup {Unset}, changed[t] = <<>>,
         Assign(t, n, v), last' = last
  PROVE  /\ local' \in Maps /\ raced' \in SUBSET Names
         /\ changed' \in [Threads -> {<<>>} \cup {<<c>> : c \in Changes}]
         /\ \A k \in Names : InOrder(k)'
<1>1. CASE local[n] = v
  <2>1. local' = local /\ changed' = changed /\ raced' = raced
    BY <1>1 DEF Assign
  <2>2. QED
    BY <2>1 DEF IInv, TypeOK, InOrder, Pending
<1>2. CASE local[n] # v
  <2> DEFINE c == [name |-> n, value |-> v]
  <2>1. /\ local' = [local EXCEPT ![n] = v]
        /\ changed' = [changed EXCEPT ![t] = <<c>>]
        /\ raced' = IF \E k \in Threads : Pending(k, n)
                    THEN raced \cup {n} ELSE raced
    BY <1>2 DEF Assign
  <2>2. c \in Changes /\ c.name = n /\ c.value = v
    BY DEF Changes
  <2>3. /\ local \in Maps /\ raced \in SUBSET Names
        /\ changed \in [Threads -> {<<>>} \cup {<<d>> : d \in Changes}]
    BY DEF IInv, TypeOK
  <2> HIDE DEF c
  <2>4. local' \in Maps /\ raced' \in SUBSET Names
    BY <2>1, <2>3 DEF Maps
  <2>5. changed' \in [Threads -> {<<>>} \cup {<<d>> : d \in Changes}]
    BY <2>1, <2>2, <2>3
  <2>6. changed'[t] = <<c>> /\ changed'[t] # <<>> /\ changed'[t][1] = c
    BY <2>1, <2>3
  <2>7. \A k \in Threads \ {t} : changed'[k] = changed[k]
    BY <2>1, <2>3
  <2>8. ASSUME NEW m \in Names, m # n PROVE InOrder(m)'
    <3>1. local'[m] = local[m] /\ (m \in raced <=> m \in raced')
      BY <2>1, <2>3, <2>8 DEF Maps
    <3>2. \A k \in Threads : /\ Pending(k, m)' <=> Pending(k, m)
                             /\ Pending(k, m) => changed'[k] = changed[k]
      <4>1. ~Pending(t, m) /\ ~Pending(t, m)'
        BY <2>2, <2>6, <2>8 DEF Pending
      <4>2. QED
        BY <4>1, <2>7 DEF Pending
    <3>3. InOrder(m)
      BY DEF IInv
    <3>4. QED
      BY <3>1, <3>2, <3>3 DEF InOrder
  <2>9. InOrder(n)'
    <3>1. SUFFICES ASSUME n \notin raced'
                   PROVE  /\ \A j, k \in Threads :
                               Pending(j, n)' /\ Pending(k, n)' => j = k
                          /\ \A k \in Threads : Pending(k, n)' =>
                               changed'[k][1].value = local'[n]
                          /\ \E k \in Threads : Pending(k, n)'
      BY DEF InOrder
    <3>2. \A k \in Threads : ~Pending(k, n)
      BY <2>1, <3>1
    <3>3. \A k \in Threads \ {t} : ~Pending(k, n)'
      BY <2>7, <3>2 DEF Pending
    <3>4. Pending(t, n)' /\ changed'[t][1].value = v /\ local'[n] = v
      BY <2>1, <2>2, <2>3, <2>6 DEF Pending, Maps
    <3>5. QED
      BY <3>3, <3>4
  <2>10. QED
    BY <2>4, <2>5, <2>8, <2>9
<1>3. QED
  BY <1>1, <1>2

LEMMA InitInv == Init => IInv
BY DEF Init, IInv, TypeOK, Maps, Empty, InOrder, Pending

LEMMA SetInv ==
  ASSUME IInv, NEW t \in Threads, NEW n \in Names,
         NEW v \in Values \cup {Unset}, Set(t, n, v)
  PROVE  IInv'
<1>1. changed[t] = <<>> /\ Assign(t, n, v) /\ last' = last
  BY DEF Set, Free
<1>2. /\ local' \in Maps /\ raced' \in SUBSET Names
      /\ changed' \in [Threads -> {<<>>} \cup {<<c>> : c \in Changes}]
      /\ \A k \in Names : InOrder(k)'
  BY <1>1, AssignKeeps
<1>3. QED
  BY <1>2 DEF Set, IInv, TypeOK

LEMMA MergeNextInv ==
  ASSUME IInv, NEW t \in Threads, NEW n \in Names, MergeNext(t, n)
  PROVE  IInv'
<1>1. changed[t] = <<>> /\ Assign(t, n, rest[t][n]) /\ last' = last
  BY DEF MergeNext
<1>2. rest[t] \in Maps /\ rest[t][n] \in Values \cup {Unset}
  BY DEF IInv, TypeOK, Maps
<1>3. /\ local' \in Maps /\ raced' \in SUBSET Names
      /\ changed' \in [Threads -> {<<>>} \cup {<<c>> : c \in Changes}]
      /\ \A k \in Names : InOrder(k)'
  BY <1>1, <1>2, AssignKeeps
<1>4. rest' \in [Threads -> Maps]
  <2>1. rest' = [rest EXCEPT ![t] = [rest[t] EXCEPT ![n] = Unset]]
    BY DEF MergeNext
  <2>2. [rest[t] EXCEPT ![n] = Unset] \in Maps
    BY <1>2 DEF Maps
  <2>3. QED
    BY <2>1, <2>2 DEF IInv, TypeOK
<1>5. QED
  BY <1>3, <1>4 DEF MergeNext, IInv, TypeOK

LEMMA AnnounceInv ==
  ASSUME IInv, NEW t \in Threads, Announce(t)
  PROVE  IInv'
<1> DEFINE c == changed[t][1]
<1>1. changed[t] # <<>> /\ changed \in [Threads -> {<<>>} \cup
                                          {<<d>> : d \in Changes}]
  BY DEF Announce, IInv, TypeOK
<1>2. PICK d \in Changes : changed[t] = <<d>>
  BY <1>1
<1>3. c \in Changes /\ c.name \in Names /\ c.value \in Values \cup {Unset}
  BY <1>2 DEF Changes
<1>4. PICK m \in SyncVar(c) : wire' = Append(wire, m)
  BY DEF Announce
<1>5. m \in Changes
  BY <1>3, SyncVarType
<1>6. /\ changed' = [changed EXCEPT ![t] = <<>>]
      /\ last' = [last EXCEPT ![c.name] = c.value]
      /\ UNCHANGED <<local, remote, rest, erasing, sets, raced>>
  BY DEF Announce
<1>7. Pending(t, c.name)
  BY <1>1 DEF Pending
<1> HIDE DEF c
<1>8. TypeOK'
  <2>1. wire' \in Seq(Changes)
    BY <1>4, <1>5 DEF IInv, TypeOK
  <2>2. last' \in Maps
    BY <1>3, <1>6 DEF IInv, TypeOK, Maps
  <2>3. changed' \in [Threads -> {<<>>} \cup {<<d2>> : d2 \in Changes}]
    BY <1>1, <1>6
  <2>4. QED
    BY <2>1, <2>2, <2>3, <1>6 DEF IInv, TypeOK
<1>9. ASSUME NEW n \in Names PROVE InOrder(n)'
  <2>1. ~Pending(t, n)' /\ \A k \in Threads \ {t} :
          /\ Pending(k, n)' <=> Pending(k, n)
          /\ changed'[k] = changed[k]
    BY <1>1, <1>6 DEF Pending
  <2>2. InOrder(n)
    BY DEF IInv
  <2>3. CASE n = c.name
    <3>1. SUFFICES ASSUME n \notin raced PROVE InOrder(n)'
      BY <1>6 DEF InOrder
    <3>2. \A k \in Threads \ {t} : ~Pending(k, n)
      BY <1>7, <2>2, <2>3, <3>1 DEF InOrder
    <3>3. \A k \in Threads : ~Pending(k, n)'
      BY <2>1, <3>2
    <3>4. last'[n] = c.value
      BY <1>6, <2>3 DEF IInv, TypeOK, Maps
    <3>5. c.value = local[n]
      BY <1>7, <2>2, <2>3, <3>1 DEF InOrder, c
    <3>6. QED
      BY <3>3, <3>4, <3>5, <1>6 DEF InOrder
  <2>4. CASE n # c.name
    <3>1. last'[n] = last[n]
      BY <1>6, <2>4 DEF IInv, TypeOK, Maps
    <3>2. ~Pending(t, n)
      BY <2>4 DEF Pending, c
    <3>3. QED
      BY <1>6, <2>1, <2>2, <3>1, <3>2 DEF InOrder
  <2>5. QED
    BY <2>3, <2>4
<1>10. QED
  BY <1>8, <1>9 DEF IInv

LEMMA EraseNextInv ==
  ASSUME IInv, NEW t \in Threads, NEW n \in Names, EraseNext(t, n)
  PROVE  IInv'
<1> DEFINE c == [name |-> n, value |-> Unset]
<1>1. c \in Changes
  BY DEF Changes
<1>2. PICK m \in SyncVar(c) : wire' = Append(wire, m)
  BY DEF EraseNext
<1>3. m \in Changes
  BY <1>1, SyncVarType
<1>4. /\ local' = [local EXCEPT ![n] = Unset]
      /\ last' = [last EXCEPT ![n] = Unset]
      /\ raced' = IF \E k \in Threads : Pending(k, n)
                  THEN raced \cup {n} ELSE raced
      /\ UNCHANGED <<remote, rest, erasing, changed, sets>>
  BY DEF EraseNext
<1> HIDE DEF c
<1>5. TypeOK'
  <2>1. wire' \in Seq(Changes)
    BY <1>2, <1>3 DEF IInv, TypeOK
  <2>2. last' \in Maps /\ local' \in Maps /\ raced' \in SUBSET Names
    BY <1>4 DEF IInv, TypeOK, Maps
  <2>3. QED
    BY <2>1, <2>2, <1>4 DEF IInv, TypeOK
<1>6. ASSUME NEW k \in Names PROVE InOrder(k)'
  <2>1. \A j \in Threads : Pending(j, k)' <=> Pending(j, k)
    BY <1>4 DEF Pending
  <2>2. CASE k = n
    <3>1. last'[n] = Unset /\ local'[n] = Unset
      BY <1>4 DEF IInv, TypeOK, Maps
    <3>2. n \notin raced' => \A j \in Threads : ~Pending(j, n)
      BY <1>4
    <3>3. QED
      BY <2>1, <2>2, <3>1, <3>2 DEF InOrder
  <2>3. CASE k # n
    <3>1. last'[k] = last[k] /\ local'[k] = local[k]
      BY <1>4, <2>3 DEF IInv, TypeOK, Maps
    <3>2. k \in raced' <=> k \in raced
      BY <1>4, <2>3
    <3>3. InOrder(k) /\ changed' = changed
      BY <1>4 DEF IInv
    <3>4. QED
      BY <2>1, <3>1, <3>2, <3>3 DEF InOrder
  <2>4. QED
    BY <2>2, <2>3
<1>7. QED
  BY <1>5, <1>6 DEF IInv

\* Steps that neither change local nor announce leave the order alone.
LEMMA OrderUnchanged ==
  ASSUME IInv, UNCHANGED <<local, changed, last, raced>>
  PROVE  \A n \in Names : InOrder(n)'
BY DEF IInv, InOrder, Pending

LEMMA MergeInv ==
  ASSUME IInv, NEW t \in Threads, NEW map \in Maps,
         Merge(t, map) \/ Replace(t, map)
  PROVE  IInv'
<1>1. \A n \in Names : InOrder(n)'
  BY OrderUnchanged DEF Merge, Replace
<1>2. TypeOK'
  BY DEF IInv, TypeOK, Merge, Replace
<1>3. QED
  BY <1>1, <1>2 DEF IInv

LEMMA ReplaceMergesInv ==
  ASSUME IInv, NEW t \in Threads, ReplaceMerges(t)
  PROVE  IInv'
<1>1. \A n \in Names : InOrder(n)'
  BY OrderUnchanged DEF ReplaceMerges
<1>2. TypeOK'
  BY DEF IInv, TypeOK, ReplaceMerges
<1>3. QED
  BY <1>1, <1>2 DEF IInv

LEMMA ReceiveInv ==
  ASSUME IInv, Receive
  PROVE  IInv'
<1>1. \A n \in Names : InOrder(n)'
  BY OrderUnchanged DEF Receive
<1>2. wire \in Seq(Changes) /\ wire # <<>>
  BY DEF IInv, TypeOK, Receive
<1>3. Head(wire) \in Changes /\ Tail(wire) \in Seq(Changes)
  BY <1>2
<1>4. /\ Head(wire).name \in Names
      /\ Head(wire).value \in Values \cup {Unset}
  BY <1>3 DEF Changes
<1>5. remote' \in Maps
  BY <1>4 DEF IInv, TypeOK, Receive, Maps
<1>6. TypeOK'
  BY <1>3, <1>5 DEF IInv, TypeOK, Receive
<1>7. QED
  BY <1>1, <1>6 DEF IInv

LEMMA StutterInv == IInv /\ UNCHANGED vars => IInv'
<1>1. SUFFICES ASSUME IInv, UNCHANGED vars PROVE IInv'
  OBVIOUS
<1>2. \A n \in Names : InOrder(n)'
  BY <1>1, OrderUnchanged DEF vars
<1>3. TypeOK'
  BY <1>1 DEF IInv, TypeOK, vars
<1>4. QED
  BY <1>2, <1>3 DEF IInv

LEMMA NextInv == IInv /\ [Next]_vars => IInv'
<1>1. SUFFICES ASSUME IInv, Next PROVE IInv'
  BY StutterInv
<1>2. CASE \E t \in Threads, n \in Names, v \in Values \cup {Unset} :
             Set(t, n, v)
  BY <1>1, <1>2, SetInv
<1>3. CASE \E t \in Threads, map \in Maps : Merge(t, map) \/ Replace(t, map)
  BY <1>1, <1>3, MergeInv
<1>4. CASE \E t \in Threads, n \in Names : MergeNext(t, n)
  BY <1>1, <1>4, MergeNextInv
<1>5. CASE \E t \in Threads, n \in Names : EraseNext(t, n)
  BY <1>1, <1>5, EraseNextInv
<1>6. CASE \E t \in Threads : Announce(t)
  BY <1>1, <1>6, AnnounceInv
<1>7. CASE \E t \in Threads : ReplaceMerges(t)
  BY <1>1, <1>7, ReplaceMergesInv
<1>8. CASE Receive
  BY <1>1, <1>8, ReceiveInv
<1>9. QED
  BY <1>1, <1>2, <1>3, <1>4, <1>5, <1>6, <1>7, <1>8 DEF Next

LEMMA IInvAlways == Spec => []IInv
BY InitInv, NextInv, PTL DEF Spec

\* Every variable keeps its type (what set, merge and set(map) keep, and what
\* syncVar sends).
THEOREM TypeCorrect == Spec => []TypeOK
<1>1. IInv => TypeOK
  BY DEF IInv
<1>2. QED
  BY <1>1, IInvAlways, PTL

\* syncVar is given the changes of a variable in the order they were made,
\* except where two threads changed it at the same time (peer.cpp:738-764):
\* for any number of threads, merges and replacements.
THEOREM LastAnnounced == Spec => []LastIsAnnounced
<1>1. IInv => LastIsAnnounced
  BY DEF IInv, InOrder, LastIsAnnounced
<1>2. QED
  BY <1>1, IInvAlways, PTL
=============================================================================
