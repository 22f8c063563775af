-------------------------- MODULE PublisherProofs --------------------------
(***************************************************************************)
(* Proofs about Publisher, for any number of subscribers, marks and        *)
(* concurrent resets, and about the loop of do_unsubscribe, for any input. *)
(***************************************************************************)
EXTENDS Publisher, WellFoundedInduction, SequenceTheorems, TLAPS

\* The members of a sequence of ids.
Members(u) == {u[k] : k \in 1 .. Len(u)}

Ascending(u) == \A j, k \in 1 .. Len(u) : j <= k => u[j] <= u[k]

-----------------------------------------------------------------------------
(* Lemmas about the operators.                                             *)

LEMMA SubscriberIsNat == Subscribers \subseteq Nat \ {0}
  BY BoundsAssumption DEF Subscribers

\* A non-empty set of naturals has a least element.
LEMMA LeastNatural ==
  ASSUME NEW T \in SUBSET Nat, T # {}
  PROVE  \E x \in T : \A y \in T : x <= y
<1> DEFINE R == {ss \in Nat \X Nat : ss[1] < ss[2]}
<1>1. IsWellFoundedOn(R, Nat)
  BY NatLessThanWellFounded DEF OpToRel
<1>2. PICK x \in T : \A y \in T : ~ (<<y, x>> \in R)
  <2> HIDE DEF R
  <2> QED BY <1>1, WFMin
<1>3. ASSUME NEW y \in T PROVE x <= y
  <2>1. x \in Nat /\ y \in Nat /\ ~ (<<y, x>> \in R)
    BY <1>2
  <2>2. ~ (y < x)
    BY <2>1
  <2> QED BY <2>1, <2>2
<1> QED BY <1>3

\* What Insert puts where.
LEMMA InsertElements ==
  ASSUME NEW u \in Seq(Subscribers), NEW id \in Subscribers,
         NEW k \in 0 .. Len(u)
  PROVE  /\ Insert(u, k, id) \in Seq(Subscribers)
         /\ Len(Insert(u, k, id)) = Len(u) + 1
         /\ \A j \in 1 .. Len(u) + 1 :
              Insert(u, k, id)[j] = IF j <= k THEN u[j]
                                    ELSE IF j = k + 1 THEN id
                                    ELSE u[j - 1]
<1> DEFINE a == SubSeq(u, 1, k)
           b == SubSeq(u, k + 1, Len(u))
<1>1. \A i \in 1 .. Len(u) : u[i] \in Subscribers
  BY ElementOfSeq
<1>2. /\ a \in Seq(Subscribers) /\ Len(a) = k
      /\ \A i \in 1 .. k : a[i] = u[i]
  <2>1. Len(u) \in Nat
    OBVIOUS
  <2>2. \A i \in 1 .. k : u[i] \in Subscribers
    BY <1>1, <2>1
  <2> QED BY <2>1, <2>2, SubSeqProperties
<1>3. /\ b \in Seq(Subscribers) /\ Len(b) = Len(u) - k
      /\ \A i \in 1 .. Len(u) - k : b[i] = u[k + i]
  <2>1. Len(u) \in Nat
    OBVIOUS
  <2>2. \A i \in k + 1 .. Len(u) : u[i] \in Subscribers
    BY <1>1, <2>1
  <2>3. /\ b \in Seq(Subscribers)
        /\ Len(b) = IF k + 1 <= Len(u) THEN Len(u) - (k + 1) + 1 ELSE 0
        /\ \A i \in 1 .. Len(u) - (k + 1) + 1 : b[i] = u[(k + 1) + i - 1]
    BY <2>1, <2>2, SubSeqProperties
  <2> QED BY <2>1, <2>3
<1>4. /\ <<id>> \in Seq(Subscribers) /\ Len(<<id>>) = 1 /\ <<id>>[1] = id
  OBVIOUS
<1> HIDE DEF a, b
<1> DEFINE c == a \o <<id>>
<1>5. /\ c \in Seq(Subscribers) /\ Len(c) = k + 1
      /\ \A i \in 1 .. k + 1 : c[i] = IF i <= k THEN u[i] ELSE id
  BY <1>2, <1>4, ConcatProperties
<1>6. Insert(u, k, id) = c \o b
  BY DEF Insert, a, b
<1> HIDE DEF c
<1>7. /\ c \o b \in Seq(Subscribers)
      /\ Len(c \o b) = Len(c) + Len(b)
      /\ \A j \in 1 .. Len(c) + Len(b) :
           (c \o b)[j] = IF j <= Len(c) THEN c[j] ELSE b[j - Len(c)]
  BY <1>3, <1>5, ConcatProperties
<1>8. ASSUME NEW j \in 1 .. Len(u) + 1
      PROVE  (c \o b)[j] = IF j <= k THEN u[j]
                           ELSE IF j = k + 1 THEN id ELSE u[j - 1]
  <2>1. Len(u) \in Nat /\ k \in Nat /\ k <= Len(u)
    OBVIOUS
  <2>2. CASE j <= k + 1
    <3>1. j \in 1 .. k + 1
      BY <2>1, <2>2
    <3>2. j \in 1 .. Len(c) + Len(b) /\ j <= Len(c)
      BY <1>3, <1>5, <2>1, <3>1
    <3>3. (c \o b)[j] = c[j]
      BY <1>7, <3>2
    <3>4. c[j] = IF j <= k THEN u[j] ELSE id
      BY <1>5, <3>1
    <3> QED BY <2>1, <3>1, <3>3, <3>4
  <2>3. CASE j > k + 1
    <3>1. (c \o b)[j] = b[j - (k + 1)]
      BY <1>3, <1>5, <1>7, <2>1, <2>3
    <3>2. j - (k + 1) \in 1 .. Len(u) - k
      BY <2>1, <2>3
    <3>3. b[j - (k + 1)] = u[k + (j - (k + 1))]
      BY <1>3, <3>2
    <3>4. k + (j - (k + 1)) = j - 1
      BY <2>1
    <3>5. (c \o b)[j] = u[j - 1]
      BY <3>1, <3>3, <3>4
    <3>6. ~(j <= k) /\ j # k + 1
      BY <2>1, <2>3
    <3> QED BY <3>5, <3>6
  <2>4. j <= k + 1 \/ j > k + 1
    BY <2>1
  <2> QED BY <2>2, <2>3, <2>4
<1>9. Len(c \o b) = Len(u) + 1
  BY <1>3, <1>5, <1>7
<1> QED BY <1>6, <1>7, <1>8, <1>9

\* The next subscriber is above the last one, or there is none.
LEMMA AfterNext ==
  ASSUME NEW S \in SUBSET Subscribers, NEW s \in 0 .. MaxSubs
  PROVE  /\ After(S, s) \in 0 .. MaxSubs
         /\ After(S, s) # 0 => After(S, s) \in S /\ After(S, s) > s
<1>1. CASE ~ \E t \in S : t > s
  BY <1>1, BoundsAssumption DEF After
<1>2. CASE \E t \in S : t > s
  <2> DEFINE T == {t \in S : t > s}
  <2>1. T \in SUBSET Nat /\ T # {}
    BY <1>2, SubscriberIsNat
  <2>2. \E t \in T : \A r \in T : t <= r
    BY <2>1, LeastNatural
  <2>3. \E t \in S : t > s /\ \A r \in S : r > s => t <= r
    BY <2>2
  <2>4. After(S, s) \in S /\ After(S, s) > s
    BY <1>2, <2>3 DEF After
  <2>5. After(S, s) \in Subscribers
    BY <2>4
  <2> HIDE DEF T
  <2> QED BY <2>4, <2>5, BoundsAssumption DEF Subscribers
<1> QED BY <1>1, <1>2

\* An ordered _unsubs removes everybody in it: the walk that stops at s for
\* the first time has passed smaller ids only.
LEMMA OrderedMarksRemove ==
  ASSUME NEW u \in Seq(Subscribers), Ascending(u), NEW S
  PROVE  Unmarked(S, u) \cap Members(u) = {}
<1> SUFFICES ASSUME NEW s \in S, s \in Members(u)
             PROVE  \E k \in 1 .. Len(u) :
                      u[k] = s /\ \A j \in 1 .. k - 1 : u[j] < s
  BY DEF Unmarked
<1> DEFINE K == {k \in 1 .. Len(u) : u[k] = s}
<1>1. K \in SUBSET Nat /\ K # {}
  BY DEF Members
<1>2. PICK k \in K : \A j \in K : k <= j
  BY <1>1, LeastNatural
<1>3. ASSUME NEW j \in 1 .. k - 1 PROVE u[j] < s
  <2>1. j \in 1 .. Len(u) /\ j < k /\ k \in 1 .. Len(u)
    BY <1>2
  <2>2. u[j] # s
    BY <1>2, <2>1
  <2>3. u[j] <= u[k]
    BY <2>1 DEF Ascending
  <2>4. u[j] \in Nat /\ u[k] \in Nat
    BY <2>1, ElementOfSeq, SubscriberIsNat
  <2> QED BY <1>2, <2>2, <2>3, <2>4
<1> QED BY <1>2, <1>3

\* In any order it removes nobody who is not in it.
LEMMA OnlyMarkedRemoved ==
  ASSUME NEW S, NEW u
  PROVE  /\ Unmarked(S, u) \subseteq S
         /\ S \subseteq Unmarked(S, u) \cup Members(u)
  BY DEF Unmarked, Members

\* What inserting and appending do to the members and to the order.
LEMMA InsertMembers ==
  ASSUME NEW u \in Seq(Subscribers), NEW id \in Subscribers,
         NEW k \in 0 .. Len(u)
  PROVE  Members(Insert(u, k, id)) = Members(u) \cup {id}
<1> DEFINE v == Insert(u, k, id)
<1>1. /\ Len(u) \in Nat /\ k \in Nat /\ k <= Len(u)
      /\ Len(v) = Len(u) + 1
      /\ \A j \in 1 .. Len(u) + 1 :
           v[j] = IF j <= k THEN u[j] ELSE IF j = k + 1 THEN id ELSE u[j - 1]
  BY InsertElements
<1> HIDE DEF v
<1>2. ASSUME NEW j \in 1 .. Len(v) PROVE v[j] \in Members(u) \cup {id}
  <2>1. CASE j <= k
    BY <1>1, <2>1 DEF Members
  <2>2. CASE j = k + 1
    BY <1>1, <2>2
  <2>3. CASE j > k + 1
    <3>1. v[j] = u[j - 1] /\ j - 1 \in 1 .. Len(u)
      BY <1>1, <2>3
    <3> QED BY <3>1 DEF Members
  <2> QED BY <1>1, <2>1, <2>2, <2>3
<1>3. id \in Members(v)
  <2>1. v[k + 1] = id /\ k + 1 \in 1 .. Len(v)
    BY <1>1
  <2> QED BY <2>1 DEF Members
<1>4. ASSUME NEW j \in 1 .. Len(u) PROVE u[j] \in Members(v)
  <2>1. CASE j <= k
    <3>1. v[j] = u[j] /\ j \in 1 .. Len(v)
      BY <1>1, <2>1
    <3> QED BY <3>1 DEF Members
  <2>2. CASE j > k
    <3>1. /\ v[j + 1] = u[(j + 1) - 1]
          /\ (j + 1) - 1 = j
          /\ j + 1 \in 1 .. Len(v)
      BY <1>1, <2>2
    <3> QED BY <3>1 DEF Members
  <2> QED BY <1>1, <2>1, <2>2
<1>5. Members(v) \subseteq Members(u) \cup {id}
  BY <1>2 DEF Members
<1>6. Members(u) \subseteq Members(v)
  BY <1>4 DEF Members
<1> QED BY <1>3, <1>5, <1>6 DEF v

LEMMA InsertAscending ==
  ASSUME NEW u \in Seq(Subscribers), NEW id \in Subscribers,
         Ascending(u), NEW k \in InsertPoints(u, id)
  PROVE  Ascending(Insert(u, k, id))
<1> DEFINE v == Insert(u, k, id)
<1>1. /\ Len(u) \in Nat /\ k \in Nat /\ k <= Len(u)
      /\ Len(v) = Len(u) + 1
      /\ \A j \in 1 .. Len(u) + 1 :
           v[j] = IF j <= k THEN u[j] ELSE IF j = k + 1 THEN id ELSE u[j - 1]
  BY InsertElements DEF InsertPoints
<1>2. \A j \in 1 .. Len(u) : u[j] \in Nat
  BY ElementOfSeq, SubscriberIsNat
<1>3. id \in Nat
  BY SubscriberIsNat
<1>4. ASSUME NEW j \in 1 .. k PROVE u[j] <= id
  <2>1. k \in 1 .. Len(u) /\ j \in 1 .. Len(u) /\ j <= k
    BY <1>1
  <2>2. u[k] < id
    BY <2>1 DEF InsertPoints
  <2>3. u[j] <= u[k]
    BY <2>1 DEF Ascending
  <2> QED BY <1>2, <1>3, <2>1, <2>2, <2>3
<1>5. ASSUME NEW j \in k + 1 .. Len(u) PROVE id <= u[j]
  <2>1. k + 1 \in 1 .. Len(u) /\ j \in 1 .. Len(u) /\ k + 1 <= j
    BY <1>1
  <2>2. u[k + 1] >= id
    BY <1>1, <2>1 DEF InsertPoints
  <2>3. u[k + 1] <= u[j]
    BY <2>1 DEF Ascending
  <2> QED BY <1>2, <1>3, <2>1, <2>2, <2>3
<1> HIDE DEF v
<1>6. ASSUME NEW i \in 1 .. Len(v), NEW j \in 1 .. Len(v), i <= j
      PROVE  v[i] <= v[j]
  <2>1. CASE j <= k
    <3>1. v[i] = u[i] /\ v[j] = u[j]
          /\ i \in 1 .. Len(u) /\ j \in 1 .. Len(u)
      BY <1>1, <1>6, <2>1
    <3> QED BY <1>6, <3>1 DEF Ascending
  <2>2. CASE j = k + 1
    <3>1. v[j] = id
      BY <1>1, <2>2
    <3>2. CASE i = j
      BY <1>3, <3>1, <3>2
    <3>3. CASE i < j
      <4>1. v[i] = u[i] /\ i \in 1 .. k
        BY <1>1, <2>2, <3>3
      <4> QED BY <1>4, <3>1, <4>1
    <3> QED BY <1>1, <1>6, <3>2, <3>3
  <2>3. CASE j > k + 1
    <3>1. v[j] = u[j - 1] /\ j - 1 \in k + 1 .. Len(u)
          /\ j - 1 \in 1 .. Len(u)
      BY <1>1, <2>3
    <3>2. CASE i <= k
      <4>1. v[i] = u[i] /\ i \in 1 .. Len(u) /\ i <= j - 1
        BY <1>1, <2>3, <3>2
      <4> QED BY <3>1, <4>1 DEF Ascending
    <3>3. CASE i = k + 1
      <4>1. v[i] = id
        BY <1>1, <3>3
      <4> QED BY <1>5, <3>1, <4>1
    <3>4. CASE i > k + 1
      <4>1. v[i] = u[i - 1] /\ i - 1 \in 1 .. Len(u) /\ i - 1 <= j - 1
        BY <1>1, <1>6, <3>4
      <4> QED BY <3>1, <4>1 DEF Ascending
    <3> QED BY <1>1, <3>2, <3>3, <3>4
  <2> QED BY <1>1, <2>1, <2>2, <2>3
<1> QED BY <1>6 DEF Ascending, v

LEMMA AppendMembers ==
  ASSUME NEW u \in Seq(Subscribers), NEW id \in Subscribers
  PROVE  /\ Append(u, id) \in Seq(Subscribers)
         /\ Members(Append(u, id)) = Members(u) \cup {id}
         /\ Ascending(u) /\ (\A s \in Members(u) : s <= id)
              => Ascending(Append(u, id))
<1> DEFINE v == Append(u, id)
<1>1. /\ Len(u) \in Nat /\ v \in Seq(Subscribers) /\ Len(v) = Len(u) + 1
      /\ \A j \in 1 .. Len(u) : v[j] = u[j]
      /\ v[Len(u) + 1] = id
  BY AppendProperties
<1> HIDE DEF v
<1>2. Members(v) = Members(u) \cup {id}
  <2>1. 1 .. Len(v) = (1 .. Len(u)) \cup {Len(u) + 1}
    BY <1>1
  <2> QED BY <1>1, <2>1 DEF Members
<1>3. ASSUME Ascending(u), \A s \in Members(u) : s <= id,
             NEW i \in 1 .. Len(v), NEW j \in 1 .. Len(v), i <= j
      PROVE  v[i] <= v[j]
  <2>1. CASE j <= Len(u)
    BY <1>1, <1>3, <2>1 DEF Ascending
  <2>2. CASE j = Len(u) + 1 /\ i <= Len(u)
    <3>1. v[i] \in Members(u) /\ v[j] = id
      BY <1>1, <2>2 DEF Members
    <3> QED BY <1>3, <3>1
  <2>3. CASE j = Len(u) + 1 /\ i = Len(u) + 1
    BY <1>1, <2>3, SubscriberIsNat
  <2> QED BY <1>1, <1>3, <2>1, <2>2, <2>3
<1> QED BY <1>1, <1>2, <1>3 DEF Ascending, v

LEMMA MembersAreNat ==
  ASSUME NEW u \in Seq(Subscribers)
  PROVE  \A s \in Members(u) : s \in Nat
<1>1. \A k \in 1 .. Len(u) : u[k] \in Nat
  BY ElementOfSeq, SubscriberIsNat
<1> QED BY <1>1 DEF Members

LEMMA EmptyMembers ==
  Members(<<>>) = {} /\ Ascending(<<>>) /\ <<>> \in Seq(Subscribers)
  BY DEF Members, Ascending

-----------------------------------------------------------------------------
(* The inductive invariant.  Outside a cycle no mark is left; inside one,  *)
(* as long as it is undisturbed, _unsubs is ordered, ends at or before the *)
(* running subscriber, and holds everybody who has to go - which is why    *)
(* the single walk of do_unsubscribe finds them all.                       *)

CycleState == ~inp => unsubs = <<>> /\ current = 0

IdsGiven == /\ subs \subseteq 1 .. idcnt
            /\ gone \subseteq 1 .. idcnt
            /\ current <= idcnt

MarksAreOwned == Members(unsubs) \subseteq gone

MarksInOrder ==
  ~excused => /\ Ascending(unsubs)
              /\ current # 0 => \A s \in Members(unsubs) : s <= current

MarksComplete == ~excused => gone \cap subs \subseteq Members(unsubs)

PInv ==
  /\ TypeOK
  /\ CycleState
  /\ IdsGiven
  /\ MarksAreOwned
  /\ MarksInOrder
  /\ MarksComplete
  /\ NobodyElseRemoved

LEMMA InitPInv == Init => PInv
<1> SUFFICES ASSUME Init PROVE PInv
  OBVIOUS
<1>1. Members(unsubs) = {} /\ Ascending(unsubs)
        /\ unsubs \in Seq(Subscribers)
  BY EmptyMembers DEF Init
<1>2. TypeOK
  <2>1. /\ subs \in SUBSET Subscribers
        /\ idcnt \in 0 .. MaxSubs
        /\ current \in 0 .. MaxSubs
        /\ resets \in Nat
    BY BoundsAssumption DEF Init
  <2>2. /\ inp \in BOOLEAN /\ excused \in BOOLEAN
        /\ gone \in SUBSET Subscribers
        /\ taken \in SUBSET Subscribers
    BY DEF Init
  <2> QED BY <1>1, <2>1, <2>2 DEF TypeOK
<1>3. CycleState /\ IdsGiven /\ NobodyElseRemoved
  BY DEF Init, CycleState, IdsGiven, NobodyElseRemoved
<1>4. MarksAreOwned /\ MarksInOrder /\ MarksComplete
  BY <1>1 DEF Init, MarksAreOwned, MarksInOrder, MarksComplete
<1> QED BY <1>2, <1>3, <1>4 DEF PInv

LEMMA IdsAreSubscribers == TypeOK => 1 .. idcnt \subseteq Subscribers
  BY BoundsAssumption DEF TypeOK, Subscribers

LEMMA SubscribePInv == PInv /\ Subscribe => PInv'
<1> SUFFICES ASSUME PInv, Subscribe PROVE PInv'
  OBVIOUS
<1> USE DEF Subscribe
<1>1. idcnt \in Nat /\ idcnt' = idcnt + 1 /\ idcnt' \in 0 .. MaxSubs
      /\ idcnt + 1 \in Subscribers
  BY BoundsAssumption DEF PInv, TypeOK, Subscribers
<1>2. idcnt + 1 \notin gone /\ 1 .. idcnt' = (1 .. idcnt) \cup {idcnt + 1}
  BY <1>1 DEF PInv, IdsGiven
<1>3. TypeOK'
  BY <1>1 DEF PInv, TypeOK
<1>4. IdsGiven'
  BY <1>1, <1>2 DEF PInv, IdsGiven, TypeOK
<1>5. CycleState' /\ MarksAreOwned' /\ MarksInOrder'
  BY DEF PInv, CycleState, MarksAreOwned, MarksInOrder
<1>6. MarksComplete'
  BY <1>2 DEF PInv, MarksComplete
<1>7. NobodyElseRemoved'
  BY <1>2 DEF PInv, NobodyElseRemoved
<1> QED BY <1>3, <1>4, <1>5, <1>6, <1>7 DEF PInv

\* Marking and removing in one go: the single mark is found.
LEMMA UnsubscribePInv ==
  ASSUME PInv, NEW id \in Subscribers, Unsubscribe(id)
  PROVE  PInv'
<1>1. PICK k \in InsertPoints(unsubs, id) :
        subs' = Unmarked(subs, Insert(unsubs, k, id))
  BY DEF Unsubscribe
<1> DEFINE u == Insert(unsubs, k, id)
<1>2. unsubs = <<>> /\ Members(unsubs) = {} /\ Ascending(unsubs)
  BY EmptyMembers DEF Unsubscribe, PInv, CycleState
<1>3. k \in 0 .. Len(unsubs) /\ unsubs \in Seq(Subscribers)
  BY DEF InsertPoints, PInv, TypeOK
<1>4. u \in Seq(Subscribers) /\ Members(u) = {id} /\ Ascending(u)
  <2>1. u \in Seq(Subscribers)
    BY <1>3, InsertElements
  <2>2. Members(u) = Members(unsubs) \cup {id}
    BY <1>3, InsertMembers
  <2>3. Ascending(u)
    BY <1>2, <1>3, InsertAscending
  <2> QED BY <1>2, <2>1, <2>2, <2>3
<1> HIDE DEF u
<1>5. subs' \subseteq subs /\ subs \subseteq subs' \cup {id} /\ id \notin subs'
  BY <1>1, <1>4, OnlyMarkedRemoved, OrderedMarksRemove DEF u
<1>6. TypeOK'
  BY <1>5, EmptyMembers DEF PInv, TypeOK, Unsubscribe
<1>7. IdsGiven'
  <2>1. id \in 1 .. idcnt
    BY SubscriberIsNat DEF PInv, TypeOK, Unsubscribe
  <2> QED BY <1>5, <2>1 DEF PInv, IdsGiven, Unsubscribe
<1>8. CycleState' /\ MarksAreOwned' /\ MarksInOrder'
  BY EmptyMembers
     DEF PInv, CycleState, MarksAreOwned, MarksInOrder, Unsubscribe
<1>9. MarksComplete'
  BY <1>2, <1>5 DEF PInv, MarksComplete, Unsubscribe
<1>10. NobodyElseRemoved'
  BY <1>5 DEF PInv, NobodyElseRemoved, Unsubscribe
<1> QED BY <1>6, <1>7, <1>8, <1>9, <1>10 DEF PInv

LEMMA PublishPInv == PInv /\ Publish => PInv'
<1> SUFFICES ASSUME PInv, Publish PROVE PInv'
  OBVIOUS
<1>1. /\ current' \in 0 .. MaxSubs
      /\ current' # 0 => current' \in subs
  BY AfterNext, BoundsAssumption DEF Publish, PInv, TypeOK
<1>2. TypeOK' /\ CycleState' /\ MarksAreOwned' /\ MarksComplete'
        /\ NobodyElseRemoved'
  BY <1>1 DEF Publish, PInv, TypeOK, CycleState, MarksAreOwned,
              MarksComplete, NobodyElseRemoved
<1>3. IdsGiven'
  BY <1>1 DEF Publish, PInv, TypeOK, IdsGiven
<1>4. MarksInOrder'
  BY EmptyMembers DEF Publish, PInv, CycleState, MarksInOrder
<1> QED BY <1>2, <1>3, <1>4 DEF PInv

\* The next callback's subscriber is above every mark.
LEMMA NextCurrent ==
  ASSUME PInv, inp, current # 0, current' = After(subs, current)
  PROVE  /\ current' \in 0 .. MaxSubs
         /\ current' <= idcnt
         /\ current' # 0 => current <= current'
<1>1. /\ current' \in 0 .. MaxSubs
      /\ current' # 0 => current' \in subs /\ current' > current
  BY AfterNext DEF PInv, TypeOK
<1> QED BY <1>1 DEF PInv, IdsGiven, TypeOK

LEMMA CallbackUnsubscribePInv ==
  ASSUME PInv, NEW id \in Subscribers, CallbackUnsubscribe(id)
  PROVE  PInv'
<1>1. PICK k \in InsertPoints(unsubs, id) : unsubs' = Insert(unsubs, k, id)
  BY DEF CallbackUnsubscribe
<1>2. k \in 0 .. Len(unsubs) /\ unsubs \in Seq(Subscribers)
  BY DEF InsertPoints, PInv, TypeOK
<1>3. /\ unsubs' \in Seq(Subscribers)
      /\ Members(unsubs') = Members(unsubs) \cup {id}
      /\ Ascending(unsubs) => Ascending(unsubs')
  BY <1>1, <1>2, InsertElements, InsertMembers, InsertAscending
<1>4. TypeOK'
  BY <1>3 DEF PInv, TypeOK, CallbackUnsubscribe
<1>5. CycleState'
  BY DEF CycleState, CallbackUnsubscribe
<1>6. IdsGiven'
  <2>1. id \in 1 .. idcnt
    BY SubscriberIsNat DEF PInv, TypeOK, CallbackUnsubscribe
  <2> QED BY <2>1 DEF PInv, IdsGiven, CallbackUnsubscribe
<1>7. MarksAreOwned'
  BY <1>3 DEF PInv, MarksAreOwned, CallbackUnsubscribe
<1>8. MarksInOrder'
  <2>1. ~excused' => ~excused /\ ~ (id > current)
    BY Zenon DEF CallbackUnsubscribe
  <2>2. id \in Nat /\ current \in Nat
    BY SubscriberIsNat DEF PInv, TypeOK
  <2>3. ~ (id > current) => id <= current
    BY <2>2
  <2> QED BY <1>3, <2>1, <2>3 DEF PInv, MarksInOrder, CallbackUnsubscribe
<1>9. MarksComplete'
  BY <1>3 DEF PInv, MarksComplete, CallbackUnsubscribe
<1>10. NobodyElseRemoved'
  BY DEF PInv, NobodyElseRemoved, CallbackUnsubscribe
<1> QED BY <1>4, <1>5, <1>6, <1>7, <1>8, <1>9, <1>10 DEF PInv

LEMMA ReturnsTruePInv == PInv /\ CallbackReturnsTrue => PInv'
<1> SUFFICES ASSUME PInv, CallbackReturnsTrue PROVE PInv'
  OBVIOUS
<1>1. /\ current' \in 0 .. MaxSubs
      /\ current' <= idcnt
      /\ current' # 0 => current <= current'
  BY NextCurrent DEF CallbackReturnsTrue
<1>2. TypeOK' /\ CycleState' /\ MarksAreOwned' /\ MarksComplete'
        /\ NobodyElseRemoved' /\ IdsGiven'
  BY <1>1 DEF CallbackReturnsTrue, PInv, TypeOK, CycleState, MarksAreOwned,
              MarksComplete, NobodyElseRemoved, IdsGiven
<1>3. MarksInOrder'
  <2>1. \A s \in Members(unsubs) : s \in Nat
    BY MembersAreNat DEF PInv, TypeOK
  <2> QED BY <1>1, <2>1 DEF CallbackReturnsTrue, PInv, TypeOK, MarksInOrder
<1> QED BY <1>2, <1>3 DEF PInv

LEMMA AsksRemovalPInv == PInv /\ CallbackAsksRemoval => PInv'
<1> SUFFICES ASSUME PInv, CallbackAsksRemoval PROVE PInv'
  OBVIOUS
<1>1. /\ current' \in 0 .. MaxSubs
      /\ current' <= idcnt
      /\ current' # 0 => current <= current'
  BY NextCurrent DEF CallbackAsksRemoval
<1>2. current \in Subscribers /\ current \in 1 .. idcnt
  BY DEF CallbackAsksRemoval, PInv, TypeOK, IdsGiven, Subscribers
<1>3. /\ unsubs' \in Seq(Subscribers)
      /\ Members(unsubs') = Members(unsubs) \cup {current}
      /\ Ascending(unsubs) /\ (\A s \in Members(unsubs) : s <= current)
           => Ascending(unsubs')
  BY <1>2, AppendMembers DEF CallbackAsksRemoval, PInv, TypeOK
<1>4. TypeOK' /\ CycleState' /\ IdsGiven'
  BY <1>1, <1>2, <1>3
     DEF CallbackAsksRemoval, PInv, TypeOK, CycleState, IdsGiven
<1>5. MarksAreOwned' /\ MarksComplete' /\ NobodyElseRemoved'
  BY <1>3 DEF CallbackAsksRemoval, PInv, MarksAreOwned, MarksComplete,
              NobodyElseRemoved
<1>6. MarksInOrder'
  <2>1. \A s \in Members(unsubs) : s \in Nat
    BY MembersAreNat DEF PInv, TypeOK
  <2>2. current # 0 /\ (~excused' => ~excused)
    BY DEF CallbackAsksRemoval
  <2>3. ~excused => /\ Ascending(unsubs')
                    /\ \A s \in Members(unsubs') : s <= current
    BY <1>2, <1>3, <2>2 DEF PInv, MarksInOrder
  <2>4. ~excused => (current' # 0 => \A s \in Members(unsubs') : s <= current')
    <3>1. \A s \in Members(unsubs') : s \in Nat
      BY <1>2, <1>3, <2>1
    <3> QED BY <1>1, <2>3, <3>1 DEF PInv, TypeOK
  <2> QED BY <2>2, <2>3, <2>4 DEF MarksInOrder
<1> QED BY <1>4, <1>5, <1>6 DEF PInv

\* The end of a cycle: in an undisturbed one every mark is found.
LEMMA EndPublishPInv == PInv /\ EndPublish => PInv'
<1> SUFFICES ASSUME PInv, EndPublish PROVE PInv'
  OBVIOUS
<1>1. subs' \subseteq subs /\ subs \subseteq subs' \cup Members(unsubs)
  BY OnlyMarkedRemoved DEF EndPublish
<1>2. ~excused => subs' \cap Members(unsubs) = {}
  BY OrderedMarksRemove DEF EndPublish, PInv, MarksInOrder, TypeOK
<1>3. Members(unsubs') = {} /\ Ascending(unsubs')
        /\ unsubs' \in Seq(Subscribers)
  BY EmptyMembers DEF EndPublish
<1>4. TypeOK' /\ CycleState' /\ IdsGiven'
  BY <1>1, <1>3 DEF EndPublish, PInv, TypeOK, CycleState, IdsGiven
<1>5. MarksAreOwned' /\ MarksInOrder'
  BY <1>3 DEF MarksAreOwned, MarksInOrder
<1>6. MarksComplete'
  BY <1>1, <1>2 DEF EndPublish, PInv, MarksComplete
<1>7. NobodyElseRemoved'
  BY <1>1 DEF EndPublish, PInv, NobodyElseRemoved, MarksAreOwned
<1> QED BY <1>4, <1>5, <1>6, <1>7 DEF PInv

LEMMA ResetPInv == PInv /\ Reset => PInv'
  BY BoundsAssumption
     DEF Reset, PInv, TypeOK, CycleState, IdsGiven, MarksAreOwned,
         MarksInOrder, MarksComplete, NobodyElseRemoved

LEMMA ResetClearPInv == PInv /\ ResetClear => PInv'
<1> SUFFICES ASSUME PInv, ResetClear PROVE PInv'
  OBVIOUS
<1>1. /\ Members(unsubs') = {} /\ Ascending(unsubs')
      /\ unsubs' \in Seq(Subscribers)
      /\ Members(<<>>) = {}
  BY EmptyMembers DEF ResetClear
<1>2. TypeOK' /\ CycleState' /\ IdsGiven' /\ NobodyElseRemoved'
  BY <1>1 DEF ResetClear, PInv, TypeOK, CycleState, IdsGiven,
              NobodyElseRemoved
<1>3. MarksAreOwned' /\ MarksInOrder'
  BY <1>1 DEF MarksAreOwned, MarksInOrder
<1>4. MarksComplete'
  BY <1>1 DEF ResetClear, PInv, MarksComplete
<1> QED BY <1>2, <1>3, <1>4 DEF PInv

LEMMA NextPInv == PInv /\ [Next]_vars => PInv'
<1> SUFFICES ASSUME PInv, [Next]_vars PROVE PInv'
  OBVIOUS
<1>1. CASE UNCHANGED vars
  BY <1>1 DEF vars, PInv, TypeOK, CycleState, IdsGiven, MarksAreOwned,
              MarksInOrder, MarksComplete, NobodyElseRemoved
<1> QED
  BY <1>1, SubscribePInv, UnsubscribePInv, PublishPInv,
     CallbackUnsubscribePInv, ReturnsTruePInv, AsksRemovalPInv,
     EndPublishPInv, ResetPInv, ResetClearPInv DEF Next

-----------------------------------------------------------------------------
(* The loop of do_unsubscribe.                                             *)

\* std::remove_if calls its predicate on one subscriber after the other: v is
\* _subs and u is _unsubs, iter[n] is where the walk through u stands after n
\* calls, and hits are the calls that returned true.
Walk(v, u, iter, hits) ==
  /\ iter \in [0 .. Len(v) -> 1 .. Len(u) + 1]
  /\ hits \in SUBSET (1 .. Len(v))
  /\ iter[0] = 1
  /\ \A n \in 1 .. Len(v) : \E stop \in iter[n - 1] .. Len(u) + 1 :
       /\ \A j \in iter[n - 1] .. stop - 1 : u[j] < v[n]
       /\ \/ stop = Len(u) + 1 /\ n \notin hits /\ iter[n] = stop
          \/ /\ stop <= Len(u) /\ v[n] < u[stop]
             /\ n \notin hits /\ iter[n] = stop
          \/ /\ stop <= Len(u) /\ u[stop] = v[n]
             /\ n \in hits /\ iter[n] = stop + 1

Ids(s) == Len(s) \in Nat /\ \A k \in 1 .. Len(s) : s[k] \in Nat

\* Ids are handed out upwards and subscribe() appends.
InOrderOfIds(v) ==
  /\ Ids(v)
  /\ \A n, k \in 1 .. Len(v) : n < k => v[n] < v[k]

\* What the walk has passed is no more than the subscriber it was called on
\* last.  The least call after which it were more would contradict the one
\* before.
LEMMA WalkHasPassed ==
  ASSUME NEW v, InOrderOfIds(v), NEW u, Ids(u),
         NEW iter, NEW hits, Walk(v, u, iter, hits)
  PROVE  \A n \in 1 .. Len(v) : \A j \in 1 .. iter[n] - 1 : u[j] <= v[n]
<1> DEFINE Bad == {n \in 1 .. Len(v) : \E j \in 1 .. iter[n] - 1 : ~(u[j] <= v[n])}
<1>1. SUFFICES ASSUME Bad # {} PROVE FALSE
  OBVIOUS
<1>2. Len(v) \in Nat /\ Len(u) \in Nat /\ Bad \in SUBSET Nat
  BY DEF InOrderOfIds, Ids
<1>3. PICK n \in Bad : \A k \in Bad : n <= k
  <2> HIDE DEF Bad
  <2> QED BY <1>1, <1>2, LeastNatural
<1>4. PICK j \in 1 .. iter[n] - 1 : ~(u[j] <= v[n])
  BY <1>3
<1>5. /\ n \in 1 .. Len(v) /\ n \in Nat /\ n - 1 \in 0 .. Len(v)
      /\ iter[n] \in 1 .. Len(u) + 1 /\ iter[n - 1] \in 1 .. Len(u) + 1
      /\ j \in 1 .. Len(u) /\ u[j] \in Nat /\ v[n] \in Nat
  <2>1. n \in 1 .. Len(v) /\ n - 1 \in 0 .. Len(v) /\ n \in 0 .. Len(v)
    BY <1>2, <1>3
  <2>2. iter[n] \in 1 .. Len(u) + 1 /\ iter[n - 1] \in 1 .. Len(u) + 1
    BY <2>1 DEF Walk
  <2>3. j \in 1 .. Len(u)
    BY <1>2, <1>4, <2>2
  <2> QED BY <1>2, <2>1, <2>2, <2>3 DEF InOrderOfIds, Ids
<1>6. v[n] < u[j]
  BY <1>4, <1>5
<1>7. PICK stop \in iter[n - 1] .. Len(u) + 1 :
        /\ \A k \in iter[n - 1] .. stop - 1 : u[k] < v[n]
        /\ \/ iter[n] = stop
           \/ iter[n] = stop + 1 /\ u[stop] = v[n]
  BY <1>5 DEF Walk
<1>8. j < iter[n - 1]
  <2>1. stop \in Nat /\ j \in Nat /\ iter[n - 1] \in Nat
    BY <1>2, <1>5
  <2>2. u[j] # v[n] /\ ~(u[j] < v[n])
    BY <1>5, <1>6
  <2>3. CASE iter[n] = stop
    <3>1. j \notin iter[n - 1] .. stop - 1 /\ j <= stop - 1
      BY <1>4, <1>7, <2>1, <2>2, <2>3
    <3> QED BY <2>1, <3>1
  <2>4. CASE iter[n] = stop + 1 /\ u[stop] = v[n]
    <3>1. j \notin iter[n - 1] .. stop - 1 /\ j # stop /\ j <= stop
      BY <1>4, <1>7, <2>1, <2>2, <2>4
    <3> QED BY <2>1, <3>1
  <2> QED BY <1>7, <2>3, <2>4
<1>9. CASE n = 1
  BY <1>5, <1>8, <1>9 DEF Walk
<1>10. CASE n # 1
  <2>1. n - 1 \in 1 .. Len(v) /\ n - 1 < n
    BY <1>5, <1>10
  <2>2. n - 1 \notin Bad
    BY <1>3, <1>5, <2>1
  <2>3. u[j] <= v[n - 1]
    BY <1>5, <1>8, <2>1, <2>2
  <2>4. v[n - 1] < v[n] /\ v[n - 1] \in Nat
    BY <1>5, <2>1 DEF InOrderOfIds, Ids
  <2> QED BY <1>5, <1>6, <2>3, <2>4
<1> QED BY <1>9, <1>10

\* The walk is defined for every _subs and _unsubs: each call has a place to
\* stop, which is not before the one where the last call left off.
LEMMA WalkExists ==
  ASSUME NEW v, InOrderOfIds(v), NEW u, Ids(u)
  PROVE  \E iter, hits : Walk(v, u, iter, hits)
<1> DEFINE Stops(n) == {k \in 1 .. Len(u) + 1 :
                          k = Len(u) + 1 \/ v[n] <= u[k]}
           Stop(n) == CHOOSE k \in Stops(n) : \A j \in Stops(n) : k <= j
           Hit(n) == Stop(n) <= Len(u) /\ u[Stop(n)] = v[n]
           iter == [n \in 0 .. Len(v) |->
                      IF n = 0 THEN 1
                      ELSE IF Hit(n) THEN Stop(n) + 1 ELSE Stop(n)]
           hits == {n \in 1 .. Len(v) : Hit(n)}
<1>1. /\ Len(v) \in Nat /\ Len(u) \in Nat
      /\ \A n \in 1 .. Len(v) : v[n] \in Nat
      /\ \A k \in 1 .. Len(u) : u[k] \in Nat
  BY DEF InOrderOfIds, Ids
<1>2. ASSUME NEW n \in 1 .. Len(v)
      PROVE  /\ Stop(n) \in 1 .. Len(u) + 1
             /\ Stop(n) = Len(u) + 1 \/ v[n] <= u[Stop(n)]
             /\ \A j \in 1 .. Stop(n) - 1 : u[j] < v[n]
  <2>1. Len(u) + 1 \in Stops(n) /\ Stops(n) \in SUBSET Nat
    BY <1>1
  <2>2. \E k \in Stops(n) : \A j \in Stops(n) : k <= j
    <3> HIDE DEF Stops
    <3> QED BY <2>1, LeastNatural
  <2>3. Stop(n) \in Stops(n) /\ \A j \in Stops(n) : Stop(n) <= j
    <3> HIDE DEF Stops
    <3> QED BY <2>2
  <2> HIDE DEF Stop
  <2>4. ASSUME NEW j \in 1 .. Stop(n) - 1 PROVE u[j] < v[n]
    <3>1. j \in 1 .. Len(u) + 1 /\ j # Len(u) + 1 /\ ~(Stop(n) <= j)
      BY <1>1, <2>3
    <3>2. j \notin Stops(n)
      BY <2>3, <3>1
    <3>3. u[j] \in Nat /\ v[n] \in Nat
      BY <1>1, <3>1
    <3> QED BY <3>1, <3>2, <3>3
  <2> QED BY <2>3, <2>4
<1> HIDE DEF Stop
<1>3. iter \in [0 .. Len(v) -> 1 .. Len(u) + 1]
  <2> SUFFICES ASSUME NEW n \in 0 .. Len(v)
               PROVE  iter[n] \in 1 .. Len(u) + 1
    OBVIOUS
  <2>1. CASE n = 0
    BY <1>1, <2>1
  <2>2. CASE n # 0
    <3>1. n \in 1 .. Len(v)
      BY <1>1, <2>2
    <3> QED BY <1>1, <1>2, <2>2, <3>1
  <2> QED BY <2>1, <2>2
<1>4. ASSUME NEW n \in 1 .. Len(v)
      PROVE  Stop(n) \in iter[n - 1] .. Len(u) + 1
  <2>1. n - 1 \in 0 .. Len(v) /\ n \in Nat
    BY <1>1
  <2>2. CASE n = 1
    <3>1. iter[n - 1] = 1
      BY <2>1, <2>2
    <3> QED BY <1>2, <3>1
  <2>3. CASE n # 1
    <3>1. n - 1 \in 1 .. Len(v) /\ n - 1 < n /\ n - 1 # 0
      BY <1>1, <2>1, <2>3
    <3>2. v[n - 1] < v[n] /\ v[n - 1] \in Nat /\ v[n] \in Nat
      BY <3>1 DEF InOrderOfIds, Ids
    <3>3. /\ Stop(n - 1) \in 1 .. Len(u) + 1
          /\ \A j \in 1 .. Stop(n - 1) - 1 : u[j] < v[n - 1]
      BY <1>2, <3>1
    <3>4. /\ Stop(n) \in 1 .. Len(u) + 1
          /\ Stop(n) = Len(u) + 1 \/ v[n] <= u[Stop(n)]
      BY <1>2
    <3>5. Stop(n - 1) <= Stop(n)
      <4>1. SUFFICES ASSUME Stop(n) \in 1 .. Stop(n - 1) - 1 PROVE FALSE
        BY <1>1, <3>3, <3>4
      <4>2. Stop(n) \in 1 .. Len(u) /\ u[Stop(n)] < v[n - 1]
        BY <1>1, <3>3, <4>1
      <4>3. u[Stop(n)] \in Nat /\ v[n] <= u[Stop(n)]
        BY <1>1, <3>4, <4>2
      <4> QED BY <3>2, <4>2, <4>3
    <3>6. CASE Hit(n - 1)
      <4>1. Stop(n) # Stop(n - 1)
        BY <1>1, <3>2, <3>3, <3>4, <3>6
      <4>2. iter[n - 1] = Stop(n - 1) + 1
        BY <2>1, <3>1, <3>6
      <4> QED BY <1>1, <3>3, <3>4, <3>5, <4>1, <4>2
    <3>7. CASE ~Hit(n - 1)
      <4>1. iter[n - 1] = Stop(n - 1)
        BY <2>1, <3>1, <3>7
      <4> QED BY <1>1, <3>3, <3>4, <3>5, <4>1
    <3> QED BY <3>6, <3>7
  <2> QED BY <2>2, <2>3
<1>5. ASSUME NEW n \in 1 .. Len(v)
      PROVE  /\ \A j \in iter[n - 1] .. Stop(n) - 1 : u[j] < v[n]
             /\ \/ /\ Stop(n) = Len(u) + 1
                   /\ n \notin hits /\ iter[n] = Stop(n)
                \/ /\ Stop(n) <= Len(u) /\ v[n] < u[Stop(n)]
                   /\ n \notin hits /\ iter[n] = Stop(n)
                \/ /\ Stop(n) <= Len(u) /\ u[Stop(n)] = v[n]
                   /\ n \in hits /\ iter[n] = Stop(n) + 1
  <2>1. /\ n \in 0 .. Len(v) /\ n # 0 /\ n - 1 \in 0 .. Len(v)
        /\ iter[n - 1] \in 1 .. Len(u) + 1
    <3>1. n \in 0 .. Len(v) /\ n # 0 /\ n - 1 \in 0 .. Len(v)
      BY <1>1
    <3> HIDE DEF iter
    <3> QED BY <1>3, <3>1
  <2>2. iter[n] = IF Hit(n) THEN Stop(n) + 1 ELSE Stop(n)
    BY <2>1
  <2>3. \A j \in iter[n - 1] .. Stop(n) - 1 : j \in 1 .. Stop(n) - 1
    BY <1>1, <1>2, <2>1
  <2>4. Stop(n) <= Len(u) => u[Stop(n)] \in Nat /\ v[n] \in Nat
    BY <1>1, <1>2
  <2>5. n \in hits <=> Hit(n)
    OBVIOUS
  <2> HIDE DEF iter, hits
  <2>6. \A j \in iter[n - 1] .. Stop(n) - 1 : u[j] < v[n]
    BY <1>2, <2>3
  <2>7. Stop(n) <= Len(u) => v[n] < u[Stop(n)] \/ u[Stop(n)] = v[n]
    <3>1. Stop(n) = Len(u) + 1 \/ v[n] <= u[Stop(n)]
      BY <1>2
    <3>2. Stop(n) = Len(u) + 1 => ~(Stop(n) <= Len(u))
      BY <1>1
    <3>3. ASSUME Stop(n) <= Len(u)
          PROVE  v[n] < u[Stop(n)] \/ u[Stop(n)] = v[n]
      <4>1. u[Stop(n)] \in Nat /\ v[n] \in Nat /\ v[n] <= u[Stop(n)]
        BY <2>4, <3>1, <3>2, <3>3
      <4> QED BY <4>1
    <3> QED BY <3>3
  <2>8. Stop(n) <= Len(u) \/ Stop(n) = Len(u) + 1
    BY <1>1, <1>2
  <2>9. ~(Len(u) + 1 <= Len(u))
    BY <1>1
  <2> QED BY <2>2, <2>5, <2>6, <2>7, <2>8, <2>9
<1>6. iter[0] = 1 /\ hits \in SUBSET (1 .. Len(v))
  BY <1>1
<1> HIDE DEF iter, hits
<1>7. Walk(v, u, iter, hits)
  BY <1>3, <1>4, <1>5, <1>6 DEF Walk
<1> QED BY <1>7

\* Who stays after the loop is Unmarked's answer, whatever _unsubs holds and
\* in whatever order (publisher.cpp:71-88).
THEOREM UnmarkedIsTheLoop ==
  ASSUME NEW v, InOrderOfIds(v), NEW u, Ids(u),
         NEW iter, NEW hits, Walk(v, u, iter, hits)
  PROVE  {v[n] : n \in (1 .. Len(v)) \ hits}
           = Unmarked({v[n] : n \in 1 .. Len(v)}, u)
<1>1. Len(v) \in Nat /\ Len(u) \in Nat
  BY DEF InOrderOfIds, Ids
<1>2. ASSUME NEW n \in 1 .. Len(v)
      PROVE  n \in hits <=> \E k \in 1 .. Len(u) :
               u[k] = v[n] /\ \A j \in 1 .. k - 1 : u[j] < v[n]
  <2>1. /\ n - 1 \in 0 .. Len(v) /\ n \in Nat /\ v[n] \in Nat
        /\ iter[n - 1] \in 1 .. Len(u) + 1 /\ iter[0] = 1
    <3>1. n - 1 \in 0 .. Len(v) /\ n \in Nat
      BY <1>1
    <3>2. iter[n - 1] \in 1 .. Len(u) + 1 /\ iter[0] = 1
      BY <3>1 DEF Walk
    <3> QED BY <3>1, <3>2 DEF InOrderOfIds, Ids
  <2>2. PICK stop \in iter[n - 1] .. Len(u) + 1 :
          /\ \A j \in iter[n - 1] .. stop - 1 : u[j] < v[n]
          /\ \/ stop = Len(u) + 1 /\ n \notin hits
             \/ stop <= Len(u) /\ v[n] < u[stop] /\ n \notin hits
             \/ stop <= Len(u) /\ u[stop] = v[n] /\ n \in hits
    BY DEF Walk
  <2>3. ASSUME NEW j \in 1 .. iter[n - 1] - 1 PROVE u[j] < v[n]
    <3>1. CASE n = 1
      BY <2>1, <3>1
    <3>2. CASE n # 1
      <4>1. n - 1 \in 1 .. Len(v) /\ n - 1 < n
        BY <1>1, <2>1, <3>2
      <4>2. u[j] <= v[n - 1]
        BY <4>1, WalkHasPassed
      <4>3. v[n - 1] < v[n] /\ v[n - 1] \in Nat
        BY <4>1 DEF InOrderOfIds, Ids
      <4>4. u[j] \in Nat
        BY <1>1, <2>1 DEF Ids
      <4> QED BY <2>1, <4>2, <4>3, <4>4
    <3> QED BY <3>1, <3>2
  <2>4. stop \in Nat /\ \A j \in 1 .. stop - 1 : u[j] < v[n]
    BY <1>1, <2>1, <2>2, <2>3
  <2>5. CASE n \in hits
    BY <1>1, <2>1, <2>2, <2>4, <2>5
  <2>6. CASE n \notin hits
    <3>1. ASSUME NEW k \in 1 .. Len(u), u[k] = v[n],
                 \A j \in 1 .. k - 1 : u[j] < v[n]
          PROVE  FALSE
      <4>1. stop <= k
        BY <1>1, <2>1, <2>4, <3>1
      <4>2. stop <= Len(u) /\ v[n] < u[stop] /\ stop \in 1 .. Len(u)
        BY <1>1, <2>1, <2>2, <2>6, <3>1, <4>1
      <4>3. u[stop] \in Nat
        BY <4>2 DEF Ids
      <4>4. stop = k \/ stop \in 1 .. k - 1
        BY <4>1, <4>2
      <4> QED BY <2>1, <3>1, <4>2, <4>3, <4>4
    <3> QED BY <2>6, <3>1
  <2> QED BY <2>5, <2>6
<1>3. \A n, k \in 1 .. Len(v) : v[n] = v[k] => n = k
  BY <1>1 DEF InOrderOfIds, Ids
<1> DEFINE All == {v[n] : n \in 1 .. Len(v)}
<1>4. ASSUME NEW n \in 1 .. Len(v)
      PROVE  v[n] \in Unmarked(All, u) <=> n \notin hits
  BY <1>2 DEF Unmarked
<1>5. \A x \in Unmarked(All, u) : \E n \in 1 .. Len(v) : x = v[n]
  BY DEF Unmarked
<1> HIDE DEF All
<1>6. {v[n] : n \in (1 .. Len(v)) \ hits} = Unmarked(All, u)
  BY <1>4, <1>5
<1> QED BY <1>6 DEF All

-----------------------------------------------------------------------------
(* The theorems.                                                           *)

THEOREM Invariance == Spec => []PInv
  BY InitPInv, NextPInv, PTL DEF Spec

\* In particular _unsubs only ever names subscribers.
THEOREM TypeCorrect == Spec => []TypeOK
<1>1. PInv => TypeOK
  BY DEF PInv
<1> QED BY <1>1, Invariance, PTL

\* After an undisturbed history no subscriber who has to go is left: the
\* order of _unsubs makes the single walk of do_unsubscribe sufficient.
THEOREM MarkedRemoved == Spec => []MarkedAreRemoved
<1>1. PInv => MarkedAreRemoved
  BY EmptyMembers DEF PInv, CycleState, MarksComplete, MarkedAreRemoved
<1> QED BY <1>1, Invariance, PTL

\* Disturbed or not, nobody loses a subscription that was not given up.
THEOREM NobodyElse == Spec => []NobodyElseRemoved
<1>1. PInv => NobodyElseRemoved
  BY DEF PInv
<1> QED BY <1>1, Invariance, PTL

\* The vector is not changed under the loop of publish().
THEOREM StableCycle == Spec => CycleIsStable
<1>1. [Next]_vars => [inp => (inp' => subs' = subs)]_vars
  BY DEF Next, vars, Subscribe, Unsubscribe, Publish, CallbackUnsubscribe,
         CallbackReturnsTrue, CallbackAsksRemoval, EndPublish, Reset,
         ResetClear
<1> QED BY <1>1, PTL DEF Spec, CycleIsStable
=============================================================================
