--------------------------- MODULE RoutingProofs ---------------------------
(* What a lookup in MethodList returns, for every set of routes.           *)
EXTENDS Routing, FiniteSets, FiniteSetTheorems, SequenceTheorems,
        WellFoundedInduction, TLAPS

\* A non-empty set of naturals has a least element.
LEMMA LeastNatural ==
  ASSUME NEW T \in SUBSET Nat, T # {}
  PROVE  \E x \in T : \A y \in T : x <= y
<1> DEFINE R == {ss \in Nat \X Nat : ss[1] < ss[2]}
<1>1. IsWellFoundedOn(R, Nat)
  BY NatLessThanWellFounded DEF OpToRel
<1>2. PICK x \in T : \A y \in T : ~ (<<y, x>> \in R)
  <2> HIDE DEF R
  <2> QED BY <1>1, WFMin
<1>3. ASSUME NEW y \in T PROVE x <= y
  <2>1. x \in Nat /\ y \in Nat /\ ~ (<<y, x>> \in R)
    BY <1>2
  <2>2. ~ (y < x)
    BY <2>1
  <2> QED BY <2>1, <2>2
<1> QED BY <1>3

\* Of two prefixes of a name, the one that is not above the other is not
\* longer.
LEMMA PrefixesCompareByLength ==
  ASSUME NEW name \in Seq(Nat), NEW p \in Seq(Nat), NEW q \in Seq(Nat),
         IsPrefixOf(p, name), IsPrefixOf(q, name), NotAbove(p, q)
  PROVE  Len(p) <= Len(q)
<1>1. CASE IsPrefixOf(p, q)
  BY <1>1 DEF IsPrefixOf
<1>2. CASE ~IsPrefixOf(p, q)
  <2>1. PICK i \in DOMAIN p \cap DOMAIN q : p[i] < q[i]
    BY <1>2 DEF NotAbove
  <2>2. p[i] = name[i] /\ q[i] = name[i] /\ p[i] \in Nat
    BY DEF IsPrefixOf
  <2>3. QED
    BY <2>1, <2>2
<1>3. QED
  BY <1>1, <1>2

\* Two prefixes of a name that have the same length are the same.
LEMMA PrefixesOfOneLength ==
  ASSUME NEW name \in Seq(Nat), NEW p \in Seq(Nat), NEW q \in Seq(Nat),
         IsPrefixOf(p, name), IsPrefixOf(q, name), Len(p) = Len(q)
  PROVE  p = q
<1>1. DOMAIN p = 1 .. Len(p) /\ DOMAIN q = 1 .. Len(q)
  OBVIOUS
<1>2. \A i \in DOMAIN p : p[i] = name[i] /\ q[i] = name[i]
  BY <1>1 DEF IsPrefixOf
<1>3. \A i \in 1 .. Len(p) : p[i] = q[i]
  BY <1>1, <1>2
<1>4. QED
  BY <1>3, SeqEqual

\* A prefix of a name is not above it.
LEMMA PrefixIsNotAbove ==
  ASSUME NEW p, NEW name, IsPrefixOf(p, name)
  PROVE  NotAbove(p, name)
BY DEF NotAbove

-----------------------------------------------------------------------------
(* The order of the map.                                                   *)

IsName(s) ==
  /\ Len(s) \in Nat /\ DOMAIN s = 1 .. Len(s)
  /\ \A i \in 1 .. Len(s) : s[i] \in Nat

LEMMA NamesAre == ASSUME NEW s \in Seq(Nat) PROVE IsName(s)
  BY DEF IsName

\* s is below t, at the ith character.
Below(s, t, i) ==
  /\ i \in 1 .. Len(s) /\ i \in 1 .. Len(t)
  /\ s[i] < t[i] /\ \A j \in 1 .. i - 1 : s[j] = t[j]

LEMMA NotAboveIs ==
  ASSUME NEW s, IsName(s), NEW t, IsName(t)
  PROVE  /\ NotAbove(s, t) <=> IsPrefixOf(s, t) \/ \E i \in Nat : Below(s, t, i)
         /\ IsPrefixOf(s, t) <=>
              Len(s) <= Len(t) /\ \A i \in 1 .. Len(s) : s[i] = t[i]
<1>1. DOMAIN s = 1 .. Len(s) /\ DOMAIN t = 1 .. Len(t)
  BY DEF IsName
<1>2. IsPrefixOf(s, t) <=>
        Len(s) <= Len(t) /\ \A i \in 1 .. Len(s) : s[i] = t[i]
  BY <1>1 DEF IsPrefixOf
<1>3. \A i : i \in DOMAIN s \cap DOMAIN t
               <=> i \in Nat /\ i \in 1 .. Len(s) /\ i \in 1 .. Len(t)
  BY <1>1 DEF IsName
<1> QED BY <1>2, <1>3 DEF NotAbove, Below

\* Characters have a first difference or none.
LEMMA NotAboveIsTotal ==
  ASSUME NEW s, IsName(s), NEW t, IsName(t)
  PROVE  NotAbove(s, t) \/ NotAbove(t, s)
<1> DEFINE Diff == {i \in 1 .. Len(s) : i \in 1 .. Len(t) /\ s[i] # t[i]}
<1>1. /\ Len(s) \in Nat /\ Len(t) \in Nat
      /\ \A i \in 1 .. Len(s) : s[i] \in Nat
      /\ \A i \in 1 .. Len(t) : t[i] \in Nat
  BY DEF IsName
<1>2. CASE Diff = {}
  <2>1. \A i \in 1 .. Len(s) : i \in 1 .. Len(t) => s[i] = t[i]
    BY <1>2
  <2>2. CASE Len(s) <= Len(t)
    <3>1. \A i \in 1 .. Len(s) : s[i] = t[i]
      BY <1>1, <2>1, <2>2
    <3> QED BY <2>2, <3>1, NotAboveIs
  <2>3. CASE ~(Len(s) <= Len(t))
    <3>1. Len(t) <= Len(s) /\ \A i \in 1 .. Len(t) : t[i] = s[i]
      BY <1>1, <2>1, <2>3
    <3> QED BY <3>1, NotAboveIs
  <2> QED BY <2>2, <2>3
<1>3. CASE Diff # {}
  <2>1. Diff \in SUBSET Nat
    BY <1>1
  <2>2. PICK i \in Diff : \A j \in Diff : i <= j
    <3> HIDE DEF Diff
    <3> QED BY <1>3, <2>1, LeastNatural
  <2>3. /\ i \in Nat /\ i \in 1 .. Len(s) /\ i \in 1 .. Len(t)
        /\ s[i] # t[i] /\ s[i] \in Nat /\ t[i] \in Nat
    BY <1>1, <2>1
  <2>4. \A j \in 1 .. i - 1 : s[j] = t[j]
    <3>1. \A j \in 1 .. i - 1 :
            j \in 1 .. Len(s) /\ j \in 1 .. Len(t) /\ ~(i <= j)
      BY <1>1, <2>3
    <3> QED BY <2>2, <3>1
  <2>5. Below(s, t, i) \/ Below(t, s, i)
    BY <2>3, <2>4 DEF Below
  <2> QED BY <2>3, <2>5, NotAboveIs
<1> QED BY <1>2, <1>3

LEMMA NotAboveIsTransitive ==
  ASSUME NEW a, IsName(a), NEW b, IsName(b), NEW c, IsName(c),
         NotAbove(a, b), NotAbove(b, c)
  PROVE  NotAbove(a, c)
<1>1. /\ Len(a) \in Nat /\ Len(b) \in Nat /\ Len(c) \in Nat
      /\ \A i \in 1 .. Len(a) : a[i] \in Nat
      /\ \A i \in 1 .. Len(b) : b[i] \in Nat
      /\ \A i \in 1 .. Len(c) : c[i] \in Nat
  BY DEF IsName
<1>2. CASE IsPrefixOf(a, b) /\ IsPrefixOf(b, c)
  <2>1. /\ Len(a) <= Len(b) /\ \A i \in 1 .. Len(a) : a[i] = b[i]
        /\ Len(b) <= Len(c) /\ \A i \in 1 .. Len(b) : b[i] = c[i]
    BY <1>2, NotAboveIs
  <2>2. Len(a) <= Len(c) /\ \A i \in 1 .. Len(a) : a[i] = c[i]
    BY <1>1, <2>1
  <2> QED BY <2>2, NotAboveIs
<1>3. ASSUME IsPrefixOf(a, b), NEW i \in Nat, Below(b, c, i)
      PROVE  NotAbove(a, c)
  <2>1. Len(a) <= Len(b) /\ \A j \in 1 .. Len(a) : a[j] = b[j]
    BY <1>3, NotAboveIs
  <2>2. CASE i <= Len(a)
    <3>1. Below(a, c, i)
      BY <1>1, <1>3, <2>1, <2>2 DEF Below
    <3> QED BY <3>1, NotAboveIs
  <2>3. CASE ~(i <= Len(a))
    <3>1. Len(a) <= Len(c) /\ \A j \in 1 .. Len(a) : a[j] = c[j]
      BY <1>1, <1>3, <2>1, <2>3 DEF Below
    <3> QED BY <3>1, NotAboveIs
  <2> QED BY <2>2, <2>3
<1>4. ASSUME NEW i \in Nat, Below(a, b, i), IsPrefixOf(b, c)
      PROVE  NotAbove(a, c)
  <2>1. Len(b) <= Len(c) /\ \A j \in 1 .. Len(b) : b[j] = c[j]
    BY <1>4, NotAboveIs
  <2>2. Below(a, c, i)
    BY <1>1, <1>4, <2>1 DEF Below
  <2> QED BY <2>2, NotAboveIs
<1>5. ASSUME NEW i \in Nat, Below(a, b, i), NEW k \in Nat, Below(b, c, k)
      PROVE  NotAbove(a, c)
  <2>1. CASE i <= k
    <3>1. Below(a, c, i)
      BY <1>1, <1>5, <2>1 DEF Below
    <3> QED BY <3>1, NotAboveIs
  <2>2. CASE ~(i <= k)
    <3>1. Below(a, c, k)
      BY <1>1, <1>5, <2>2 DEF Below
    <3> QED BY <3>1, NotAboveIs
  <2> QED BY <2>1, <2>2
<1> QED BY <1>2, <1>3, <1>4, <1>5, NotAboveIs

LEMMA NotAboveIsAntisymmetric ==
  ASSUME NEW s \in Seq(Nat), NEW t \in Seq(Nat), NotAbove(s, t), NotAbove(t, s)
  PROVE  s = t
<1>1. IsName(s) /\ IsName(t)
  BY NamesAre
<1>2. CASE IsPrefixOf(s, t) /\ IsPrefixOf(t, s)
  <2>1. /\ Len(s) <= Len(t) /\ \A i \in 1 .. Len(s) : s[i] = t[i]
        /\ Len(t) <= Len(s)
    BY <1>1, <1>2, NotAboveIs
  <2>2. Len(s) = Len(t)
    BY <2>1
  <2> QED BY <2>1, <2>2, SeqEqual
<1>3. ASSUME NEW x, IsName(x), NEW y, IsName(y),
             NEW i \in Nat, Below(x, y, i),
             IsPrefixOf(y, x) \/ \E k \in Nat : Below(y, x, k)
      PROVE  FALSE
  <2>1. x[i] \in Nat /\ y[i] \in Nat /\ x[i] < y[i] /\ i \in 1 .. Len(y)
    BY <1>3 DEF Below, IsName
  <2>2. CASE IsPrefixOf(y, x)
    <3>1. y[i] = x[i]
      BY <1>3, <2>1, <2>2, NotAboveIs
    <3> QED BY <2>1, <3>1
  <2>3. ASSUME NEW k \in Nat, Below(y, x, k) PROVE FALSE
    <3>1. /\ y[k] < x[k] /\ k \in 1 .. Len(y) /\ k \in 1 .. Len(x)
          /\ y[k] \in Nat /\ x[k] \in Nat
      BY <1>3, <2>3 DEF Below, IsName
    <3>2. CASE i < k
      BY <1>3, <2>1, <2>3, <3>2 DEF Below
    <3>3. CASE k < i
      BY <1>3, <2>3, <3>1, <3>3 DEF Below
    <3>4. CASE i = k
      BY <2>1, <3>1, <3>4
    <3> QED BY <3>2, <3>3, <3>4
  <2> QED BY <1>3, <2>2, <2>3
<1> QED BY <1>1, <1>2, <1>3, NotAboveIs

\* The first entry of a map is one that is not below another.
LEMMA HighestName ==
  ASSUME NEW C \in SUBSET Seq(Nat), IsFiniteSet(C), C # {}
  PROVE  \E h \in C : \A q \in C : NotAbove(q, h)
<1> DEFINE Under(p) == {q \in C : NotAbove(q, p)}
           Rest(p) == C \ Under(p)
           T == {Cardinality(Rest(p)) : p \in C}
<1>1. \A p \in C : IsFiniteSet(Rest(p)) /\ Cardinality(Rest(p)) \in Nat
  <2> SUFFICES ASSUME NEW p \in C
               PROVE  IsFiniteSet(Rest(p)) /\ Cardinality(Rest(p)) \in Nat
    OBVIOUS
  <2>1. Rest(p) \in SUBSET C
    OBVIOUS
  <2> HIDE DEF Rest
  <2> QED BY <2>1, FS_Subset, FS_CardinalityType
<1> HIDE DEF Rest
<1>2. T \in SUBSET Nat /\ T # {}
  BY <1>1
<1>3. PICK n \in T : \A m \in T : n <= m
  <2> HIDE DEF T
  <2> QED BY <1>2, LeastNatural
<1>4. PICK h \in C : n = Cardinality(Rest(h))
  OBVIOUS
<1>5. ASSUME NEW q \in C PROVE NotAbove(q, h)
  <2>1. SUFFICES ASSUME ~NotAbove(q, h) PROVE FALSE
    OBVIOUS
  <2>2. IsName(q) /\ IsName(h) /\ \A r \in C : IsName(r)
    BY NamesAre
  <2>3. NotAbove(h, q) /\ NotAbove(q, q)
    BY <2>1, <2>2, NotAboveIsTotal
  <2>4. \A r \in C : NotAbove(r, h) => NotAbove(r, q)
    BY <2>2, <2>3, NotAboveIsTransitive
  <2>5. Rest(q) \in SUBSET Rest(h)
    BY <2>4 DEF Rest
  <2>6. q \in Rest(h) /\ q \notin Rest(q)
    BY <2>1, <2>3 DEF Rest
  <2>7. /\ Cardinality(Rest(q)) <= Cardinality(Rest(h))
        /\ Cardinality(Rest(h)) = Cardinality(Rest(q)) => Rest(h) = Rest(q)
    BY <1>1, <2>5, FS_Subset
  <2>8. Cardinality(Rest(h)) <= Cardinality(Rest(q))
    BY <1>3, <1>4
  <2>9. Cardinality(Rest(h)) = Cardinality(Rest(q))
    BY <1>1, <2>7, <2>8
  <2> QED BY <2>6, <2>7, <2>9
<1> QED BY <1>5

-----------------------------------------------------------------------------
(* What a lookup returns.                                                  *)

\* What find_method returns is unique, and a route it returns is the longest
\* that fits (methodlist.h, find_method): the order of the map by
\* std::greater is what makes the more special route win.
THEOREM LongestRoute ==
  ASSUME NEW methods, NEW proxies \in SUBSET Seq(Nat), NEW name \in Seq(Nat)
  PROVE  FindsTheLongestRoute(methods, proxies, name)
<1>1. ASSUME NEW r \in RouteOf(proxies, name), NEW p \in proxies,
             IsPrefixOf(p, name)
      PROVE  Len(p) <= Len(r)
  <2>1. r \in proxies /\ IsPrefixOf(r, name)
    BY DEF RouteOf, LowerBound
  <2>2. NotAbove(p, name)
    BY <1>1, PrefixIsNotAbove
  <2>3. NotAbove(p, r)
    BY <2>2 DEF RouteOf, LowerBound
  <2>4. QED
    BY <1>1, <2>1, <2>3, PrefixesCompareByLength
<1>2. ASSUME NEW r \in RouteOf(proxies, name), NEW s \in RouteOf(proxies, name)
      PROVE  r = s
  <2>1. /\ r \in Seq(Nat) /\ IsPrefixOf(r, name) /\ r \in proxies
        /\ s \in Seq(Nat) /\ IsPrefixOf(s, name) /\ s \in proxies
    BY DEF RouteOf, LowerBound
  <2>2. Len(r) <= Len(s) /\ Len(s) <= Len(r)
    BY <1>1, <2>1
  <2>3. Len(r) = Len(s)
    BY <2>1, <2>2
  <2>4. QED
    BY <2>1, <2>3, PrefixesOfOneLength
<1>3. CASE name \in methods
  BY <1>3 DEF FindsTheLongestRoute, find_method
<1>4. CASE name \notin methods
  <2>1. find_method(methods, proxies, name)
          = {[type |-> "route", name |-> p] : p \in RouteOf(proxies, name)}
    BY <1>4 DEF find_method
  <2>2. QED
    BY <2>1, <1>1, <1>2 DEF FindsTheLongestRoute
<1>5. QED
  BY <1>3, <1>4

\* A lookup finds no route exactly when for each that is a prefix of the name
\* another, which is none, stands between it and the name in the map: of the
\* routes not above the name, find_method tests the first alone
\* (methodlist.h:95-105).
THEOREM HiddenRoutes ==
  ASSUME NEW proxies \in SUBSET Seq(Nat), IsFiniteSet(proxies),
         NEW name \in Seq(Nat)
  PROVE  MissesOnlyHiddenRoutes(proxies, name)
<1>1. ASSUME RouteOf(proxies, name) = {}, NEW p \in proxies,
             IsPrefixOf(p, name)
      PROVE  \E q \in proxies :
               ~IsPrefixOf(q, name) /\ NotAbove(q, name) /\ NotAbove(p, q)
  <2> DEFINE C == {q \in proxies : NotAbove(q, name)}
  <2>1. p \in C
    BY <1>1, PrefixIsNotAbove
  <2>2. C \in SUBSET Seq(Nat) /\ C \in SUBSET proxies
    OBVIOUS
  <2>3. PICK h \in C : \A q \in C : NotAbove(q, h)
    <3> HIDE DEF C
    <3>1. IsFiniteSet(C)
      BY <2>2, FS_Subset
    <3> QED BY <2>1, <2>2, <3>1, HighestName
  <2>4. h \in LowerBound(proxies, name)
    BY <2>3 DEF LowerBound
  <2>5. ~IsPrefixOf(h, name)
    BY <1>1, <2>4 DEF RouteOf
  <2> QED BY <2>1, <2>3, <2>5
<1>2. ASSUME NEW r \in RouteOf(proxies, name),
             NEW q \in proxies, ~IsPrefixOf(q, name), NotAbove(q, name),
             NotAbove(r, q)
      PROVE  FALSE
  <2>1. r \in proxies /\ IsPrefixOf(r, name) /\ NotAbove(q, r)
    BY <1>2 DEF RouteOf, LowerBound
  <2>2. r = q
    BY <1>2, <2>1, NotAboveIsAntisymmetric
  <2> QED BY <1>2, <2>1, <2>2
<1>3. \A r \in RouteOf(proxies, name) : r \in proxies /\ IsPrefixOf(r, name)
  BY DEF RouteOf, LowerBound
<1> QED BY <1>1, <1>2, <1>3 DEF MissesOnlyHiddenRoutes
=============================================================================
