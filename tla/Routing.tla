------------------------------ MODULE Routing ------------------------------
(***************************************************************************)
(* MethodList: which entry a called name finds. Methods are found by their *)
(* name; routes are namespaces, kept in a map that runs downwards, of      *)
(* which one is tried.  A name is a sequence of characters, characters are *)
(* numbers.                                                                *)
(***************************************************************************)
EXTENDS Naturals, Sequences

IsPrefixOf(p, name) ==
  Len(p) <= Len(name) /\ \A i \in DOMAIN p : p[i] = name[i]

\* s <= t as std::string compares.
NotAbove(s, t) ==
  \/ IsPrefixOf(s, t)
  \/ \E i \in DOMAIN s \cap DOMAIN t :
       s[i] < t[i] /\ \A j \in 1 .. i - 1 : s[j] = t[j]

\* What proxies.lower_bound(name) can return: the map is ordered by
\* std::greater, so it is the first of those not above the name.
LowerBound(proxies, name) ==
  {p \in proxies : NotAbove(p, name) /\
                   \A q \in proxies : NotAbove(q, name) => NotAbove(q, p)}

RouteOf(proxies, name) ==
  {p \in LowerBound(proxies, name) : IsPrefixOf(p, name)}

\* The entries are sets with a member at most, empty for nullptr.
find_method(methods, proxies, name) ==
  IF name \in methods THEN {[type |-> "method", name |-> name]}
  ELSE {[type |-> "route", name |-> p] : p \in RouteOf(proxies, name)}

find_doc(methods, name) == methods \cap {name}

\* with_discover: the routes that were given a DiscoverCall.
find_route_discover(proxies, with_discover, name) ==
  RouteOf(proxies, name) \cap with_discover

\* How on_discover answers a query that is not empty.
DiscoverAnswer(methods, proxies, with_discover, name) ==
  IF find_doc(methods, name) # {} THEN "doc"
  ELSE IF find_route_discover(proxies, with_discover, name) # {} THEN "ask"
  ELSE "methodNotFound"
-----------------------------------------------------------------------------
\* One entry at most is found, and a route that is found is the longest of
\* the routes that are prefixes of the name.
FindsTheLongestRoute(methods, proxies, name) ==
  \A e, f \in find_method(methods, proxies, name) :
    /\ e = f
    /\ e.type = "route" =>
         \A p \in proxies : IsPrefixOf(p, name) => Len(p) <= Len(e.name)

\* A route that is a prefix is missed exactly when a route that is not lies
\* between it and the name: routes "ab" and "abc" hide each other's names
\* only for those above "abc" ("abd" does not find "ab").
MissesOnlyHiddenRoutes(proxies, name) ==
  RouteOf(proxies, name) = {} <=>
    \A p \in proxies : IsPrefixOf(p, name) =>
      \E q \in proxies : ~IsPrefixOf(q, name) /\ NotAbove(q, name)
                           /\ NotAbove(p, q)
=============================================================================
