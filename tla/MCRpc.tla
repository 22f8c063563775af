------------------------------- MODULE MCRpc -------------------------------
(***************************************************************************)
(* Rpc with model values for the calls, for TLC, and the check of what a   *)
(* called name finds (Routing) for all names of up to three of two         *)
(* characters and all sets of up to three routes.                          *)
(***************************************************************************)
EXTENDS Rpc, TLC, FiniteSetsExt

Symmetry == Permutations(Calls) \cup Permutations(Peers)

\* As many ids as there are with IdSpace = 2, so that none comes twice.
TwoIds == [p \in Peers |-> 2]

\* The client comes back to its first id.
OneTwice == [p \in Peers |-> IF p = Client THEN 3 ELSE 1]

M == INSTANCE Routing

ShortNames == UNION {[1 .. n -> {1, 2}] : n \in 0 .. 3}
RouteSets == UNION {kSubset(n, ShortNames) : n \in 0 .. 3}

ASSUME LookupIsRight ==
  \A proxies \in RouteSets : \A name \in ShortNames :
    /\ M!FindsTheLongestRoute({}, proxies, name)
    /\ M!MissesOnlyHiddenRoutes(proxies, name)
=============================================================================
