---------------------------- MODULE MCPublisher ----------------------------
(***************************************************************************)
(* Publisher for TLC, and the check that Unmarked is what the loop of      *)
(* do_unsubscribe computes.                                                *)
(***************************************************************************)
EXTENDS Publisher, SequencesExt

CONSTANT Width  \* bound: ids and length of the inputs of the comparison

\* The predicate of std::remove_if on one subscriber: where the walk through
\* _unsubs stands, and who stays so far.
Visit(u, state, s) ==
  LET later == {k \in state.iter .. Len(u) : u[k] >= s}
      stop == IF later = {} THEN Len(u) + 1 ELSE Min(later)
  IN  IF stop <= Len(u) /\ u[stop] = s
      THEN [state EXCEPT !.iter = stop + 1]
      ELSE [state EXCEPT !.iter = stop, !.kept = @ \cup {s}]

DoUnsubscribe(S, u) ==
  FoldLeft(LAMBDA state, s : Visit(u, state, s), [iter |-> 1, kept |-> {}],
           SetToSortSeq(S, <)).kept

ASSUME UnmarkedIsTheLoop ==
  \A S \in SUBSET (1 .. Width) : \A u \in BoundedSeq(1 .. Width, Width) :
    Unmarked(S, u) = DoUnsubscribe(S, u)
=============================================================================
