----------------------------- MODULE RpcPromise -----------------------------
(***************************************************************************)
(* What a call promises its issuer, whatever happens below: the callee     *)
(* gives at most one verdict that counts, the issuer learns exactly that   *)
(* verdict, once, or never hears of the call again; a call on a dead peer  *)
(* is refused at once.                                                     *)
(***************************************************************************)
CONSTANT Calls

VARIABLES
  outcome,  \* what the issuer of a call knows
  verdict   \* what the callee said first, "none" before that

vars == <<outcome, verdict>>

AnswerTypes == {"result", "exception", "execute_error"}

Init ==
  /\ outcome = [c \in Calls |-> "idle"]
  /\ verdict = [c \in Calls |-> "none"]

Issue(c) ==
  /\ outcome[c] = "idle"
  /\ outcome' = [outcome EXCEPT ![c] = "pending"]
  /\ UNCHANGED verdict

Refuse(c) ==
  /\ outcome[c] = "idle"
  /\ outcome' = [outcome EXCEPT ![c] = "disconnected"]
  /\ UNCHANGED verdict

Decide(c) ==
  /\ outcome[c] = "pending"
  /\ verdict[c] = "none"
  /\ \E type \in AnswerTypes : verdict' = [verdict EXCEPT ![c] = type]
  /\ UNCHANGED outcome

Complete(c) ==
  /\ outcome[c] = "pending"
  /\ verdict[c] # "none"
  /\ outcome' = [outcome EXCEPT ![c] = verdict[c]]
  /\ UNCHANGED verdict

\* The issuer's Peer is destroyed with the callbacks of its pending calls.
Drop(S) ==
  /\ \A c \in S : outcome[c] = "pending"
  /\ outcome' = [c \in Calls |-> IF c \in S THEN "dropped" ELSE outcome[c]]
  /\ UNCHANGED verdict

Next ==
  \/ \E c \in Calls : Issue(c) \/ Refuse(c) \/ Decide(c) \/ Complete(c)
  \/ \E S \in SUBSET Calls : Drop(S)

Spec == Init /\ [][Next]_vars
=============================================================================
