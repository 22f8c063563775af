-------------------------------- MODULE Vars --------------------------------
(***************************************************************************)
(* The variables of a connection (Peer::VarSpace): local of one C++ peer,  *)
(* which its threads set, merge into and replace, and remote of the other, *)
(* which follows the announcements S and X. The map changes under _lock;   *)
(* what changed is announced after the unlock, by syncVar.                 *)
(*                                                                         *)
(* The connection holds.  context is a VarSpace nothing announces.         *)
(***************************************************************************)
EXTENDS Naturals, Sequences

CONSTANTS
  Names,   \* names of variables, numbers for the order of std::map
  Values,  \* the strings they are set to
  Unset,   \* std::nullopt, and the absence of a variable from a map
  Threads, \* the threads that use local
  MaxSets  \* bound: calls of set and merge

VARIABLES
  local,   \* local[n]
  remote,  \* remote[n] of the other peer
  rest,    \* rest[t]: what the merge of t has yet to set, Unset elsewhere
  erasing, \* the thread in the locked part of set(map), if one is
  changed, \* changed[t]: the changes t has made and has yet to announce
  wire,    \* the announcements on their way
  sets,    \* history: the calls of set and merge so far
  last,    \* history: what syncVar was last given for n
  raced    \* history: the names changed while a change was to be announced

vars == <<local, remote, rest, erasing, changed, wire, sets, last, raced>>

Maps == [Names -> Values \cup {Unset}]
Empty == [n \in Names |-> Unset]
Changes == [name: Names, value: Values \cup {Unset}]

\* The state is well formed; wire is what send_var_set and send_var_unset can
\* write, and a thread has one change to announce at most.
TypeOK ==
  /\ local \in Maps
  /\ remote \in Maps
  /\ rest \in [Threads -> Maps]
  /\ erasing \in SUBSET Threads
  /\ changed \in [Threads -> {<<>>} \cup {<<c>> : c \in Changes}]
  /\ wire \in Seq(Changes)
  /\ sets \in Nat
  /\ last \in Maps
  /\ raced \in SUBSET Names

Init ==
  /\ local = Empty /\ remote = Empty
  /\ rest = [t \in Threads |-> Empty]
  /\ erasing = {}
  /\ changed = [t \in Threads |-> <<>>]
  /\ wire = <<>>
  /\ sets = 0
  /\ last = Empty
  /\ raced = {}

-----------------------------------------------------------------------------
\* What syncVar may send for a change: X for a value, and for a variable that
\* was deleted S with what is in the storage of an empty std::optional.
SyncVar(c) ==
  IF c.value # Unset THEN {[name |-> c.name, value |-> Unset]}
  ELSE {[name |-> c.name, value |-> garbage] : garbage \in Values}

Pending(t, n) == changed[t] # <<>> /\ changed[t][1].name = n

\* The locked part of set(name, value): the map changes if the value differs.
Assign(t, n, v) ==
  IF local[n] = v THEN UNCHANGED <<local, changed, raced>>
  ELSE /\ local' = [local EXCEPT ![n] = v]
       /\ changed' = [changed EXCEPT ![t] = <<[name |-> n, value |-> v]>>]
       /\ raced' = IF \E k \in Threads : Pending(k, n)
                   THEN raced \cup {n} ELSE raced

\* A thread with nothing under way takes the lock, which is free.
Free(t) == erasing = {} /\ changed[t] = <<>> /\ rest[t] = Empty
             /\ sets < MaxSets

Set(t, n, v) ==
  /\ Free(t)
  /\ sets' = sets + 1
  /\ Assign(t, n, v)
  /\ UNCHANGED <<remote, rest, erasing, wire, last>>

\* The rest of set(): the announcement, without the lock.
Announce(t) ==
  /\ changed[t] # <<>>
  /\ changed' = [changed EXCEPT ![t] = <<>>]
  /\ \E m \in SyncVar(changed[t][1]) : wire' = Append(wire, m)
  /\ last' = [last EXCEPT ![changed[t][1].name] = changed[t][1].value]
  /\ UNCHANGED <<local, remote, rest, erasing, sets, raced>>

\* merge(): set() for one name of the map after another.
Merge(t, map) ==
  /\ Free(t)
  /\ sets' = sets + 1
  /\ rest' = [rest EXCEPT ![t] = map]
  /\ UNCHANGED <<local, remote, erasing, changed, wire, last, raced>>

MergeNext(t, n) ==
  /\ erasing = {}
  /\ changed[t] = <<>>
  /\ rest[t][n] # Unset
  /\ \A k \in Names : rest[t][k] # Unset => n <= k
  /\ rest' = [rest EXCEPT ![t][n] = Unset]
  /\ Assign(t, n, rest[t][n])
  /\ UNCHANGED <<remote, erasing, wire, sets, last>>

\* set(map) takes the lock, under which the variables the map lacks are
\* announced and erased one by one; then it merges the map.
Replace(t, map) ==
  /\ Free(t)
  /\ sets' = sets + 1
  /\ erasing' = {t}
  /\ rest' = [rest EXCEPT ![t] = map]
  /\ UNCHANGED <<local, remote, changed, wire, last, raced>>

ToErase(t) == {n \in Names : local[n] # Unset /\ rest[t][n] = Unset}

EraseNext(t, n) ==
  /\ t \in erasing
  /\ n \in ToErase(t) /\ \A k \in ToErase(t) : n <= k
  /\ local' = [local EXCEPT ![n] = Unset]
  /\ \E m \in SyncVar([name |-> n, value |-> Unset]) : wire' = Append(wire, m)
  /\ last' = [last EXCEPT ![n] = Unset]
  /\ raced' = IF \E k \in Threads : Pending(k, n)
              THEN raced \cup {n} ELSE raced
  /\ UNCHANGED <<remote, rest, erasing, changed, sets>>

ReplaceMerges(t) ==
  /\ t \in erasing
  /\ ToErase(t) = {}
  /\ erasing' = {}
  /\ UNCHANGED <<local, remote, rest, changed, wire, sets, last, raced>>

\* on_set_var and on_unset_var of the other peer.
Receive ==
  /\ wire # <<>>
  /\ wire' = Tail(wire)
  /\ remote' = [remote EXCEPT ![Head(wire).name] = Head(wire).value]
  /\ UNCHANGED <<local, rest, erasing, changed, sets, last, raced>>

Next ==
  \/ \E t \in Threads, n \in Names, v \in Values \cup {Unset} : Set(t, n, v)
  \/ \E t \in Threads, map \in Maps : Merge(t, map) \/ Replace(t, map)
  \/ \E t \in Threads, n \in Names : MergeNext(t, n) \/ EraseNext(t, n)
  \/ \E t \in Threads : Announce(t) \/ ReplaceMerges(t)
  \/ Receive

Spec == Init /\ [][Next]_vars

-----------------------------------------------------------------------------
Settled == \A t \in Threads : changed[t] = <<>> /\ rest[t] = Empty

\* syncVar is given the changes of a variable in the order they were made: as
\* long as none was made while another had yet to be announced, and when none
\* is to be announced, the last it was given is the value of the variable
\* (set() announces after its unlock).
LastIsAnnounced ==
  \A n \in Names \ raced :
    (\A t \in Threads : ~Pending(t, n)) => last[n] = local[n]

\* When everything has been announced and received, and no two changes of a
\* variable raced, the other peer's remote is this one's local
\* (doc/umq_cs.md "Promenne kontextu spojeni"; peer.h: "remote peer can read
\* them").
RemoteFollowsLocal ==
  Settled /\ erasing = {} /\ wire = <<>> =>
    \A n \in Names \ raced : remote[n] = local[n]
=============================================================================
