------------------------- MODULE MCSubscriptionManager -------------------------
(***************************************************************************)
(* SubscriptionManager for TLC: what its constants are in the runs.        *)
(***************************************************************************)
EXTENDS SubscriptionManager

NoInitialEvents == {<<>>}
FromTheStart    == {1}

(* Every add-on that sends n events, in order of time or not.              *)
SomeEvents(n) ==
  {s \in [1 .. n -> [Timestamp : 0 .. StartTime, Category : Categories, ID : EventIDs]] :
     \A i, j \in 1 .. n : i # j => s[i].ID # s[j].ID}

UpToThreeEvents == UNION {SomeEvents(n) : n \in 0 .. 3}
NoneOrTwoEvents == SomeEvents(0) \cup SomeEvents(2)

TTL2 == 2
Forever == forever

(* Clients and event IDs are interchangeable.                              *)
Symmetry == Permutations(Clients) \cup Permutations(EventIDs)
=============================================================================
