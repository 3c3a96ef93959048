------------------------------- MODULE MCLongpoll -------------------------------
(***************************************************************************)
(* Longpoll for TLC: what its constants are in the runs.                   *)
(***************************************************************************)
EXTENDS LongpollLog

NoInitialEvents == {<<>>}
NoTimes         == {}
FromTheStart    == {1}
StartTimeOnly   == {StartTime}
TTL2 == 2
Forever == forever

(* Clients, event IDs and publishers are interchangeable.  (For safety     *)
(* properties only.)                                                       *)
Symmetry == Permutations(Clients) \cup Permutations(EventIDs)
            \cup Permutations(Publishers)
=============================================================================
