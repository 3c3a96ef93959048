-------------------------------- MODULE GoMap --------------------------------
(***************************************************************************)
(* Go's built-in maps: functions whose domain is the set of present keys.  *)
(***************************************************************************)
EXTENDS Functions

IsMap(map, Keys, Values) ==
  DOMAIN map \subseteq Keys /\ map \in [DOMAIN map -> Values]

EmptyMap == [k \in {} |-> {}]

Put(map, key, value) == [k \in DOMAIN map \cup {key} |->
                           IF k = key THEN value ELSE map[k]]

Delete(map, keys) == Restrict(map, DOMAIN map \ keys)
=============================================================================
