-------------------------------- MODULE Maps --------------------------------
(* The std::map of the program: a function on the keys it has, of any kind.  *)

Empty == <<>>

Has(map, key) == key \in DOMAIN map

\* The entries of map over those of other.
Over(map, other) ==
  [k \in DOMAIN map \cup DOMAIN other |-> IF Has(map, k) THEN map[k] ELSE other[k]]
Put(map, key, value) == Over([k \in {key} |-> value], map)
=============================================================================
