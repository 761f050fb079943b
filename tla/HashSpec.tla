------------------------------ MODULE HashSpec ------------------------------
(***************************************************************************)
(* data/hashtable: what the table of original first bytes promises, a map  *)
(* that keeps the first value given for a key and answers 0 for the rest.  *)
(***************************************************************************)

hashtable_new == << >>

hashtable_find(ht, k) == IF k \in DOMAIN ht THEN ht[k] ELSE "zero"

hashtable_insert(ht, k, v) ==
    IF k \in DOMAIN ht
      THEN ht
      ELSE [x \in DOMAIN ht \cup {k} |-> IF x = k THEN v ELSE ht[x]]
=============================================================================
