------------------------------ MODULE AssocMap ------------------------------
(***************************************************************************)
(* What a map of the base library promises to its callers, whatever it     *)
(* keeps its entries in: what get answers for every key, the keys that an  *)
(* iteration passes, and the length.  HashMap (hash_map.h) and             *)
(* StableHashMap (stable_hash_map.h) implement it.                         *)
(***************************************************************************)
EXTENDS Naturals, FiniteSets

CONSTANTS Keys, Values, NoValue

VARIABLES
  content,    \* what get answers for each key
  listed,     \* the keys an iteration passes
  size        \* what len answers

vars == <<content, listed, size>>

\* get, iteration and len always tell the same.
Becomes(c) ==
  /\ content' = c
  /\ listed' = {k \in Keys : c[k] # NoValue}
  /\ size' = Cardinality(listed')

Init ==
  /\ content = [k \in Keys |-> NoValue]
  /\ listed = {}
  /\ size = 0

Set(k, v) == Becomes([content EXCEPT ![k] = v])

Erase(k) == Becomes([content EXCEPT ![k] = NoValue])

Clear == Becomes([k \in Keys |-> NoValue])

Next ==
  \/ \E k \in Keys, v \in Values : Set(k, v)
  \/ \E k \in Keys : Erase(k)
  \/ Clear

Spec == Init /\ [][Next]_vars
=============================================================================
