----------------------------- MODULE Registries -----------------------------
(***************************************************************************)
(* A registry of the chains keeps its records under their ids, in a dict.  *)
(* What is stored under an id replaces what was there; nothing is removed. *)
(***************************************************************************)

(* registry[id] = record *)
Put(registry, id, record) ==
  [x \in DOMAIN registry \cup {id} |-> IF x = id THEN record ELSE registry[x]]

=============================================================================
