----------------------------- MODULE MCSessions -----------------------------
(* Sessions with the symmetry of its browsers, ids and request slots.      *)
EXTENDS Sessions, TLC

Symmetry == Permutations(Browsers) \cup Permutations(Sessions) \cup Permutations(Handlers)
=============================================================================
