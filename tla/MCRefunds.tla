----------------------------- MODULE MCRefunds -----------------------------
(***************************************************************************)
(* Refunds for model checking: handlers are interchangeable.               *)
(***************************************************************************)
EXTENDS Refunds, TLC

Symmetry == Permutations(Handlers)
=============================================================================
