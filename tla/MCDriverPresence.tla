-------------------------- MODULE MCDriverPresence --------------------------
(* DriverPresence with pages that are interchangeable, for TLC.            *)
EXTENDS DriverPresence, TLC

Symmetry == Permutations(Pages)
=============================================================================
