---------------------------- MODULE MCOnboarding ----------------------------
(* Onboarding for TLC, with the symmetry of its requests and images.       *)
EXTENDS Onboarding, TLC

Symmetry == Permutations(Handlers) \cup Permutations(Applications) \cup Permutations(Images)

\* A bound: account requests and applications share the existence of the
\* account alone, so TLC looks at one kind at a time.
OneKindAtATime ==
    \/ \A h \in Handlers : handler[h] = Idle
    \/ \A a \in Applications : application[a] = "idle"
=============================================================================
