------------------------------ MODULE MCPayouts ------------------------------
(* Payouts with deliveries that are interchangeable, for TLC.              *)
EXTENDS Payouts, TLC

Symmetry == Permutations(Handlers) \cup Permutations(Requests)

\* A bound: TLC looks at deliveries that meet each other over one payout, and at
\* payouts that follow each other with one delivery at a time.
TwoDeliveriesOrTwoPayouts ==
    \/ \A r, s \in Records : r = s \/ "none" \in {payouts[r].status, payouts[s].status}
    \/ /\ \A g, h \in Handlers : g = h \/ Idle \in {handler[g], handler[h]}
       /\ early = {}
=============================================================================
