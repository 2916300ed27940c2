-------------------------- MODULE RefundAllocation --------------------------
(***************************************************************************)
(* The arithmetic of refunds, in paise: the running totals of a payment's  *)
(* refund records (payment/utils/refund-totals.ts) and the split of one    *)
(* refund between the driver's and the platform's leg of the fare          *)
(* (payment/utils/refund-allocation.ts).                                   *)
(***************************************************************************)
EXTENDS Integers

Lesser(a, b) == IF a <= b THEN a ELSE b
Greater(a, b) == IF a >= b THEN a ELSE b

\* v[1] + ... + v[n], the loop over the records.
Sum(v, n) ==
    LET upTo[i \in 0 .. n] == IF i = 0 THEN 0 ELSE upTo[i - 1] + v[i]
    IN  upTo[n]

\* The driver's part of what was refunded before refund records existed,
\* proportional to the driver's part of the fare and rounded down.
LegacyDriver(total, earning, legacy) == (legacy * earning) \div total

\* What the running totals are checked for before a refund is split: the
\* reversals add up, and no leg gave back more than it had.
Allocatable(total, earning, soFar, refund) ==
    /\ refund > 0
    /\ soFar.driver + soFar.platform = soFar.refunded
    /\ soFar.refunded + refund <= total
    /\ soFar.driver \in 0 .. earning
    /\ soFar.platform \in 0 .. total - earning

\* Allocate without its last branch.
AllocateWithoutOverflow(total, earning, soFar, refund) ==
    LET target == ((soFar.refunded + refund) * earning) \div total
        share == Lesser(Greater(target - soFar.driver, 0),
                        Lesser(refund, earning - soFar.driver))
    IN  [driver |-> share, platform |-> refund - share]

\* Mutant of Allocate: each refund is split by itself.
AllocateByItself(total, earning, soFar, refund) ==
    LET share == (refund * earning) \div total
    IN  [driver |-> share, platform |-> refund - share]

\* The driver gives back the floor of a proportional share of all refunds so
\* far, as far as this refund and the driver's leg allow; the platform gives
\* back the rest, and what its leg cannot cover falls on the driver again.
Allocate(total, earning, soFar, refund) ==
    LET target == ((soFar.refunded + refund) * earning) \div total
        share == Lesser(Greater(target - soFar.driver, 0),
                        Lesser(refund, earning - soFar.driver))
        overflow == Greater(refund - share - (total - earning - soFar.platform), 0)
    IN  [driver |-> share + overflow, platform |-> refund - share - overflow]
=============================================================================
