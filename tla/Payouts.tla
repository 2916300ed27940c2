------------------------------- MODULE Payouts -------------------------------
(***************************************************************************)
(* Payouts of one payment's driver share                                   *)
(* (backend/src/payment/services/payout.service.ts): createPayout, the     *)
(* payout.* webhooks and the refunds that shrink the share, over the       *)
(* payout documents and the ledger.                                        *)
(*                                                                         *)
(* A read, a compare-and-swap, an insert under a unique index and a Mongo  *)
(* transaction are one step each.  Sending the money is not in the code:   *)
(* whoever does it creates a RazorpayX payout whose reference_id is the    *)
(* record and then calls markProcessing; here RazorpayX may take up any    *)
(* PENDING payout at any time and payout.initiated is that call.           *)
(***************************************************************************)
EXTENDS Integers, FiniteSets

CONSTANTS
    DriverEarning,        \* fareBreakdown.driverEarningPaise
    MaxPayouts,           \* bound on payout records of the payment
    Requests,             \* createPayout calls at once
    Handlers,             \* webhook deliveries handled at once
    MaxEvents             \* bound on the events of RazorpayX

ASSUME PayoutsAssumption ==
    /\ DriverEarning \in Nat \ {0}
    /\ MaxPayouts \in Nat \ {0}
    /\ MaxEvents \in Nat

VARIABLES
    payouts,   \* the Payout documents
    reversed,  \* computeRefundTotals(payment).driverReversedPaise
    ledger,    \* net payout postings: DEBIT of DRIVER, CREDIT of BANK
    request,   \* createPayout calls
    seen,      \* per handler, the status markReversed read
    flagged,   \* payouts a refund was booked over: driverClawbackRequired
    outrun,    \* history: payouts asked for before a refund was booked and inserted after
    emitted, answered, marker, handler, handled, early, interrupted   \* see WebhookIntake

Records == 1 .. MaxPayouts
Kinds == {"initiated", "processed", "failed", "reversed"}
PayoutEvents == Records \X Kinds

INSTANCE WebhookIntake WITH Events <- PayoutEvents

payoutVars == <<payouts, reversed, ledger, request, seen, flagged, outrun>>
intakeVars == <<emitted, answered, marker, handler, handled, early, interrupted>>
vars == <<payoutVars, intakeVars>>

-----------------------------------------------------------------------------
LIVE_PAYOUT_STATUSES == {"PENDING", "PROCESSING", "PROCESSED"}
PayoutStatus == LIVE_PAYOUT_STATUSES \cup {"FAILED", "REVERSED", "CANCELLED"}
Unsettled == {"PENDING", "PROCESSING"}
Payout == [status : PayoutStatus \cup {"none"}, amount : 0 .. DriverEarning]

\* findLiveByPayment, and the partial unique index payment_1_live_unique.
LivePayouts == {r \in Records : payouts[r].status \in LIVE_PAYOUT_STATUSES}
Free == {r \in Records : payouts[r].status = "none"}
PayableShare == DriverEarning - reversed

Init ==
    /\ payouts = [r \in Records |-> [status |-> "none", amount |-> 0]]
    /\ reversed = 0
    /\ ledger = 0
    /\ request = [q \in Requests |-> [amount |-> 0, outrun |-> FALSE]]
    /\ seen = [h \in Handlers |-> "none"]
    /\ flagged = {}
    /\ outrun = {}
    /\ IntakeInit

-----------------------------------------------------------------------------
(* createPayout.                                                           *)

\* The payment is read; a refunded one has no share left.
ReadShare(q, amount) ==
    /\ request[q].amount = 0
    /\ amount \in 1 .. PayableShare
    /\ request' = [request EXCEPT ![q] = [amount |-> amount, outrun |-> FALSE]]
    /\ UNCHANGED <<payouts, reversed, ledger, seen, flagged, outrun, intakeVars>>

NoLivePayout == LivePayouts = {}

EndRequest(q) == request' = [request EXCEPT ![q] = [amount |-> 0, outrun |-> FALSE]]

\* findLiveByPayment, then the insert, which the unique index decides.
InsertPayout(q) ==
    /\ request[q].amount # 0
    /\ NoLivePayout
    /\ \E r \in Free :
        /\ \A s \in Free : r <= s
        /\ payouts' = [payouts EXCEPT ![r] = [status |-> "PENDING",
                                              amount |-> request[q].amount]]
        /\ outrun' = IF request[q].outrun THEN outrun \cup {r} ELSE outrun
    /\ EndRequest(q)
    /\ UNCHANGED <<reversed, ledger, seen, flagged, intakeVars>>

\* PAYOUT_ALREADY_EXISTS, another error, the process dies, or the bound is reached.
RefusePayout(q) ==
    /\ request[q].amount # 0
    /\ EndRequest(q)
    /\ UNCHANGED <<payouts, reversed, ledger, seen, flagged, outrun, intakeVars>>

-----------------------------------------------------------------------------
(* Refunds of the payment (module Refunds), as far as they concern payouts. *)

\* Mutant of HandleRefundBooked: only a payout that was not sent yet matters.
HandleRefundCancels ==
    /\ payouts' = [r \in Records |->
                     IF payouts[r].status = "PENDING"
                     THEN [payouts[r] EXCEPT !.status = "CANCELLED"] ELSE payouts[r]]
    /\ UNCHANGED flagged

\* handleRefundBooked: a PENDING payout is cancelled, for one that is (being)
\* sent the refund record says driverClawbackRequired.
HandleRefundBooked ==
    /\ payouts' = [r \in Records |->
                     IF payouts[r].status = "PENDING"
                     THEN [payouts[r] EXCEPT !.status = "CANCELLED"] ELSE payouts[r]]
    /\ flagged' = flagged \cup {r \in LivePayouts : payouts[r].status # "PENDING"}

\* bookRefund, one transaction that takes driverReversalPaise > 0.
BookRefund(driverReversal) ==
    /\ reversed + driverReversal <= DriverEarning
    /\ reversed' = reversed + driverReversal
    /\ HandleRefundBooked
    /\ request' = [q \in Requests |->
                     [request[q] EXCEPT !.outrun = request[q].amount # 0]]
    /\ UNCHANGED <<ledger, seen, outrun, intakeVars>>

\* compensateRefund gives the driver's part back; a cancelled payout stays so.
CompensateRefund(driverReversal) ==
    /\ driverReversal <= reversed
    /\ reversed' = reversed - driverReversal
    /\ UNCHANGED <<payouts, ledger, request, seen, flagged, outrun, intakeVars>>

-----------------------------------------------------------------------------
(* RazorpayX (external): initiated, then processed, failed (or rejected)   *)
(* or reversed; a processed payout may still be reversed.                  *)

Reached(r, kind) == <<r, kind>> \in emitted

GatewayStep(r, kind) ==
    /\ CASE kind = "initiated" -> payouts[r].status = "PENDING"
         [] kind = "reversed" -> Reached(r, "initiated") /\ ~Reached(r, "failed")
         [] OTHER -> /\ Reached(r, "initiated")
                     /\ \A k \in {"processed", "failed", "reversed"} : ~Reached(r, k)
    /\ Emit(<<r, kind>>)
    /\ UNCHANGED payoutVars

-----------------------------------------------------------------------------
(* handleGatewayPayoutEvent.                                               *)

\* payoutRepository.transition, with what the transaction posts: status
\* `from` becomes `to` and `posting` is added to the ledger, or nothing happens.
Transition(r, from, to, posting) ==
    IF payouts[r].status \in from
    THEN /\ payouts' = [payouts EXCEPT ![r].status = to]
         /\ ledger' = ledger + posting
    ELSE UNCHANGED <<payouts, ledger>>

\* Mutant of MarkProcessing: a payout that was taken up counts as paid.
MarkProcessingAsPaid(r) == Transition(r, {"PENDING"}, "PROCESSED", payouts[r].amount)
MarkProcessing(r) == Transition(r, {"PENDING"}, "PROCESSING", 0)

\* Mutant of MarkProcessed: the posting is forgotten.
MarkProcessedUnposted(r) == Transition(r, Unsettled, "PROCESSED", 0)
MarkProcessed(r) == Transition(r, Unsettled, "PROCESSED", payouts[r].amount)

\* Mutant of MarkFailed: a processed payout can fail.
MarkFailedLive(r) == Transition(r, LIVE_PAYOUT_STATUSES, "FAILED", 0)
MarkFailed(r) == Transition(r, Unsettled, "FAILED", 0)

ReverseProcessed(r) == Transition(r, {"PROCESSED"}, "REVERSED", -payouts[r].amount)

\* dispatch() of an event that needs no look at the payout first.
HandlePayoutEvent(h) ==
    /\ handler[h].pc = "dispatch"
    /\ LET r == handler[h].event[1]
       IN  \/ handler[h].event[2] = "initiated" /\ MarkProcessing(r)
           \/ handler[h].event[2] = "processed" /\ MarkProcessed(r)
           \/ handler[h].event[2] = "failed" /\ MarkFailed(r)
    /\ Returns(h)
    /\ UNCHANGED <<reversed, request, seen, flagged, outrun>>

\* markReversed reads the payout ...
ReadForReversal(h) ==
    /\ handler[h].pc = "dispatch"
    /\ handler[h].event[2] = "reversed"
    /\ seen[h] = "none"
    /\ LET status == payouts[handler[h].event[1]].status
       IN  \/ /\ status \in LIVE_PAYOUT_STATUSES
              /\ seen' = [seen EXCEPT ![h] = status]
              /\ UNCHANGED intakeVars
           \/ /\ status \notin LIVE_PAYOUT_STATUSES
              /\ seen' = seen
              /\ Returns(h)
    /\ UNCHANGED <<payouts, reversed, ledger, request, flagged, outrun>>

\* ... and decides by what it read between markFailed and the transaction.
MarkReversed(h) ==
    /\ handler[h].pc = "dispatch"
    /\ seen[h] # "none"
    /\ LET r == handler[h].event[1]
       IN  \/ seen[h] \in Unsettled /\ MarkFailed(r)
           \/ seen[h] = "PROCESSED" /\ ReverseProcessed(r)
    /\ Returns(h)
    /\ seen' = [seen EXCEPT ![h] = "none"]
    /\ UNCHANGED <<reversed, request, flagged, outrun>>

\* A database call rejects.
EventFails(h) ==
    /\ handler[h].pc = "dispatch"
    /\ Throws(h)
    /\ seen' = [seen EXCEPT ![h] = "none"]
    /\ UNCHANGED <<payouts, reversed, ledger, request, flagged, outrun>>

Crash(h) ==
    /\ HandlerCrashes(h)
    /\ seen' = [seen EXCEPT ![h] = "none"]
    /\ UNCHANGED <<payouts, reversed, ledger, request, flagged, outrun>>

Intake ==
    /\ \/ \E h \in Handlers, e \in PayoutEvents : Claim(h, e) \/ AnswerDuplicate(h, e)
       \/ \E h \in Handlers : Complete(h)
       \/ \E e \in PayoutEvents : MarkerExpires(e)
    /\ UNCHANGED payoutVars

Next ==
    \/ \E q \in Requests :
        \/ \E amount \in 1 .. DriverEarning : ReadShare(q, amount)
        \/ InsertPayout(q)
        \/ RefusePayout(q)
    \/ \E k \in 1 .. DriverEarning : BookRefund(k) \/ CompensateRefund(k)
    \/ \E r \in Records, kind \in Kinds : GatewayStep(r, kind)
    \/ \E h \in Handlers :
        \/ HandlePayoutEvent(h) \/ ReadForReversal(h) \/ MarkReversed(h)
        \/ EventFails(h) \/ Crash(h)
    \/ Intake

Spec == Init /\ [][Next]_vars

-----------------------------------------------------------------------------
(* Properties.                                                             *)

TypeOK ==
    /\ payouts \in [Records -> Payout]
    /\ reversed \in 0 .. DriverEarning
    /\ ledger \in 0 .. DriverEarning
    /\ request \in [Requests -> [amount : 0 .. DriverEarning, outrun : BOOLEAN]]
    /\ seen \in [Handlers -> LIVE_PAYOUT_STATUSES \cup {"none"}]
    /\ flagged \subseteq Records
    /\ outrun \subseteq Records
    /\ IntakeTypeOK

\* At most one payout of a payment is under way or paid, however requests,
\* events and refunds interleave (report 3.4).
OneLivePayout == \A r, s \in LivePayouts : r = s

\* The ledger holds the payouts that are PROCESSED and nothing else: events
\* that come twice, late or in the wrong order post nothing more, and a
\* reversal takes back what was posted.
LedgerFollowsPayouts ==
    /\ LivePayouts = {} => ledger = 0
    /\ \A r \in LivePayouts :
        ledger = IF payouts[r].status = "PROCESSED" THEN payouts[r].amount ELSE 0

\* Money is posted as paid only when RazorpayX paid it, and as returned only
\* when it came back.
PostedMoneyWasSent ==
    \A r \in Records :
        /\ payouts[r].status \in {"PROCESSED", "REVERSED"} => Reached(r, "processed")
        /\ payouts[r].status = "REVERSED" => Reached(r, "reversed")

\* A payout that exceeds what refunds left of the share is one that a refund
\* flagged for clawback, or was asked for before that refund and inserted
\* after it: no other interleaving overpays a driver unnoticed.
OverdraftIsFlagged ==
    \A r \in LivePayouts : payouts[r].amount > PayableShare => r \in flagged \cup outrun

\* "amountPaise <= driverEarning - driver share already refunded" and "no other
\* live payout" (PAYMENT_LIFECYCLE_REPORT.md, createPayout): a payout exceeds
\* what refunds left of the share only if a refund flagged it.  False: the
\* share is read before the insert, and a refund booked between the two finds
\* no payout to cancel or to flag.
NoUnflaggedOverdraft ==
    \A r \in LivePayouts : payouts[r].amount > PayableShare => r \in flagged

\* "payout.reversed: PROCESSED -> REVERSED + ledger reversal (or FAILED if never
\* processed)" (PAYMENT_LIFECYCLE_REPORT.md): once the event was handled the
\* ledger does not count the payout as paid.  False: markReversed may read
\* PROCESSING, lose to markProcessed and change nothing.
ReversalIsBooked ==
    \A r \in Records : <<r, "reversed">> \in handled => payouts[r].status # "PROCESSED"

\* A payout that failed, was cancelled or reversed stays so, whatever old
\* events still arrive, and a processed one only becomes REVERSED.
SettledIsFinal ==
    [][\A r \in Records :
        /\ payouts[r].status \in {"FAILED", "CANCELLED", "REVERSED"} => payouts'[r] = payouts[r]
        /\ payouts[r].status = "PROCESSED" => payouts'[r].status \in {"PROCESSED", "REVERSED"}]_vars

\* What the driver's share sees of all this.
Share == INSTANCE DriverShare WITH
    Share <- DriverEarning,
    held <- IF LivePayouts = {} THEN 0 ELSE payouts[CHOOSE r \in LivePayouts : TRUE].amount,
    paid <- ledger

\* Payouts implement DriverShare: reserved once, posted once while reserved,
\* free again only unpaid.
ImplementsDriverShare == Share!Spec
=============================================================================
