------------------------------- MODULE Refunds -------------------------------
(***************************************************************************)
(* Refunds of one captured payment (backend/src/payment/services/          *)
(* refund.service.ts): POST /payments/:id/refund, Razorpay's refund.*      *)
(* webhooks and the sweep over pending refunds (reconciliation.service.ts) *)
(* work on the payment document, its refund records and the ledger.        *)
(*                                                                         *)
(* A refund is booked in one transaction, sent to the gateway and settled. *)
(* All three run under a Redis lock with a TTL; when it expires under its  *)
(* holder, two of them run at once and only the compare-and-swaps of the   *)
(* repository stand between them.  A read, a compare-and-swap, a Mongo     *)
(* transaction and a gateway call are one step each.  The driver's payout, *)
(* which a booking may cancel in the same transaction (handleRefundBooked) *)
(* decides nothing here and is left out.                                   *)
(***************************************************************************)
EXTENDS RefundAllocation, FiniteSets

CONSTANTS
    Amount,         \* payment.amountPaise
    DriverEarning,  \* fareBreakdown.driverEarningPaise; the rest is the platform's
    Legacy,         \* refunded before refund records existed
    Handlers,       \* refund requests and webhooks handled at once
    Sweep,          \* reconcilePendingRefunds
    Nobody,         \* a free lock
    MaxTries,       \* attempts of compensateRefund
    MaxRecords,     \* bound on payment.refunds
    MaxDashboard,   \* bound on the refunds issued outside the app
    MaxExpiries     \* bound on locks that expire under a living holder

ASSUME RefundsAssumption ==
    /\ Amount \in Nat \ {0}
    /\ DriverEarning \in 0 .. Amount
    /\ Legacy \in 0 .. Amount
    /\ Sweep \notin Handlers
    /\ Nobody \notin Handlers \cup {Sweep}
    /\ MaxTries \in Nat \ {0}
    /\ MaxRecords \in Nat \ {0}
    /\ MaxDashboard \in Nat
    /\ MaxExpiries \in Nat

Processes == Handlers \cup {Sweep}
Records == 1 .. MaxRecords
\* A refund the app sends carries its record's id as its receipt, and each
\* record is sent once: the gateway's refund of record r has id r here, the
\* refunds from the dashboard have the ids after them.
Dashboard == MaxRecords + 1 .. MaxRecords + MaxDashboard
GatewayRefunds == Records \cup Dashboard

VARIABLES
    payment,   \* status and refundedAmountPaise of the Payment document
    refunds,   \* payment.refunds
    ledger,    \* net postings of the refund records on the accounts of rider, driver
               \* and platform (the legacy refunds aside)
    gateway,   \* external: Razorpay's refunds of this payment
    lock,      \* the refund lock: whose token it holds
    proc,      \* local state of each process
    expiries,  \* locks that expired under a living holder
    told       \* history: dashboard refunds whose webhook was answered "done"

vars == <<payment, refunds, ledger, gateway, lock, proc, expiries, told>>

-----------------------------------------------------------------------------
REFUNDABLE_STATUSES == {"CAPTURED", "PARTIALLY_REFUNDED"}
PaymentStatus == REFUNDABLE_STATUSES \cup {"REFUNDED"}
LIVE == {"PENDING", "PROCESSED"}
RecordStatus == LIVE \cup {"FAILED", "none"}
GatewayStatus == {"created", "processed", "failed"}

Refund == [status : RecordStatus,
           amount : 0 .. Amount,
           driver : 0 .. Amount,
           platform : 0 .. Amount,
           gatewayId : GatewayRefunds \cup {0}]
NoRefund ==
    [status |-> "none", amount |-> 0, driver |-> 0, platform |-> 0, gatewayId |-> 0]

PC == {"idle", "locked", "book", "send", "settle", "update", "reload", "undo"}
Op == {"refund", "event", "abandon"}
\* amount: of the refund to book; record: the record worked on, 0 if none;
\* gatewayId and report: the gateway's refund and the status heard of it;
\* seen and split: payment as it was read and the split computed from it.
Process == [pc : PC,
            op : Op,
            amount : 0 .. Amount,
            record : Records \cup {0},
            gatewayId : GatewayRefunds \cup {0},
            report : GatewayStatus,
            seen : [status : PaymentStatus, refunded : 0 .. Amount],
            split : [driver : 0 .. Amount, platform : 0 .. Amount],
            tries : 0 .. MaxTries]
Unpaid == [driver |-> 0, platform |-> 0]
Unseen == [status |-> "CAPTURED", refunded |-> 0]
Idle == [pc |-> "idle", op |-> "refund", amount |-> 0, record |-> 0, gatewayId |-> 0,
         report |-> "created", seen |-> Unseen, split |-> Unpaid, tries |-> 0]

\* computeRefundTotals
LiveRefund(r) == refunds[r].status \in LIVE
RecordedRefunds == Sum([r \in Records |-> IF LiveRefund(r) THEN refunds[r].amount ELSE 0],
                       MaxRecords)
RecordedDriver == Sum([r \in Records |-> IF LiveRefund(r) THEN refunds[r].driver ELSE 0],
                      MaxRecords)
RecordedPlatform ==
    Sum([r \in Records |-> IF LiveRefund(r) THEN refunds[r].platform ELSE 0], MaxRecords)
RefundTotals ==
    LET legacy == payment.refunded - RecordedRefunds
        legacyDriver == LegacyDriver(Amount, DriverEarning, legacy)
    IN  [refunded |-> payment.refunded,
         driver |-> RecordedDriver + legacyDriver,
         platform |-> RecordedPlatform + (legacy - legacyDriver)]

\* The status that goes with a refunded total, when booking and when undoing.
StatusWhenBooked(refunded) ==
    IF refunded >= Amount THEN "REFUNDED" ELSE "PARTIALLY_REFUNDED"
StatusWhenUndone(refunded) == IF refunded = 0 THEN "CAPTURED" ELSE "PARTIALLY_REFUNDED"

Init ==
    /\ payment = [status |-> IF Legacy = 0 THEN "CAPTURED" ELSE StatusWhenBooked(Legacy),
                  refunded |-> Legacy]
    /\ refunds = [r \in Records |-> NoRefund]
    /\ ledger = [rider |-> 0, driver |-> 0, platform |-> 0]
    /\ gateway = [g \in GatewayRefunds |-> [status |-> "none", amount |-> 0]]
    /\ lock = Nobody
    /\ proc = [p \in Processes |-> Idle]
    /\ expiries = 0
    /\ told = {}

-----------------------------------------------------------------------------
(* The lock and the ends of a handler.                                     *)

Release(p) == lock' = IF lock = p THEN Nobody ELSE lock

\* Throws: `finally { release() }`; a webhook will be redelivered.
Abort(p) ==
    /\ proc' = [proc EXCEPT ![p] = Idle]
    /\ Release(p)
    /\ told' = told

\* Returns (or answers the request with an error that changes nothing more).
Finish(p) ==
    /\ proc' = [proc EXCEPT ![p] = Idle]
    /\ Release(p)
    /\ told' = IF proc[p].op = "event" /\ proc[p].report # "failed"
               THEN told \cup ({proc[p].gatewayId} \cap Dashboard)
               ELSE told

Continue(p, state) ==
    /\ proc' = [proc EXCEPT ![p] = state]
    /\ UNCHANGED <<lock, told>>

\* Starting takes the lock; while somebody holds it the caller gets a 409,
\* the webhook is redelivered and the sweep passes on.
Start(p, state) ==
    /\ proc[p].pc = "idle"
    /\ lock = Nobody
    /\ lock' = p
    /\ proc' = [proc EXCEPT ![p] = state]
    /\ UNCHANGED <<payment, refunds, ledger, gateway, expiries, told>>

StartRefund(p, amount) ==
    Start(p, [Idle EXCEPT !.pc = "locked", !.op = "refund", !.amount = amount])

\* A webhook tells a state the gateway's refund has or had, in any order and
\* any number of times.
StartEvent(p, g, report) ==
    /\ gateway[g].status # "none"
    /\ report \in {"created", gateway[g].status}
    /\ Start(p, [Idle EXCEPT !.pc = "locked", !.op = "event", !.gatewayId = g,
                             !.report = report])

\* Mutant of SweepRefund: a refund without an answer is abandoned unasked.
SweepUnasked(r) ==
    /\ refunds[r].status = "PENDING"
    /\ refunds[r].gatewayId = 0
    /\ Start(Sweep, [Idle EXCEPT !.pc = "locked", !.op = "abandon", !.record = r])

\* Mutant of SweepRefund: only refunds whose gateway id is known are looked at.
SweepKnown(r) ==
    /\ refunds[r].status = "PENDING"
    /\ refunds[r].gatewayId # 0
    /\ StartEvent(Sweep, refunds[r].gatewayId, gateway[refunds[r].gatewayId].status)

\* reconcilePendingRefunds asks the gateway for the refund, by its id or by
\* the record's receipt, and handles the answer like a webhook; a refund the
\* gateway never got is abandoned an hour after it was booked, by when its
\* sender has its answer.
SweepRefund(r) ==
    /\ refunds[r].status = "PENDING"
    /\ \/ LET g == IF refunds[r].gatewayId = 0 THEN r ELSE refunds[r].gatewayId
          IN  StartEvent(Sweep, g, gateway[g].status)
       \/ /\ refunds[r].gatewayId = 0
          /\ gateway[r].status = "none"
          /\ \A p \in Handlers : ~(proc[p].pc = "send" /\ proc[p].record = r)
          /\ Start(Sweep, [Idle EXCEPT !.pc = "locked", !.op = "abandon", !.record = r])

-----------------------------------------------------------------------------
(* Reading the payment under the lock.                                     *)

\* Mutant of Refundable: the whole balance cannot be refunded at once.
RefundableInPart(amount) ==
    /\ payment.status \in REFUNDABLE_STATUSES
    /\ amount < Amount - payment.refunded

Refundable(amount) ==
    /\ payment.status \in REFUNDABLE_STATUSES
    /\ amount <= Amount - payment.refunded

\* computeRefundTotals and allocateRefund do not throw.
Splittable(amount) ==
    /\ RecordedRefunds <= payment.refunded
    /\ Allocatable(Amount, DriverEarning, RefundTotals, amount)

ToBook(p, amount) ==
    /\ Refundable(amount)
    /\ Splittable(amount)
    /\ Continue(p, [proc[p] EXCEPT
                      !.pc = "book", !.amount = amount, !.seen = payment,
                      !.split = Allocate(Amount, DriverEarning, RefundTotals, amount)])

ReadForRefund(p) ==
    /\ proc[p].pc = "locked"
    /\ proc[p].op = "refund"
    /\ \/ ToBook(p, proc[p].amount)
       \/ ~(Refundable(proc[p].amount) /\ Splittable(proc[p].amount)) /\ Abort(p)
    /\ UNCHANGED <<payment, refunds, ledger, gateway, expiries>>

\* The record with this gatewayRefundId, else the one named in the notes.
RecordsOf(g) == {r \in Records : refunds[r].gatewayId = g}
RecordOf(g) ==
    IF RecordsOf(g) # {} THEN CHOOSE r \in RecordsOf(g) : \A q \in RecordsOf(g) : r <= q
    ELSE IF g \in Records /\ refunds[g].status # "none" THEN g
    ELSE 0

ReadForEvent(p) ==
    /\ proc[p].pc = "locked"
    /\ proc[p].op = "event"
    /\ LET g == proc[p].gatewayId
           r == RecordOf(g)
           next(pc) == [proc[p] EXCEPT !.pc = pc, !.record = r]
       IN  \/ /\ r # 0
              /\ refunds[r].status \in LIVE
              /\ Continue(p, next(IF proc[p].report = "failed" THEN "reload" ELSE "update"))
           \/ /\ r # 0
              /\ refunds[r].status = "FAILED"
              /\ Finish(p)
           \/ /\ r = 0
              /\ proc[p].report # "failed"
              /\ ToBook(p, gateway[g].amount)
           \/ /\ r = 0
              /\ proc[p].report # "failed"
              /\ Refundable(gateway[g].amount) /\ ~Splittable(gateway[g].amount)
              /\ Abort(p)
           \/ /\ r = 0
              /\ Refundable(gateway[g].amount) => proc[p].report = "failed"
              /\ Finish(p)
    /\ UNCHANGED <<payment, refunds, ledger, gateway, expiries>>

ReadForAbandon(p) ==
    /\ proc[p].pc = "locked"
    /\ proc[p].op = "abandon"
    /\ LET record == refunds[proc[p].record]
       IN  \/ /\ record.status = "PENDING"
              /\ record.gatewayId = 0
              /\ Continue(p, [proc[p] EXCEPT !.pc = "reload"])
           \/ /\ record.status # "PENDING" \/ record.gatewayId # 0
              /\ Finish(p)
    /\ UNCHANGED <<payment, refunds, ledger, gateway, expiries>>

-----------------------------------------------------------------------------
(* bookRefund: one transaction of payment, refund record and ledger.       *)

FreeRecords == {r \in Records : refunds[r].status = "none"}

\* paymentRepository.bookRefund finds the payment as it was read.
PaymentUnchanged(p) == payment = proc[p].seen

Post(sign, amount, split) ==
    ledger' = [rider |-> ledger.rider + sign * amount,
               driver |-> ledger.driver + sign * split.driver,
               platform |-> ledger.platform + sign * split.platform]

Book(p) ==
    /\ proc[p].pc = "book"
    /\ PaymentUnchanged(p)
    /\ \E r \in FreeRecords :
        /\ \A q \in FreeRecords : r <= q
        /\ LET refunded == proc[p].seen.refunded + proc[p].amount
               processed == proc[p].op = "event" /\ proc[p].report = "processed"
           IN  /\ payment' = [status |-> StatusWhenBooked(refunded), refunded |-> refunded]
               /\ refunds' = [refunds EXCEPT ![r] =
                    [status |-> IF processed THEN "PROCESSED" ELSE "PENDING",
                     amount |-> proc[p].amount,
                     driver |-> proc[p].split.driver,
                     platform |-> proc[p].split.platform,
                     gatewayId |-> proc[p].gatewayId]]
        /\ Post(1, proc[p].amount, proc[p].split)
        /\ \/ /\ proc[p].op = "refund"
              /\ Continue(p, [proc[p] EXCEPT !.pc = "send", !.record = r])
           \/ /\ proc[p].op = "event"
              /\ Finish(p)
    /\ UNCHANGED <<gateway, expiries>>

\* REFUND_CONFLICT, or no room within the bound on records.
BookConflict(p) ==
    /\ proc[p].pc = "book"
    /\ ~PaymentUnchanged(p) \/ FreeRecords = {}
    /\ Abort(p)
    /\ UNCHANGED <<payment, refunds, ledger, gateway, expiries>>

-----------------------------------------------------------------------------
(* Razorpay (external): refunds at most what was captured.                 *)

RefundedAtGateway ==
    Sum([g \in GatewayRefunds |->
            IF gateway[g].status \in {"created", "processed"} THEN gateway[g].amount ELSE 0],
        MaxRecords + MaxDashboard)
GatewayAccepts(amount) == Legacy + RefundedAtGateway + amount <= Amount

GatewayCreates(g, status, amount) ==
    /\ gateway[g].status = "none"
    /\ GatewayAccepts(amount)
    /\ gateway' = [gateway EXCEPT ![g] = [status |-> status, amount |-> amount]]

DashboardRefund(g, amount) ==
    /\ \E status \in GatewayStatus : GatewayCreates(g, status, amount)
    /\ UNCHANGED <<payment, refunds, ledger, lock, proc, expiries, told>>

GatewaySettles(g) ==
    /\ gateway[g].status = "created"
    /\ \E status \in {"processed", "failed"} :
        gateway' = [gateway EXCEPT ![g].status = status]
    /\ UNCHANGED <<payment, refunds, ledger, lock, proc, expiries, told>>

-----------------------------------------------------------------------------
(* Sending a booked refund and settling it.                                *)

\* The gateway creates the refund and its answer arrives or is lost; or the
\* request is lost; or the gateway refuses.
Send(p) ==
    /\ proc[p].pc = "send"
    /\ \/ \E status \in GatewayStatus :
            /\ GatewayCreates(proc[p].record, status, proc[p].amount)
            /\ \/ Continue(p, [proc[p] EXCEPT !.pc = "settle", !.report = status,
                                              !.gatewayId = proc[p].record])
               \/ Finish(p)
       \/ gateway' = gateway /\ Finish(p)
       \/ gateway' = gateway /\ Continue(p, [proc[p] EXCEPT !.pc = "reload"])
    /\ UNCHANGED <<payment, refunds, ledger, expiries>>

\* updateRefundRecord, only while the record is in one of these statuses.
UpdateRefundRecord(p, statuses) ==
    LET r == proc[p].record
    IN  refunds' = IF refunds[r].status \notin statuses THEN refunds
                   ELSE [refunds EXCEPT
                           ![r].gatewayId = proc[p].gatewayId,
                           ![r].status =
                              IF proc[p].report = "processed" THEN "PROCESSED" ELSE @]

Settle(p) ==
    /\ proc[p].pc = "settle"
    /\ \/ /\ proc[p].report = "failed"
          /\ Continue(p, [proc[p] EXCEPT !.pc = "reload"])
          /\ UNCHANGED refunds
       \/ /\ proc[p].report # "failed"
          /\ UpdateRefundRecord(p, {"PENDING"})
          /\ Finish(p)
    /\ UNCHANGED <<payment, ledger, gateway, expiries>>

Update(p) ==
    /\ proc[p].pc = "update"
    /\ UpdateRefundRecord(p, LIVE)
    /\ Finish(p)
    /\ UNCHANGED <<payment, ledger, gateway, expiries>>

-----------------------------------------------------------------------------
(* compensateRefund: read, then one transaction; a few tries.              *)

Reload(p) ==
    /\ proc[p].pc = "reload"
    /\ LET record == refunds[proc[p].record]
       IN  \/ /\ record.status \in LIVE
              /\ record.amount <= payment.refunded
              /\ Continue(p, [proc[p] EXCEPT !.pc = "undo", !.seen = payment])
           \/ /\ record.status = "FAILED"
              /\ Finish(p)
           \/ /\ record.status \in LIVE
              /\ record.amount > payment.refunded
              /\ Abort(p)
    /\ UNCHANGED <<payment, refunds, ledger, gateway, expiries>>

\* Mutant of Undoable: only the record is compared.
RecordLive(p) == LiveRefund(proc[p].record)

\* paymentRepository.failRefund finds the refunded total as it was read and
\* the record not failed yet.
Undoable(p) ==
    /\ payment.refunded = proc[p].seen.refunded
    /\ LiveRefund(proc[p].record)

Undo(p) ==
    /\ proc[p].pc = "undo"
    /\ Undoable(p)
    /\ LET r == proc[p].record
           refunded == proc[p].seen.refunded - refunds[r].amount
       IN  /\ payment' = [status |-> StatusWhenUndone(refunded), refunded |-> refunded]
           /\ refunds' = [refunds EXCEPT ![r].status = "FAILED"]
           /\ Post(-1, refunds[r].amount, refunds[r])
    /\ Finish(p)
    /\ UNCHANGED <<gateway, expiries>>

UndoAgain(p) ==
    /\ proc[p].pc = "undo"
    /\ ~Undoable(p)
    /\ \/ /\ proc[p].tries + 1 < MaxTries
          /\ Continue(p, [proc[p] EXCEPT !.pc = "reload", !.tries = @ + 1])
       \/ /\ proc[p].tries + 1 >= MaxTries
          /\ Abort(p)
    /\ UNCHANGED <<payment, refunds, ledger, gateway, expiries>>

-----------------------------------------------------------------------------
(* Failures, and the TTL of the lock.                                      *)

\* A database call rejects.
Fail(p) ==
    /\ proc[p].pc \notin {"idle", "send"}
    /\ Abort(p)
    /\ UNCHANGED <<payment, refunds, ledger, gateway, expiries>>

\* The process dies and leaves the lock behind.
Crash(p) ==
    /\ proc[p].pc # "idle"
    /\ proc' = [proc EXCEPT ![p] = Idle]
    /\ UNCHANGED <<payment, refunds, ledger, gateway, lock, expiries, told>>

LockExpires ==
    /\ lock # Nobody
    /\ IF proc[lock].pc = "idle" THEN expiries' = expiries
       ELSE expiries < MaxExpiries /\ expiries' = expiries + 1
    /\ lock' = Nobody
    /\ UNCHANGED <<payment, refunds, ledger, gateway, proc, told>>

Step(p) ==
    \/ ReadForRefund(p) \/ ReadForEvent(p) \/ ReadForAbandon(p)
    \/ Book(p) \/ BookConflict(p)
    \/ Send(p) \/ Settle(p) \/ Update(p)
    \/ Reload(p) \/ Undo(p) \/ UndoAgain(p)
    \/ Fail(p) \/ Crash(p)

Next ==
    \/ \E p \in Handlers, amount \in 1 .. Amount : StartRefund(p, amount)
    \/ \E p \in Handlers, g \in GatewayRefunds, report \in GatewayStatus :
        StartEvent(p, g, report)
    \/ \E r \in Records : SweepRefund(r)
    \/ \E p \in Processes : Step(p)
    \/ \E g \in Dashboard, amount \in 1 .. Amount : DashboardRefund(g, amount)
    \/ \E g \in GatewayRefunds : GatewaySettles(g)
    \/ LockExpires

Spec == Init /\ [][Next]_vars

\* Fairness: awaited calls come back, a lock runs out, and Razorpay decides on
\* each refund.  The job runs every five minutes, gets the lock and its step
\* now and then, and does not die at the same place every time.
Fairness ==
    /\ \A p \in Handlers : WF_vars(Step(p))
    /\ WF_vars(LockExpires)
    /\ \A g \in GatewayRefunds : WF_vars(GatewaySettles(g))
    /\ \A r \in Records : SF_vars(SweepRefund(r))
    /\ SF_vars(ReadForEvent(Sweep))
    /\ SF_vars(ReadForAbandon(Sweep))
    /\ SF_vars(Update(Sweep))
    /\ SF_vars(Reload(Sweep))
    /\ SF_vars(Undo(Sweep))

FairSpec == Spec /\ Fairness

-----------------------------------------------------------------------------
(* Properties.                                                             *)

TypeOK ==
    /\ payment \in [status : PaymentStatus, refunded : 0 .. Amount]
    /\ refunds \in [Records -> Refund]
    /\ ledger \in [rider : 0 .. Amount, driver : 0 .. Amount, platform : 0 .. Amount]
    /\ gateway \in [GatewayRefunds ->
                      [status : GatewayStatus \cup {"none"}, amount : 0 .. Amount]]
    /\ lock \in Processes \cup {Nobody}
    /\ proc \in [Processes -> Process]
    /\ expiries \in 0 .. MaxExpiries
    /\ told \subseteq Dashboard

\* The payment's refunded total, its live refund records and the net postings
\* on each ledger account say the same (what checkLedger reports on), with
\* locks that expire and processes that die anywhere: a booking and its
\* undoing are each in the books once or not at all.
BooksAgree ==
    /\ payment.refunded = Legacy + RecordedRefunds
    /\ ledger = [rider |-> RecordedRefunds,
                 driver |-> RecordedDriver,
                 platform |-> RecordedPlatform]

\* The status follows the total, which never exceeds the capture.
StatusFollowsTotal ==
    /\ payment.status = "CAPTURED" <=> payment.refunded = 0
    /\ payment.status = "REFUNDED" <=> payment.refunded = Amount

\* As long as no lock expired under its holder, no leg of the fare gives back
\* more than it got, whichever refunds were undone in between, and a full
\* refund gives back each leg exactly (claim 4 of allocateRefund).
LegsWithinFare ==
    expiries = 0 =>
        /\ RefundTotals.driver \in 0 .. DriverEarning
        /\ RefundTotals.platform \in 0 .. Amount - DriverEarning
        /\ RefundTotals.driver + RefundTotals.platform = payment.refunded

\* The same with locks that expire under their holder, as the payment report
\* says of every refund: a refused and compensated one is excluded and the next
\* lands exactly on what is left of each leg.  Model checking refutes it: a
\* handler that lost its lock books a split it computed before another refund
\* was booked and one was undone, for the refunded total is again what it read.
LegsNeverExceedFare ==
    /\ RefundTotals.driver <= DriverEarning
    /\ RefundTotals.platform <= Amount - DriverEarning

\* A refund the app sent and the gateway did not fail is in the books, with
\* its amount: "gateway refunded but our records did not change" cannot happen.
SentRefundIsBooked ==
    \A r \in Records : gateway[r].status \in {"created", "processed"} =>
        LiveRefund(r) /\ refunds[r].amount = gateway[r].amount

\* No money is refunded twice for one refund: two live records never stand
\* for one refund of the gateway.
OneRecordPerRefund ==
    expiries = 0 => \A r, q \in Records :
        (LiveRefund(r) /\ LiveRefund(q) /\ refunds[r].gatewayId = refunds[q].gatewayId)
            => (r = q \/ refunds[r].gatewayId = 0)

\* A dashboard refund whose webhook was answered is in the books, unless a
\* booking is undecided or was undone: one that the gateway refuses in the end
\* may have taken the balance when the webhook came, and the webhook was
\* answered without a record (handleGatewayRefundEvent).
DashboardRefundIsBooked ==
    (\A r \in Records : refunds[r].status \notin {"PENDING", "FAILED"}) =>
        \A g \in told : gateway[g].status = "processed" =>
            \E r \in Records : LiveRefund(r) /\ refunds[r].gatewayId = g

\* Every booked refund is decided on in the end, also when the answer of the
\* gateway, all webhooks and the process that sent it are lost.
PendingIsResolved ==
    \A r \in Records : refunds[r].status = "PENDING" ~> refunds[r].status # "PENDING"
=============================================================================
