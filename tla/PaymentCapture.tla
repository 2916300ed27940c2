--------------------------- MODULE PaymentCapture ---------------------------
(***************************************************************************)
(* Collecting the fare of a ride: order creation under a Redis lock,       *)
(* checkout verification, Razorpay's webhooks and the reconciliation       *)
(* sweep, all writing the same Payment, Ride and ledger documents          *)
(* (backend/src/payment/services/payment.service.ts).                      *)
(*                                                                         *)
(* One action is one awaited database, Redis or gateway call that changes  *)
(* state, with the code up to the next one.  Two consecutive reads are one *)
(* step: a payment that moves between them does not change the answer.  A  *)
(* Mongo transaction commits in one action.  Amounts are left out: an      *)
(* order is created for the fare stored on the ride, which cannot change   *)
(* once it is priced.                                                      *)
(***************************************************************************)
EXTENDS Naturals, FiniteSets

CONSTANTS
    Rides,              \* rides that reached their destination
    Orders,             \* Razorpay order ids
    Attempts,           \* Razorpay payment ids: one per try at the checkout
    Requests,           \* POST /payments/orders requests in flight at once
    Handlers,           \* webhook and /verify requests in flight at once
    Sweep,              \* the reconciliation job, a handler of its own
    Nobody,             \* a free lock, an order without a ride, no order, ...
    MAX_PAYMENT_ATTEMPTS,
    AttemptNumberBound  \* bound on attemptNumber, which the code leaves open

ASSUME ConstantsAssumption ==
    /\ Sweep \notin Handlers
    /\ Nobody \notin Rides \cup Orders \cup Attempts \cup Requests
    /\ MAX_PAYMENT_ATTEMPTS \in Nat
    /\ AttemptNumberBound \in Nat \ {0}

VARIABLES
    ridePayment,  \* ride.paymentStatus
    priced,       \* ride.fare.breakdown is set
    aged,         \* orders whose Payment left the sweep's window of RECONCILE_MAX_AGE_DAYS
    rideOf,       \* gateway: the ride each Razorpay order was created for
    payment,      \* the Payment document of each gatewayOrderId
    captures,     \* number of capture transactions in the ledger, per payment
    lock,         \* the order lock of each ride: the request whose token it holds
    req,          \* local state of each createOrder request
    checkout,     \* orders handed to the rider's browser
    attempt,      \* gateway: the state of each payment attempt
    job           \* local state of each event handler

db == <<ridePayment, priced, aged, payment, captures>>
gateway == <<rideOf, attempt>>
vars == <<ridePayment, priced, aged, rideOf, payment, captures, lock, req, checkout,
          attempt, job>>

-----------------------------------------------------------------------------
(* Statuses.  In this module no refund happens, so CAPTURED stands for     *)
(* every status of PAID_STATUSES: the code below treats them all alike.    *)

ABSENT == "ABSENT"     \* no Payment document
\* Mutant of CAPTURABLE_FROM_STATUSES: a failed attempt ends the payment.
CapturableUnlessFailed == {"CREATED", "PENDING", "AUTHORIZED", "CANCELLED"}
CAPTURABLE_FROM_STATUSES ==
    {"CREATED", "PENDING", "AUTHORIZED", "FAILED", "CANCELLED"}
FAILABLE_FROM_STATUSES == {"CREATED", "PENDING", "AUTHORIZED", "FAILED"}
UNSETTLED_STATUSES == {"CREATED", "PENDING", "AUTHORIZED", "FAILED"}
PAYABLE_RIDE_PAYMENT_STATUSES == {"PENDING", "FAILED"}
VERIFIABLE_FROM_STATUSES == {"CREATED", "FAILED"}
PAID_STATUSES == {"CAPTURED"}
PaymentStatus == CAPTURABLE_FROM_STATUSES \cup PAID_STATUSES

PaymentDoc == [status : PaymentStatus \cup {ABSENT},
               attemptNumber : 0 .. AttemptNumberBound,
               lastFailed : Attempts \cup {Nobody},
               gatewayPaymentId : Attempts \cup {Nobody}]
Document(s, n, failed, id) ==
    [status |-> s, attemptNumber |-> n, lastFailed |-> failed, gatewayPaymentId |-> id]
NoDoc == Document(ABSENT, 0, Nobody, Nobody)
NewDoc == Document("CREATED", 1, Nobody, Nobody)
\* The document of o with another status and gateway payment id ($set).
Updated(o, s, id) == Document(s, payment[o].attemptNumber, payment[o].lastFailed, id)

Recorded(o) == payment[o].status # ABSENT
Paid(o) == payment[o].status \in PAID_STATUSES
\* findByIdempotencyKey: the key is a hash of (ride, rider), one rider per ride.
PaymentsOf(r) == {o \in Orders : Recorded(o) /\ rideOf[o] = r}

RequestPC == {"idle", "lock", "recheck", "order", "insert", "reopen", "reopenRide",
              "respond"}
RequestState == [pc : RequestPC,
                 ride : Rides \cup {Nobody},
                 order : Orders \cup {Nobody}]

AttemptStatus == {"none", "created", "authorized", "captured", "failed"}
AttemptState == [order : Orders \cup {Nobody},
                 status : AttemptStatus,
                 signed : BOOLEAN]

JobPC == {"idle", "pending", "fetch", "capture", "fail", "failRide"}
JobState == [pc : JobPC, attempt : Attempts \cup {Nobody}]

Init ==
    /\ ridePayment = [r \in Rides |-> "PENDING"]
    /\ priced = [r \in Rides |-> FALSE]
    /\ aged = {}
    /\ rideOf = [o \in Orders |-> Nobody]
    /\ payment = [o \in Orders |-> NoDoc]
    /\ captures = [o \in Orders |-> 0]
    /\ lock = [r \in Rides |-> Nobody]
    /\ req = [q \in Requests |-> [pc |-> "idle", ride |-> Nobody, order |-> Nobody]]
    /\ checkout = {}
    /\ attempt = [p \in Attempts |->
                    [order |-> Nobody, status |-> "none", signed |-> FALSE]]
    /\ job = [h \in Handlers \cup {Sweep} |->
                [pc |-> "idle", attempt |-> Nobody]]

-----------------------------------------------------------------------------
(* ride.service.ts: the rider opens the fare screen.                       *)

PreviewRideFare(r) ==
    /\ priced' = [priced EXCEPT ![r] = TRUE]
    /\ UNCHANGED <<ridePayment, aged, payment, captures, gateway, lock, req, checkout, job>>

-----------------------------------------------------------------------------
(* createOrder                                                             *)

Save(o, doc) == payment' = [payment EXCEPT ![o] = doc]

At(q, pc, r, o) == req' = [req EXCEPT ![q] = [pc |-> pc, ride |-> r, order |-> o]]
Goto(q, pc) == At(q, pc, req[q].ride, req[q].order)

\* An error leaves through `finally { release() }` without an order.
Refuse(q) == At(q, "respond", req[q].ride, Nobody)

\* resumeOrder up to its first await, on the payment document just read.
ResumeOrder(q, r, o) ==
    \/ /\ payment[o].status # "FAILED"
       /\ At(q, "respond", r, o)
    \/ /\ payment[o].status = "FAILED"
       /\ payment[o].attemptNumber > MAX_PAYMENT_ATTEMPTS
       /\ At(q, "respond", r, Nobody)
    \/ /\ payment[o].status = "FAILED"
       /\ payment[o].attemptNumber <= MAX_PAYMENT_ATTEMPTS
       /\ At(q, "reopen", r, o)

\* The ride is payable; a payment that already exists is resumed without the lock.
CreateOrder(q, r) ==
    /\ req[q].pc = "idle"
    /\ ridePayment[r] \in PAYABLE_RIDE_PAYMENT_STATUSES
    /\ \/ \E o \in PaymentsOf(r) : ResumeOrder(q, r, o)
       \/ /\ PaymentsOf(r) = {}
          /\ At(q, "lock", r, Nobody)
    /\ UNCHANGED <<db, gateway, lock, checkout, job>>

\* SET key token NX PX: a lost lock answers 409 and holds nothing to release.
AcquireLock(q) ==
    /\ req[q].pc = "lock"
    /\ \/ /\ lock[req[q].ride] = Nobody
          /\ lock' = [lock EXCEPT ![req[q].ride] = q]
          /\ Goto(q, "recheck")
       \/ /\ lock[req[q].ride] # Nobody
          /\ At(q, "idle", Nobody, Nobody)
          /\ UNCHANGED lock
    /\ UNCHANGED <<db, gateway, checkout, job>>

\* Inside the lock: fare, payable status and idempotency key are read again.
Recheck(q) ==
    LET r == req[q].ride IN
    /\ req[q].pc = "recheck"
    /\ \/ /\ ~ (priced[r] /\ ridePayment[r] \in PAYABLE_RIDE_PAYMENT_STATUSES)
          /\ Refuse(q)
       \/ /\ priced[r] /\ ridePayment[r] \in PAYABLE_RIDE_PAYMENT_STATUSES
          /\ \/ \E o \in PaymentsOf(r) : ResumeOrder(q, r, o)
             \/ PaymentsOf(r) = {} /\ Goto(q, "order")
    /\ UNCHANGED <<db, gateway, lock, checkout, job>>

CreateGatewayOrder(q) ==
    /\ req[q].pc = "order"
    /\ \E o \in Orders :
          /\ rideOf[o] = Nobody
          /\ rideOf' = [rideOf EXCEPT ![o] = req[q].ride]
          /\ At(q, "insert", req[q].ride, o)
    /\ UNCHANGED <<db, attempt, lock, checkout, job>>

\* Mutants of InsertPayment: no unique index; the loser's own order is returned.
InsertWithoutUniqueIndex(q) ==
    /\ req[q].pc = "insert"
    /\ Save(req[q].order, NewDoc)
    /\ Goto(q, "respond")
    /\ UNCHANGED <<ridePayment, priced, aged, captures, gateway, lock, checkout, job>>
InsertReturningOwnOrder(q) ==
    /\ req[q].pc = "insert"
    /\ \/ PaymentsOf(req[q].ride) = {} /\ Save(req[q].order, NewDoc)
       \/ PaymentsOf(req[q].ride) # {} /\ UNCHANGED payment
    /\ Goto(q, "respond")
    /\ UNCHANGED <<ridePayment, priced, aged, captures, gateway, lock, checkout, job>>

\* The unique index on idempotencyKey: a duplicate resumes the winner's payment.
InsertPayment(q) ==
    LET r == req[q].ride IN
    /\ req[q].pc = "insert"
    /\ \/ /\ PaymentsOf(r) = {}
          /\ Save(req[q].order, NewDoc)
          /\ Goto(q, "respond")
       \/ /\ \E o \in PaymentsOf(r) : ResumeOrder(q, r, o)
          /\ UNCHANGED payment
    /\ UNCHANGED <<ridePayment, priced, aged, captures, gateway, lock, checkout, job>>

\* Compare-and-swap FAILED -> CREATED; the loser reports the fresh payment.
ReopenPayment(q) ==
    LET o == req[q].order IN
    /\ req[q].pc = "reopen"
    /\ \/ /\ payment[o].status = "FAILED"
          /\ Save(o, Updated(o, "CREATED", payment[o].gatewayPaymentId))
          /\ Goto(q, "reopenRide")
       \/ /\ payment[o].status # "FAILED"
          /\ Goto(q, "respond")
          /\ UNCHANGED payment
    /\ UNCHANGED <<ridePayment, priced, aged, captures, gateway, lock, checkout, job>>

ReopenRide(q) ==
    LET r == req[q].ride IN
    /\ req[q].pc = "reopenRide"
    /\ ridePayment' = [ridePayment EXCEPT ![r] = IF @ = "FAILED" THEN "PENDING" ELSE @]
    /\ Goto(q, "respond")
    /\ UNCHANGED <<priced, aged, payment, captures, gateway, lock, checkout, job>>

\* `return this.resumeOrder(..)` is not awaited inside the try: when resumeOrder awaits,
\* finally { release() } runs, and the order is reopened without the lock.
ReleaseEarly(q) ==
    LET r == req[q].ride IN
    /\ req[q].pc \in {"reopen", "reopenRide"}
    /\ lock[r] = q
    /\ lock' = [lock EXCEPT ![r] = Nobody]
    /\ UNCHANGED <<db, gateway, req, checkout, job>>

\* finally { release() } is a compare-and-delete; then the order reaches the rider.
Respond(q) ==
    LET r == req[q].ride IN
    /\ req[q].pc = "respond"
    /\ lock' = [lock EXCEPT ![r] = IF @ = q THEN Nobody ELSE @]
    /\ checkout' = checkout \cup ({req[q].order} \ {Nobody})
    /\ At(q, "idle", Nobody, Nobody)
    /\ UNCHANGED <<db, gateway, job>>

\* An awaited call throws.
RequestFails(q) ==
    /\ req[q].pc \in {"recheck", "order", "insert", "reopen", "reopenRide"}
    /\ Refuse(q)
    /\ UNCHANGED <<db, gateway, lock, checkout, job>>

\* The process dies: nothing is released, nothing is answered.
RequestCrashes(q) ==
    /\ req[q].pc # "idle"
    /\ At(q, "idle", Nobody, Nobody)
    /\ UNCHANGED <<db, gateway, lock, checkout, job>>

\* IDEMPOTENCY_LOCK_TTL_MS runs out, whether or not its holder is done.
LockExpires(r) ==
    /\ lock[r] # Nobody
    /\ lock' = [lock EXCEPT ![r] = Nobody]
    /\ UNCHANGED <<db, gateway, req, checkout, job>>

-----------------------------------------------------------------------------
(* Razorpay (external).  The rider tries to pay an order the browser was   *)
(* given; one order takes several attempts and at most one capture.        *)

GatewayCaptured(o) ==
    \E p \in Attempts : attempt[p].order = o /\ attempt[p].status = "captured"

SetAttempt(p, o, s, signed) ==
    attempt' = [attempt EXCEPT ![p] = [order |-> o, status |-> s, signed |-> signed]]

StartAttempt(p, o) ==
    /\ o \in checkout
    /\ ~ GatewayCaptured(o)
    /\ attempt[p].status = "none"
    /\ SetAttempt(p, o, "created", FALSE)
    /\ UNCHANGED <<db, rideOf, lock, req, checkout, job>>

\* The browser receives the signature of an attempt once it is authorized.
Authorize(p) ==
    /\ attempt[p].status = "created"
    /\ SetAttempt(p, attempt[p].order, "authorized", TRUE)
    /\ UNCHANGED <<db, rideOf, lock, req, checkout, job>>

CaptureAtGateway(p) ==
    /\ attempt[p].status = "authorized"
    /\ ~ GatewayCaptured(attempt[p].order)
    /\ SetAttempt(p, attempt[p].order, "captured", attempt[p].signed)
    /\ UNCHANGED <<db, rideOf, lock, req, checkout, job>>

FailAtGateway(p) ==
    /\ attempt[p].status \in {"created", "authorized"}
    /\ SetAttempt(p, attempt[p].order, "failed", attempt[p].signed)
    /\ UNCHANGED <<db, rideOf, lock, req, checkout, job>>

-----------------------------------------------------------------------------
(* Event handlers.  An event may be delivered any number of times, late    *)
(* and in any order: its guard is only that the gateway once reached the   *)
(* state it reports.  Reading the Payment is part of the first step.       *)

Start(h, pc, p) == job' = [job EXCEPT ![h] = [pc |-> pc, attempt |-> p]]
Finish(h) == Start(h, "idle", Nobody)

\* handlePaymentCaptured up to the transaction: unknown order or already paid returns.
HandlePaymentCaptured(h, p) ==
    LET o == attempt[p].order IN
    IF Recorded(o) /\ ~ Paid(o) THEN Start(h, "capture", p) ELSE Finish(h)

\* handlePaymentFailed up to recordFailedAttempt.
HandlePaymentFailed(h, p) ==
    LET o == attempt[p].order IN
    IF Recorded(o) /\ ~ Paid(o) /\ payment[o].lastFailed # p
    THEN Start(h, "fail", p) ELSE Finish(h)

\* payment.captured and order.paid
DeliverCaptured(h, p) ==
    /\ job[h].pc = "idle"
    /\ attempt[p].status = "captured"
    /\ HandlePaymentCaptured(h, p)
    /\ UNCHANGED <<db, gateway, lock, req, checkout>>

\* payment.failed
DeliverFailed(h, p) ==
    /\ job[h].pc = "idle"
    /\ attempt[p].status = "failed"
    /\ HandlePaymentFailed(h, p)
    /\ UNCHANGED <<db, gateway, lock, req, checkout>>

\* payment.authorized: one compare-and-swap CREATED | PENDING -> AUTHORIZED.
DeliverAuthorized(h, p) ==
    LET o == attempt[p].order IN
    /\ job[h].pc = "idle"
    /\ attempt[p].signed
    /\ payment[o].status \in {"CREATED", "PENDING"}
    /\ Save(o, Updated(o, "AUTHORIZED", p))
    /\ UNCHANGED <<ridePayment, priced, aged, captures, gateway, lock, req, checkout, job>>

\* verifyCheckoutSignature: signature, owner, already paid.
VerifyCheckout(h, p) ==
    LET o == attempt[p].order IN
    /\ job[h].pc = "idle"
    /\ attempt[p].signed
    /\ Recorded(o) /\ ~ Paid(o)
    /\ Start(h, "pending", p)
    /\ UNCHANGED <<db, gateway, lock, req, checkout>>

\* Compare-and-swap CREATED | FAILED -> PENDING; a lost swap is not an error.
MarkPending(h) ==
    LET p == job[h].attempt
        o == attempt[p].order IN
    /\ job[h].pc = "pending"
    /\ \/ /\ payment[o].status \in VERIFIABLE_FROM_STATUSES
          /\ Save(o, Updated(o, "PENDING", p))
       \/ /\ payment[o].status \notin VERIFIABLE_FROM_STATUSES
          /\ UNCHANGED payment
    /\ Start(h, "fetch", p)
    /\ UNCHANGED <<ridePayment, priced, aged, captures, gateway, lock, req, checkout>>

\* payments.fetch answers with the attempt as it is now, or fails.
FetchPayment(h) ==
    LET p == job[h].attempt IN
    /\ job[h].pc = "fetch"
    /\ \/ attempt[p].status = "captured" /\ HandlePaymentCaptured(h, p)
       \/ attempt[p].status = "failed" /\ HandlePaymentFailed(h, p)
       \/ Finish(h)
    /\ UNCHANGED <<db, gateway, lock, req, checkout>>

\* The swap finds the payment capturable, and the ledger's unique posting key
\* payment:<id>:capture is free; a duplicate key aborts the transaction.
CanClaim(o) == payment[o].status \in CAPTURABLE_FROM_STATUSES /\ captures[o] = 0

\* Mutant of RecordCapture: ledger rows written before the swap, which may then be lost.
RecordCapturePostingFirst(h) ==
    LET p == job[h].attempt
        o == attempt[p].order IN
    /\ job[h].pc = "capture"
    /\ captures' = [captures EXCEPT ![o] = captures[o] + 1]
    /\ \/ /\ payment[o].status \in CAPTURABLE_FROM_STATUSES
          /\ Save(o, Updated(o, "CAPTURED", p))
          /\ ridePayment' = [ridePayment EXCEPT ![rideOf[o]] = "CAPTURED"]
       \/ /\ payment[o].status \notin CAPTURABLE_FROM_STATUSES
          /\ UNCHANGED <<payment, ridePayment>>
    /\ Finish(h)
    /\ UNCHANGED <<priced, aged, gateway, lock, req, checkout>>

\* The capture transaction: the swap claims the capture, then ledger and ride.
RecordCapture(h) ==
    LET p == job[h].attempt
        o == attempt[p].order IN
    /\ job[h].pc = "capture"
    /\ \/ /\ CanClaim(o)
          /\ Save(o, Updated(o, "CAPTURED", p))
          /\ captures' = [captures EXCEPT ![o] = captures[o] + 1]
          /\ ridePayment' = [ridePayment EXCEPT ![rideOf[o]] = "CAPTURED"]
       \/ /\ ~ CanClaim(o)
          /\ UNCHANGED <<payment, captures, ridePayment>>
    /\ Finish(h)
    /\ UNCHANGED <<priced, aged, gateway, lock, req, checkout>>

\* recordFailedAttempt: FAILED, attemptNumber + 1, unless this attempt was the last one.
RecordFailedAttempt(h) ==
    LET p == job[h].attempt
        o == attempt[p].order IN
    /\ job[h].pc = "fail"
    /\ \/ /\ payment[o].status \in FAILABLE_FROM_STATUSES
          /\ payment[o].lastFailed # p
          /\ payment[o].attemptNumber < AttemptNumberBound
          /\ Save(o, Document("FAILED", payment[o].attemptNumber + 1, p,
                                     payment[o].gatewayPaymentId))
          /\ Start(h, "failRide", p)
       \/ /\ \/ payment[o].status \notin FAILABLE_FROM_STATUSES
             \/ payment[o].lastFailed = p
          /\ Finish(h)
          /\ UNCHANGED payment
    /\ UNCHANGED <<ridePayment, priced, aged, captures, gateway, lock, req, checkout>>

\* Mutant of MarkRideFailed: the update does not ask for a PENDING ride.
MarkAnyRideFailed(h) ==
    /\ job[h].pc = "failRide"
    /\ ridePayment' = [ridePayment EXCEPT ![rideOf[attempt[job[h].attempt].order]] = "FAILED"]
    /\ Finish(h)
    /\ UNCHANGED <<priced, aged, payment, captures, gateway, lock, req, checkout>>

\* The ride follows in an update of its own, and only from PENDING.
MarkRideFailed(h) ==
    LET r == rideOf[attempt[job[h].attempt].order] IN
    /\ job[h].pc = "failRide"
    /\ ridePayment' = [ridePayment EXCEPT ![r] = IF @ = "PENDING" THEN "FAILED" ELSE @]
    /\ Finish(h)
    /\ UNCHANGED <<priced, aged, payment, captures, gateway, lock, req, checkout>>

\* An awaited call throws, or the process dies.
JobLost(h) ==
    /\ job[h].pc # "idle"
    /\ Finish(h)
    /\ UNCHANGED <<db, gateway, lock, req, checkout>>

\* findUnsettled: payments that wait for money, of the last RECONCILE_MAX_AGE_DAYS.
FindUnsettled == {o \in Orders : payment[o].status \in UNSETTLED_STATUSES /\ o \notin aged}

\* Time passes: a payment that still waits leaves the window.
LeaveWindow(o) ==
    /\ o \in FindUnsettled
    /\ aged' = aged \cup {o}
    /\ UNCHANGED <<ridePayment, priced, payment, captures, gateway, lock, req, checkout, job>>

\* reconcileStalePayments -> healFromGateway for one unsettled payment.
Reconcile(o) ==
    /\ job[Sweep].pc = "idle"
    /\ o \in FindUnsettled
    /\ \E p \in Attempts :
          /\ attempt[p].order = o /\ attempt[p].status = "captured"
          /\ HandlePaymentCaptured(Sweep, p)
    /\ UNCHANGED <<db, gateway, lock, req, checkout>>

-----------------------------------------------------------------------------
RequestStep(q) ==
    \/ \E r \in Rides : CreateOrder(q, r)
    \/ AcquireLock(q) \/ Recheck(q) \/ CreateGatewayOrder(q) \/ InsertPayment(q)
    \/ ReopenPayment(q) \/ ReopenRide(q) \/ ReleaseEarly(q) \/ Respond(q)
    \/ RequestFails(q) \/ RequestCrashes(q)

GatewayStep(p) ==
    \/ \E o \in Orders : StartAttempt(p, o)
    \/ Authorize(p) \/ CaptureAtGateway(p) \/ FailAtGateway(p)

EventArrives(h, p) ==
    \/ DeliverCaptured(h, p) \/ DeliverFailed(h, p) \/ DeliverAuthorized(h, p)
    \/ VerifyCheckout(h, p)

JobStep(h) ==
    \/ MarkPending(h) \/ FetchPayment(h) \/ RecordCapture(h)
    \/ RecordFailedAttempt(h) \/ MarkRideFailed(h) \/ JobLost(h)

Next ==
    \/ \E r \in Rides : PreviewRideFare(r) \/ LockExpires(r)
    \/ \E q \in Requests : RequestStep(q)
    \/ \E p \in Attempts : GatewayStep(p)
    \/ \E h \in Handlers, p \in Attempts : EventArrives(h, p)
    \/ \E h \in Handlers \cup {Sweep} : JobStep(h)
    \/ \E o \in Orders : LeaveWindow(o) \/ Reconcile(o)

Spec == Init /\ [][Next]_vars

\* The sweep runs every five minutes over the unsettled payments of its window,
\* oldest first.  A payment that stays in the window is visited again and again (the
\* older ones that fill a batch leave the window before it does), and neither the
\* gateway nor the database is down at every one of those visits.
Fairness ==
    /\ \A o \in Orders : SF_vars(Reconcile(o))
    /\ SF_vars(RecordCapture(Sweep))

FairSpec == Spec /\ Fairness

-----------------------------------------------------------------------------
(* Properties                                                              *)

\* The state is made of the documents, keys and local variables above.
TypeOK ==
    /\ ridePayment \in [Rides -> PAYABLE_RIDE_PAYMENT_STATUSES \cup {"CAPTURED"}]
    /\ priced \in [Rides -> BOOLEAN]
    /\ aged \subseteq Orders
    /\ rideOf \in [Orders -> Rides \cup {Nobody}]
    /\ payment \in [Orders -> PaymentDoc]
    /\ captures \in [Orders -> Nat]
    /\ lock \in [Rides -> Requests \cup {Nobody}]
    /\ req \in [Requests -> RequestState]
    /\ checkout \subseteq Orders
    /\ attempt \in [Attempts -> AttemptState]
    /\ job \in [Handlers \cup {Sweep} -> JobState]

\* However requests overlap, crash or outlive the order lock, a rider is only
\* ever given one order per ride to pay, and it is the one with a Payment
\* document: money paid on any order can be recorded (createOrder, resumeOrder).
OneOrderPerRide ==
    \A o \in checkout :
        /\ Recorded(o)
        /\ \A o2 \in checkout : rideOf[o] = rideOf[o2] => o = o2

\* The ledger holds one capture transaction of every paid payment and none of
\* the others, whichever of /verify, the webhooks and the sweep recorded it.
LedgerFollowsCapture ==
    \A o \in Orders : captures[o] = IF Paid(o) THEN 1 ELSE 0

\* A ride is paid exactly when a payment of it is: a late failure or a reopened
\* checkout, written to the ride in a separate update, never undoes it.
RideFollowsCapture ==
    \A r \in Rides :
        ridePayment[r] = "CAPTURED" <=> \E o \in PaymentsOf(r) : Paid(o)

\* A paid payment names the gateway payment that holds the money, on its own
\* order, whatever ids /verify and payment.authorized stored before: refunds are
\* sent to that id.
CapturedNamesTheMoney ==
    \A o \in Orders : Paid(o) =>
        LET p == payment[o].gatewayPaymentId IN
        /\ p \in Attempts
        /\ attempt[p].order = o
        /\ attempt[p].status = "captured"

\* No late, repeated or reordered signal changes a payment once it is paid.
PaidIsFinal ==
    [][\A o \in Orders : Paid(o) => payment'[o] = payment[o]]_vars

\* recordFailedAttempt is "Idempotent per gateway payment id" (payment.repository.ts):
\* attemptNumber counts every attempt that failed once.  False: the document remembers
\* the last one only, and an attempt reported again after another one counts twice.
FailedAttemptsCountOnce ==
    \A o \in Orders : payment[o].attemptNumber <=
        1 + Cardinality({p \in Attempts : attempt[p].order = o /\ attempt[p].status = "failed"})

\* Money captured at the gateway is recorded in the end, even if every webhook and
\* /verify call is lost or crashes: the sweep asks the gateway (healFromGateway), as
\* long as the payment stays in its window.
CapturedIsRecorded ==
    \A o \in Orders : GatewayCaptured(o) ~> Paid(o) \/ o \in aged

\* The whole flow implements the contract of FareContract: no double charge, no
\* ride paid without a charge or paid twice.
Contract == INSTANCE FareContract WITH
    Charges <- Attempts,
    charged <- [r \in Rides |-> {p \in Attempts : attempt[p].status = "captured"
                                                  /\ rideOf[attempt[p].order] = r}],
    paid <- {r \in Rides : ridePayment[r] = "CAPTURED"}
ImplementsFareContract == Contract!Spec
=============================================================================
