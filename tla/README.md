# UrbanFleet in TLA+

UrbanFleet is a ride-hailing backend (TypeScript, Express, MongoDB, Redis, WebSockets, Razorpay)
with a React frontend. This directory models the parts of both whose correctness
depends on the order in which things happen, checks the models with TLC, and proves the safety
properties of all of them with TLAPS. Paths below are relative to `src/backend/src/`, those that begin
with `frontend` to `src/`.

To run it: `tlc -config X.cfg M` for the rows of the table of runs, `tlapm MProofs.tla` for the
proofs.

## The system

| Component | State | Operations | What is hard about it |
|---|---|---|---|
| Ride lifecycle, `services/ride.service.ts` | `Ride` and `Driver` documents | create, accept, arrive, start, arrive at destination, cancel (rider, driver), complete | Mongo transactions that race; work after the commit that may fail |
| Dispatch, `services/dispatch-ride.service.ts` | `activeDispatches` and timers, in memory | dispatchRide, next batch, timeout handler, stop | dispatch objects used after an await; stop before start; crash |
| Matching, `services/matching.service.ts` | none (reads Redis geo, presence, `Driver`) | findEligibleDrivers | candidates are stale when they are asked |
| Driver presence, `redis/services/driver-presence.service.ts` | `driver:presence:<id>`, TTL 5 min | online, offline, available, busy, heartbeat | read-modify-write without a lock |
| Payment capture, `payment/services/payment.service.ts` | `Payment` documents, `ride.paymentStatus`, a Redis lock per idempotency key | createOrder, resumeOrder, /verify, captured / failed / authorized events | two requests, lost, duplicated and reordered webhooks, a lock that expires, updates in two steps |
| Ledger, `payment/services/ledger.service.ts` | append-only rows, unique per reference and key | capture, refund, payout, reversal postings | exactly-once posting |
| Reconciliation, `payment/services/reconciliation.service.ts`, `payment/jobs` | a run lock in Redis | heal missed captures, pending refunds, ledger check | must record money whose webhooks were lost |
| Webhook intake, `payment/services/webhook.service.ts` | event markers in Redis | claim, dispatch, complete, release | crash between claim and completion |
| Refunds, `payment/services/refund.service.ts`, `payment/utils/refund-allocation.ts` | refund records of a payment | initiate, gateway event, abandon, book, compensate | races on one payment's refunds; rounding |
| Payouts, `payment/services/payout.service.ts` | `Payout` documents | create, processing, processed, failed, cancelled, reversed | check then act on the ledger; late reversals |
| Sessions, `utils/generateToken.ts`, `middlewares/session.middleware.ts`, `controllers/auth.controller.ts` | sessions and refresh tokens in Redis, cookies, the access token in the page | sign in, refresh, log out, reset password | rotation, revocation and sign-in that overlap, command by command |
| Accounts, `controllers/auth.controller.ts` | `User` documents, links and codes in Redis | register, verify, Google, forgot and reset password, log in with a mailed code | several ways to one account at once; mail that fails |
| Driver application, `controllers/driver.controller.ts`, `services/cloudinary.service.ts` | `Driver` documents, images in Cloudinary | apply with eleven images | parallel uploads of which some fail; rollback |
| Sockets, `sockets/` | registry of open sockets | authenticate, messages, close, emit | two sockets of one driver; events to nobody |
| API client, `frontend/src/apiInterceptor.ts`, `frontend/src/context/authContext.tsx` | access token, refresh flag and queue | intercept, refresh, queue, retry, log out | calls refused while a refresh is under way |
| Rider and driver pages, `frontend/src/RideDetails.tsx`, `frontend/src/DriverDashboard.tsx` | the ride as shown | fetch, socket events, buttons, payment | events late, lost or of another ride; optimistic updates |
| Fare, `services/fare.service.ts` | none | price of a distance | rounding |

How they interact. `createRide` commits a ride and dispatches it; drivers found by matching are
asked over sockets; `acceptRide` writes ride and driver in a transaction, then stops the dispatch
and marks the driver busy in Redis. At the destination the rider opens the fare screen
(`previewRideFare` prices the ride), the browser calls `createOrder`, pays at Razorpay, and the
money is reported by any of the browser (`/verify`), webhooks, or the sweep that asks Razorpay
every five minutes. All three run the same capture code: one transaction over payment, ledger and
ride. `completeRide` asks for the paid ride. Refunds and payouts work on paid payments.

Per component, what makes it correct: a ride has one order in circulation and is charged once; a
captured payment is posted once, its ride is paid, and nothing undoes it; captured money is
recorded in the end; ride and driver documents agree; an ended ride is final; a dispatch asks each
driver once and ends; refunds never exceed the capture and split it without losing a paisa;
payouts never exceed what a driver earned, unless the code knows; a session that was signed out of stays so; a driver
who has gone is not matched; the pages show the ride as it is. The hazards behind
these are in `PROJECT.json`, each at its line.

## Modules

| Module | Models | Used by |
|---|---|---|
| `PaymentCapture` | createOrder, resumeOrder, /verify, payment events, sweep, the external gateway | runs `payment_capture`, `payment_recovery` |
| `FareContract` | what collecting a fare promises (abstract) | refined by `PaymentCapture` |
| `RideLifecycle`, `MCRideLifecycle` | ride.service.ts, with dispatch and presence as far as it touches them | run `ride_lifecycle` |
| `DriverAssignment` | what assigning drivers promises (abstract) | refined by `RideLifecycle` |
| `RideDispatch` | dispatch-ride.service.ts for one ride, step by step | run `ride_dispatch` |
| `RefundAllocation` | refund-totals.ts and refund-allocation.ts: sums, legacy part, the split of a refund | `Refunds` |
| `Refunds`, `MCRefunds` | refund.service.ts, the sweep over pending refunds, the external gateway, for one payment | runs `refunds`, `refund_recovery` |
| `WebhookIntake` | event markers of webhook.service.ts; what an event does is left to the module that composes it | `Payouts` |
| `Payouts`, `MCPayouts` | payout.service.ts for one payment, composed with `WebhookIntake` and with refunds | run `payouts` |
| `DriverShare` | what paying out a driver's share promises (abstract) | refined by `Payouts` |
| `Sessions`, `MCSessions` | sessions and refresh tokens of one user, server and browsers | run `sessions` |
| `AuthClient` | the interceptors and the auth context of one page | run `auth_client` |
| `DriverPresence`, `MCDriverPresence` | presence and geo index of one driver, the driver's pages and sockets | run `driver_presence` |
| `RideView` | one ride as the rider's page and the driver's dashboard show it | run `ride_view` |
| `Onboarding`, `MCOnboarding` | one account and its ways to sign in, and the driver application | run `onboarding` |
| `PaymentCaptureProofs`, `RideDispatchProofs`, `PayoutsProofs`, `DriverPresenceProofs`, `OnboardingProofs` | theorems about the module they are named after | |
| `RideLifecycleProofs` | theorems about `RideLifecycle` and, as instance `View`, `RideView`, and about the two together | |
| `RefundsProofs` | theorems about `RefundAllocation` and `Refunds` | |
| `SessionsProofs` | theorems about `Sessions` and, as instance `Client`, `AuthClient` | |

A configuration gives each constant a set of model values or a number, so that an MC
module only adds the symmetry of the larger runs and, in `MCPayouts` and `MCOnboarding`, a constraint. `RideLifecycle` sees payment only as "ordered" and "paid" (its actions
`CreateOrder` and `HandlePaymentCaptured` are the outside of `PaymentCapture`), and a dispatch only
as an entry of `activeDispatches` (`RideDispatch` opens it up).

### PaymentCapture

State: the `Payment` documents, one per gateway order (`payment`), the ride's payment status
(`ridePayment`), whether it has a price (`priced`), the captures in the ledger (`captures`), the
Redis lock of the ride (`lock`), createOrder requests (`req`) and event handlers (`job`) with a
program counter and the local variables that survive an await, the orders browsers were given
(`checkout`), and the attempts at Razorpay (`attempt`).

A step is the code between two awaits that matter: a read whose answer another process can make
stale is a step, the write that follows is another. Two consecutive reads of the same documents by
one request are one step: what the second sees, the first could have seen. A compare-and-swap, an
insert under a unique index and a Mongo transaction are one step each. `return this.resumeOrder()`
is not awaited inside the `try`, so the lock is released while it runs (`ReleaseEarly`). The lock
may expire at any time (`LockExpires`). The token of a lock is the id of its request: when a
crashed request's successor releases what its predecessor held, that is one more expiry.

Events need no queue: an event may be handled at any time, any number of times, once the gateway
reached the state it reports. That is every loss, delay, duplication and reordering. Event
handlers may die at any step (`JobLost`), requests too (`RequestFails`, `RequestCrashes`).
The sweep is one more handler (`Sweep`). Its lock, shorter than its interval, does not matter
here: a second sweep would do nothing the other handlers do not do already.

Amounts are left out: a ride's fare is set once, so the guards on a changed amount never fire. The
signature checks are one flag of an attempt (`signed`). Razorpay captures at most one attempt of
an order, and reports the state an attempt really has: the model of the gateway is an assumption.

### RideLifecycle

State: status, rider and driver of each ride; `currentRide` and the two trip counters of each
driver; rides with an order and paid rides; createRide transactions between their read and their
commit (`drafts`) with those that were open when one began (`beside`, history); createRide calls that still look for drivers (`matching`); `dispatching`; the work
left after a commit (`after`: stopDispatch, then presence); presence.

Each transaction that writes what it reads is one step: two of them that overlap conflict and one is
retried or fails. `createRide` reads other documents than it writes and is two steps: that is where
the code's check leaks. The process may crash or an operation fail after its commit. A driver may
change presence at any time, also during a ride, as the socket handlers let it. `CreateOrder` and
`HandlePaymentCaptured` have no say in what a ride becomes: money may arrive late. A refund of a ride
that is not completed yet is not modelled here; it can only keep `completeRide` from firing.

### RideDispatch

One ride. State: the entry of the map (`active`, `drivers`, `cursor`, `timer`), where
`dispatchRide` (`creating`) and `handleDispatchTimeout` (`handler`) are, stopDispatch calls to come
(`stops`), and what was sent (`asked`, `told`). `late` counts the batches sent after the search was
over and `interrupted` remembers a crash or a failed dispatchRide: both are history, read by
properties only. A candidate is its place in the list, since the list is sorted once and never
changed; which of them have a socket is chosen anew for each batch. The handler holds the dispatch
object over its await, so it goes on with one that is no longer in the map, and its timer is then
in nobody's reach: this is kept as in the code. A query that rejects in the handler ends the
process (`index.ts` exits on an unhandled rejection), so that failure is `Crash`.

### Refunds

One captured payment. State: its status and refunded total (`payment`), its refund records
(`refunds`), the net postings of those records per account (`ledger`), Razorpay's refunds
(`gateway`), the refund lock (`lock`), and for each process, that is request, webhook or sweep, a
program counter with what it read (`proc`). `told` remembers the dashboard refunds whose webhook was
answered.

A refund passes `StartRefund` (lock), `ReadForRefund` (checks and split), `Book` (a transaction that
finds the payment as it was read), `Send` (the gateway answers, refuses, or the answer is lost),
`Settle`; a refusal leads to `Reload` and `Undo`, compensateRefund. A webhook passes `StartEvent`,
`ReadForEvent` and then `Update`, compensation, or `Book` when the refund was issued on the dashboard.
The sweep asks the gateway and goes on like a webhook, or abandons a refund the gateway never got
(`SweepRefund`, `ReadForAbandon`). Reads in a row are one step unless a write of another process between
them matters: each such pair is split. A process may fail (`Fail`) or die (`Crash`) at any point, and
the lock may expire under its holder (`LockExpires`); `expiries` counts how often.

What is assumed. The gateway refunds at most what was captured, and reports a state that its refund has
or had, any number of times and in any order. The sweep abandons a refund an hour after it was booked at
the earliest; by then no request is still waiting to send it. The gateway's id of a refund sent by the
app is the number of its record, which it carries as its receipt; a lookup by id and one by notes
stay apart in `RecordOf`. The driver's payout, which `bookRefund` may cancel in its transaction, is left to
`Payouts`: it decides nothing here. `RefundAllocation` has the arithmetic as operators on paise.

### WebhookIntake and Payouts

`WebhookIntake` keeps, per event, whether Razorpay sent it (`emitted`), whether a delivery was answered 2xx
(`answered`), its marker in Redis, and the deliveries at work (`handler`). Delivery is at least once: an
event that was not answered may be claimed again at any time. `claim`, `complete` and `release` are a step
each; the marker may expire under a slow handler, and the process may die between any two. A delivery that meets a marker
"processing", of a handler at work or of one that died, is answered 2xx. Histories: `early` has the events that were
answered so, `interrupted` those of which a handler threw or died; an event leaves both when it is handled.

`Payouts` takes the payouts of one payment. State: the documents (`payouts`), the driver's part of its refunds
(`reversed`), the net of the payout postings (`ledger`), createPayout calls between their reads and their
insert (`request`), and what `markReversed` read (`seen`). `flagged` is driverClawbackRequired; `outrun`
is history. A transition is one step with its posting, as it is one Mongo transaction; `markReversed`
is two, because it reads before it. `BookRefund` and `CompensateRefund` are what module `Refunds` does to a
payout. RazorpayX (`GatewayStep`) initiates, processes, fails or reverses a payout it got.

### Sessions

One user. State: the keys `session:<id>`, `user-sessions:<user>` and `refresh-token:<user>:<id>` in Redis, the
cookies and access token of each browser (`jar`), the requests being handled, and the clock of `jwt.sign`
in seconds: two refresh tokens of one session signed in one second are the same string. Each Redis command is a
step, those of one `Promise.all` together. Four requests: a sign-in (`setupUserSession`: list the sessions,
drop them, create, register, store the token), a refresh, a logout, a reset. An answer carries the
Set-Cookie headers written so far (`Answered`), also when the request fails half way, after the token is stored and
before its cookie is set included (`AnswerFails`); it may be lost (`LoseAnswer`). The histories `overlapped` and `raced` say when requests worked on one thing at once.

### AuthClient

One page: the access token (`token`), `isRefreshing`, `failedQueue`, the calls, and where `logout()` is.
A call is sent, refused with 401 or 403, and then refreshes, queues, or is rejected; the refresh sends the
queue again or rejects it. The server is reduced to whether a session is in force (`session`).

### DriverPresence

One driver. State: `driver:presence:<id>` and membership of `drivers:geo`; `pipe`, the Redis operations under
way: the process has one connection, so commands run in the order they are issued and an operation issues
the next when it has the last reply; the pages with their sockets (`conn`), what they show (`status`,
`view`), and the ride operations not committed yet (`tx`). Each message of the page is one action that issues an
operation; `ExecuteCommand` is one command. A socket that closes takes the driver offline whatever other
sockets there are, but one that closes while it is still authenticated is registered afterwards and stays in the registry
(`ghosts`). `stale` and `unclean` are history: what may make Redis and a page differ, and what may leave a key
behind.

### RideView

One ride, a rider's page and a driver's dashboard. The server is `ride` with what its operations still have to
emit (`emits`): emits follow the commit by an await, so they keep no order between operations. The page fetches
(`fetches`), hears events in the order they reach its socket, cancels and pays; the dashboard shows what it asked
for at once (`Assume`) and hears of nothing that the rider did. `emits` may begin with the event of an earlier ride:
the handlers of RideDetails do not look at the ride's id. The rider may leave the page with a
cancellation under way, and the dashboard may be reloaded over its own messages. `excuse` and `refused` are history:
why a page may be wrong.

### Onboarding

One e-mail address and its owner. State: the ways to sign in that the account knows (`account`), links and codes in
Redis, the newest mail, and the requests being handled, split where they await. A driver application starts all
uploads at once (`uploading`), inserts the document under the unique indexes on user and plate, and rolls back
when that fails. A rejected upload ends the application while others are still under way, and may have
stored its image; deletions may fail one by one. The reset of a password and the deletion of its key (`DropReset`) are
two steps.

## Runs

| Run | Constants | What it shows |
|---|---|---|
| `payment_capture` | 1 ride, 2 orders, 2 attempts, 2 requests, 1 handler and the sweep; 2 attempts allowed | one order in circulation per ride (`OneOrderPerRide`), the ledger and the ride follow the capture (`LedgerFollowsCapture`, `RideFollowsCapture`), refinement of `FareContract` |
| `payment_recovery` | 1 ride, 2 orders, 2 attempts, 1 request, 2 handlers and the sweep | captured money is recorded in the end (`CapturedIsRecorded`) |
| `ride_lifecycle` | 2 rides, 2 riders, 2 drivers | ride and driver documents agree, no charge on a cancelled ride, two active rides of a rider come from overlapping requests only (`SecondRideOverlapped`), refinement of `DriverAssignment` |
| `ride_dispatch` | up to 5 candidates, batches of 2 | each driver asked once, at most one late batch, a searching ride is pursued, every dispatch ends |
| `refunds` | capture of 2, driver's leg 1; 2 handlers and the sweep, 2 records, 1 dashboard refund, 1 expiry | total, records and ledger agree (`BooksAgree`), legs are not overdrawn (`LegsWithinFare`), sent refunds stay booked (`SentRefundIsBooked`), dashboard refunds are booked (`DashboardRefundIsBooked`) |
| `refund_recovery` | the same with 1 handler and the sweep, no expiry | every booked refund is settled or undone (`PendingIsResolved`) |
| `payouts` | a share of 1, 2 payouts, 1 request, 2 deliveries at once, 3 events | the ledger follows the payouts (`LedgerFollowsPayouts`), postings are earned (`PostedMoneyWasSent`), overpayments are known (`OverdraftIsFlagged`), answered events were handled or met the marker of a handler that failed (`AnsweredIsHandled`), refinement of `DriverShare` |
| `sessions` | 2 browsers, 2 sessions, 2 requests at once, 2 seconds | one session (`OneSession`), signed out for good (`SignedOutForGood`), the refresh cookie works (`RefreshCookieWorks`), no token is left (`NoTokenLeft`) |
| `auth_client` | 3 calls | the queue is served (`QueueIsServed`), every call settles (`EveryCallSettles`) |
| `driver_presence` | 2 pages, 2 operations on Redis at once | a driver who has gone is not matched (`GoneIsNotMatched`), one who is shown as available is (`AvailableIsMatched`) |
| `ride_view` | 2 fetches, 1 message of the driver at a time, 2 events under way | both pages are in sync (`RiderIsInSync`, `DriverIsInSync`), the end of a ride is shown (`EndIsShown`) |
| `onboarding` | 2 requests, 2 applications of 2 images, 2 links, 2 codes | the mailed code works (`MailedCodeWorks`), sign-ins are kept (`SignInsAreKept`), images follow the document (`ImagesFollowDriver`) |

Nine more configurations check one property each that a comment, a document or the evident purpose of the code states and the
code does not keep. They are not in the table, or in `PROJECT.json`, since TLC ends each with a counterexample after
some seconds; the section after this one says what it shows.

| Configuration and module | Property that fails |
|---|---|
| `FailureCountedTwice.cfg PaymentCapture` | `FailedAttemptsCountOnce` |
| `TwoActiveRides.cfg MCRideLifecycle` | `OneActiveRidePerRider` |
| `StaleSplit.cfg MCRefunds` | `LegsNeverExceedFare` |
| `WebhookLost.cfg MCPayouts` | `NoEventIsLost` |
| `PayoutOverdraft.cfg MCPayouts` | `NoUnflaggedOverdraft` |
| `PayoutReversalLost.cfg MCPayouts` | `ReversalIsBooked` |
| `ResetKeepsSessions.cfg MCSessions` | `ResetEndsRefresh` |
| `DriverNotTold.cfg RideView` | `CancellationReachesDriver` |
| `UploadsLeftBehind.cfg MCOnboarding` | `FailedUploadsAreRolledBack` |

Why the bounds are enough. Every conflict of the payment code is between two requests (the loser of
a lock or an insert and its winner), two attempts of one order (an old failure next to a new
capture), or two handlers; rides share nothing but the sweep. The two orders let a losing request
create an order that must not circulate. With `MAX_PAYMENT_ATTEMPTS` at 2 the order is reopened after
the first failure and the rider is locked out after the second; `AttemptNumberBound` lets the count go
above it. Two rides and two
drivers are what a race for one ride, or for one driver, takes, and two rides of one
rider are what overlapping requests make. The real batch of 3 and list of 20 differ from 2 and 5
in nothing but size: there is a full batch, a following one and a short last one. Refunds
race in pairs too: two bookings, two compensations of one record, or a booking and a compensation; a
capture of 2 paise has a partial refund, a full one and one that must round. The theorems cover all
values of these constants. In `payouts` three events are a payout's initiation,
its processing and a reversal, or two payouts that follow each other; two deliveries are a pair that
races, over one event or over two of one payout, and any number may follow. `TwoDeliveriesOrTwoPayouts` keeps TLC from looking at
deliveries that meet each other when there are two payouts; the theorems need no such bound. In
`sessions` two sign-ins, or a sign-in and a refresh or logout, are what can overlap on a user; the second second tells
old tokens from new ones. Of three calls one refreshes and two wait, so that emptying the queue half way shows. Two pages
of a driver are one that closes and one that stays. `ride_view` has two events under way because order is a matter
of pairs, and two fetches because answers overtake each other; the theorems cover any number of messages. `OneKindAtATime` keeps TLC from
multiplying account requests with applications, which share nothing but the account's existence. Two
images stand for eleven: one that arrived and one that fails. Deadlock is checked in `RideLifecycle` alone,
where the driver can always change presence; the other systems stop when their orders, records, calls, links or
rides are used up or done.

Fairness. `payment_recovery` assumes that the sweep gets to each payment it may look at infinitely
often while that payment stays unsettled and inside the window, and that the sweep's transaction does not
fail every time. The job runs every five minutes on every unsettled payment of the window, oldest
first, a hundred at a time; a payment can be kept waiting by a hundred older ones, but those leave the
window before it does. A payment that leaves the window (`aged`) is given up by the code, and by the
property. Nothing else is fair: webhooks may all be lost. `ride_dispatch` assumes of the event loop that
timers fire and that awaited queries answer (or reject, which is `Crash`); nobody is forced to
accept, cancel, or to call stopDispatch. `refund_recovery` assumes that awaited calls return, that the lock
runs out, that Razorpay decides on each refund it has, and that the sweep, every five minutes, gets the
lock now and then and does not fail at the same step every time (strong fairness: other holders and
failures come in between). Webhooks and requests may all be lost. Rides have no liveness: riders and drivers do as they like.
`auth_client` assumes that each HTTP call ends, with an answer or without (`WF` of `CallStep`). `ride_view`
assumes that operations get to their emits, that the socket delivers what it was given, and that connections and
requests are answered, each kind taken together (`FairSpec`); nobody has to press a button, and a page may close. The other runs check
safety only, without fairness.

## What the code leaves open

Each of these is in the model as it is in the code. The first nine are where something in the repository says
otherwise; a configuration shows the counterexample, and, where there is one, a property that holds says how far it goes.

- Failures p1, p2 and p1 again of one order count three, since `recordFailedAttempt` compares with the last failed id
  only (`payment.repository.ts:186`); its comment calls it idempotent per payment id. `FailedAttemptsCountOnce` fails.
- Two overlapping createRide requests give a rider two active rides (`OneActiveRidePerRider` fails): the check reads a
  snapshot that the insert does not conflict with (`ride.service.ts:110`). `SecondRideOverlapped`: nothing else does.
- `bookRefund` compares status and total, not the records: with a lock that expired under its holder the split may be of
  an older state and overdraw a leg (`LegsNeverExceedFare` fails). `LegsWithinFare`: not while locks last; the sums
  that `BooksAgree` compares are right even then.
- A delivery that meets a marker "processing" is answered as a duplicate; if the handler of that marker then throws or
  has died, Razorpay does not deliver again (`webhook.service.ts:161`, `NoEventIsLost` fails). `AnsweredIsHandled`: no
  other order loses an event.
- A refund booked between the reads of `createPayout` and its insert is paid out unflagged (`NoUnflaggedOverdraft` fails).
  `OverdraftIsFlagged`: nothing else is (`outrun`).
- A reversal that read a payout just before it was processed changes nothing (`ReversalIsBooked` fails).
- A password reset ends no session but drops one refresh token (`ResetEndsRefresh` fails).
- A ride that the rider cancels is announced with the rider's emitter and the driver's id, so that the dashboard does not hear of
  it (`ride.service.ts:565`, `CancellationReachesDriver` fails).
- When an upload fails the images of the others stay (`FailedUploadsAreRolledBack` fails). `ImagesFollowDriver` says what
  else can part images and document: an insert that threw although it was stored, whose images are deleted
  (place `undone`), a deletion that failed, and a crash.

The rest contradicts no text; a property names it as its exception, so that this very case is not checked by it.

- A timeout handler that read the ride before an accept or cancel asks one more batch after it
  (`dispatch-ride.service.ts:379`). `AtMostOneLateBatch` and `DispatchEnds` bound this.
- A dashboard refund whose webhook comes while a booking takes the balance is answered without a record; if that
  booking is undone later, nothing asks again (`refund.service.ts:410`, `DashboardRefundIsBooked`).
- Two sign-ins that overlap leave two sessions until the next one (`overlapped`); two refreshes with one token leave
  the cookie without its key (`raced`).
- A presence written by an operation that overlaps another may differ from what the page shows until the driver
  toggles (`stale`). A socket closed while it is authenticated stays registered, and dispatch asks it in vain (`ghosts`).
- An event that is lost or out of turn leaves the rider's page behind until it is opened again (`excuse`); a refused message,
  or a reload over unanswered ones, leaves the dashboard wrong (`refused`).
- Overlapping requests for codes can leave a newest mail whose code is refused (`unclear`).

## Proofs

Every safety property of the passing runs is proved for every value of the constants (those of `AuthClient` and
`RideView` under the names `ClientQueueServed`, `RiderPageInSync`, `DashboardInSync`), and more that no run
repeats: the types, and `CapturedNamesTheMoney`, `PaidIsFinal`, `StatisticsMatchRides`, `EndedIsFinal`, `StatusFollowsTotal`,
`OneRecordPerRefund`, `OneLivePayout`, `SettledIsFinal`. Each
state machine's theorem `Inductive` establishes an inductive invariant `IInv`, and the others follow from it.

`PaymentCaptureProofs`. The invariants of the run are not inductive: that a request may hand out its
order depends on what it found before its last await. `IInv` adds that (`RequestInv`), the same for
handlers (`JobInv`: who is about to record a capture holds an attempt that the gateway captured),
the unique index (`UniqueKey`), and that attempts are made on circulating orders only, with one
capture per order (`AttemptInv`). The effect of each kind of update is a lemma and each step has one
lemma for what it can disturb. `PaidStays` and `Refinement` use `IInv` in the step. Charging
happens at the gateway; a second charge of a ride would need a second order in circulation, and
`UniqueKey` with `CheckoutRecorded` excludes that.

`RideLifecycleProofs`. `IInv` adds which statuses have a driver (`DriverNamed`), that a draft has no
document (`DraftInv`), and that rides with an order have reached the destination (`OrderedInv`); for the
statistics, that the sets of ended rides are finite (`TripsFinite`), so that the proof needs no
assumption on the number of rides; for `SecondRide`, that of two
rides of one rider, open or active, one was open when the other began (its own invariant, over `IInv`). `Refinement`: `ServedIsCurrent` turns the set of rides a driver serves
into `currentRide`, and each step that writes it is `Assign` or `Release`.

The second half of `RideLifecycleProofs` is about `RideView`. It needs the order of a ride's statuses (`ReachedAfter`
writes it out, `PastOrder`: of two states that the ride was in, one is the older). A page that can go wrong in so
many ways is right when nothing is under way only if, in every state, something that is under way will make it
right: `CatchUp` says which. Unless `excuse` tells otherwise, the page waits for an answer that the server has still
to give, or has an answer, or shows a ride, that is the ride as it is but for events that are due; and a capture that the page
does not show is among those events. For this to last, events must be true, and in commit order both on their way and before
they are sent (`EventsInv`), answers must be of a state the ride was in (`GetsInv`), and what is shown must not be
ahead of the ride (`ShownInv`). `DashboardInv` says that the dashboard is ahead of the ride by the messages
under way and nothing else, and from which statuses a ride can have ended meanwhile. `ViewInv` joins these, and each
action has a lemma for the page and one for the dashboard. These theorems have the module's assumption as a hypothesis
(`ViewAssumption`), since an instance does not bring it along.

`RidesStepAsShown` ties the two modules together. `RideView` has one ride and no driver documents, transactions or
crashes; the theorem says that a ride of `RideLifecycle`, among any number, takes the steps that `RideView`
lets the server take and no others. It needs `PaidInv` (only rides with an order are paid, and a completed ride is),
so that a capture can only meet a ride at its destination.

`RideDispatchProofs`. `IInv` says that a dispatch is served by one of dispatchRide, a timer and a handler
(`OneChain`), that those asked are behind the cursor (`CursorInv`), and that after a late batch no handler
holds an answer from before (`LateInv`). `BatchOutcome` states what dispatchNextBatch can do.

`RefundsProofs` begins with `RefundAllocation`. For all amounts: `allocateRefund` loses nothing, keeps both legs within
what they have left and empties them with the last refund (`AllocateReverses`); its branch for an overflow on
the platform's leg never runs (`PlatformCoversItsPart`); the split is proportional while no refund was
undone (`AllocateIsProportional`: a compensation may leave the driver ahead, so the file's third claim
holds without one only). `Sum` is a recursive function; what is proved of it goes by the smallest
counterexample in the naturals (`NatSetInduction`), with the set written out.

For `Refunds`, `IInv` adds what a process may rely on at each program counter (`Fits`): a split that adds
up, the payment as it was read while the lock held (`Fresh`), a record that the gateway has not seen
before it is sent (`Unsent`, `SenderAlone`), a gateway that has failed or never got a refund that is being
undone. `SplitsAddUp` and `GatewayInv` tie the records to the fare and to the gateway, `DashboardInv`
and `RecordInv` say whose id a record may carry. Steps that leave the documents alone are one lemma
(`Quiet`); each step that changes them has a lemma for the documents and one for the rest. `LockInv`,
`Fresh`, `DashboardInv` and the legs are claimed only while no lock expired under its holder; the books,
the status and `SentRefundIsBooked` always.

`DashboardBooked` needs a second invariant over `IInv` (`SInv`, theorem `SourcesKnown`). An answered dashboard refund
without a record did not fit into the balance when its webhook came. As long as no refund was undone the total only
grows (`Grows`), so that it still does not fit (`Told`); and no two records stand for one refund of the gateway even
with expired locks, since a booking finds the total it read (`SourceInv`, `KnowsSource`). Then, when every record is
processed, the records fit into what the gateway paid out beside that refund (`SumInjection`, `ProcessedFit`), and
Razorpay's own bound (`GatewayBound`) leaves no room for it: it would have fitted. The bound is the assumption on
the gateway that the theorem rests on.

`PayoutsProofs`. `IInv` has the documents with the ledger (`Book`: one live payout, a posting for it exactly when it
is processed), which handler may hold a status it read (`SeenIsReversal`), that a request for more than is left was
overtaken (`RequestsKnow`), and for the intake that a finished marker or a handler about to complete means a handled
event, and that behind a marker still processing somebody is at work, threw or died (`MarkersTell`). `WebhookIntake`'s steps are lemmas of their own.
The lemmas show for each step that it is one of `DriverShare` (`ShareStep`) along with the invariant.

`SessionsProofs`. `Shape` (types, and that no cookie or request names a session that was not created) comes first.
Then: a session that ended has no key (`EndedInv`), a sign-in that believes it is alone is, and its
`user-sessions` set is empty when it creates its session (`AloneInv`, `OverlapInv`), one request works on a session
that is not raced (`RacedInv`), and no request is about to store a token of an ended one (`TokenInv`).

`CookieWorks` follows each token from the request that signs it to the browser, in a second invariant
(`Cookies`): a session is in one browser's cookies (`OwnerInv`), one that is being created is in none yet
(`FreshInv`), a request about to answer with a token answers with the stored one (`StoredInv`), and a cookie is out of
date only until the request that changed the token is answered (`CookieInv`).

The last section of `SessionsProofs` is about `AuthClient`. One call refreshes exactly while `isRefreshing`, and the
queue holds the queued calls (`CallsInv`): an inductive form of `QueueIsServed`.

`DriverPresenceProofs`. The properties speak of an empty queue of Redis operations, so `IInv` says what a queue that
is not empty will leave behind. Once the last socket is closed, the driver is out of `drivers:geo` and no operation
puts it back, or an operation of the close is in the queue with no `geoAdd` after it (`GoneInv`). Unless `stale` tells
otherwise one page is open, and a page that shows AVAILABLE has the key at `available`, or one operation under way that
leaves it so or makes it so (`FreshInv`, `Settled`). The remainders of an operation are a finite set (`Remainders`).

`OnboardingProofs`. Unless `unclear` says otherwise at most one request is about codes, and the code in Redis is the one
it will mail or the newest mailed one (`CodeInv`). Where an application is says which images are stored and whether the
Driver document may be its own (`PlaceInv`). `SignInsStay` needs no invariant of its own: no step takes a way to
sign in away. `OnboardingAssumption` has that `NoApplication` is no application; it stands for null.

Assumptions: the named `ASSUME` of each module, which TLC evaluates in the runs.
Left to TLC: liveness (`CapturedIsRecorded`, `DispatchEnds`, `PendingIsResolved`, `EveryCallSettles`,
`EndIsShown`), which needs fairness and is out of the prover's reach.

## Not modelled, and what could come next

- The fare formula (`fare.service.ts`): floating point over distance and time, and nothing else depends on its value.
- Routes, schemas and their middlewares, rate limits and CSRF tokens (no route compares them with anything), mail texts,
  and the pages that are forms or views.
- The batch of 100 and the window of the sweep, the legs inside one ledger transaction, and `reverseTransactionPartial`.
- Distances and the accuracy of the geo index: matching may return any drivers near enough.
- The admin approval of drivers: no code changes it.

Next would be the emits of `RideView` taken from `RideLifecycle`'s own operations, in one composed module, and a
model of the sweep over many payments, where the window and the batch matter.
