---------------------------- MODULE WebhookIntake ----------------------------
(***************************************************************************)
(* Webhook events of Razorpay and their markers in Redis                   *)
(* (backend/src/payment/services/webhook.service.ts).                      *)
(*                                                                         *)
(* Razorpay delivers an event until it gets a 2xx answer, so an event may  *)
(* be in several handlers at once.  claim() puts a marker "processing",    *)
(* with a TTL, that turns every further delivery into a "duplicate";       *)
(* complete() makes it "done", release() drops it after an error.  What    *)
(* dispatch() does with an event is left to the module that composes this  *)
(* one with a service: it takes a handler in "dispatch" to Returns or      *)
(* Throws.                                                                 *)
(***************************************************************************)
EXTENDS Naturals, FiniteSets

CONSTANTS
    Events,     \* the events Razorpay may send
    Handlers,   \* deliveries handled at once
    MaxEvents   \* bound on the events sent

VARIABLES
    emitted,      \* external: events Razorpay sends
    answered,     \* external: events one of whose deliveries was answered 2xx
    marker,       \* webhook:razorpay:processed:<event>
    handler,      \* local state of each delivery being handled
    handled,      \* history: events some dispatch() returned for
    early,        \* history: unhandled events answered over a marker "processing"
    interrupted   \* history: unhandled events a handler threw on or died over

Idle == [pc |-> "idle", event |-> "none"]

IntakeInit ==
    /\ emitted = {}
    /\ answered = {}
    /\ marker = [e \in Events |-> "none"]
    /\ handler = [h \in Handlers |-> Idle]
    /\ handled = {}
    /\ early = {}
    /\ interrupted = {}

Emit(e) ==
    /\ e \notin emitted
    /\ Cardinality(emitted) < MaxEvents
    /\ emitted' = emitted \cup {e}
    /\ UNCHANGED <<answered, marker, handler, handled, early, interrupted>>

Due(h, e) ==
    /\ e \in emitted \ answered
    /\ handler[h].pc = "idle"

StartHandler(h, e) == handler' = [handler EXCEPT ![h] = [pc |-> "dispatch", event |-> e]]

\* claim(): SET NX EX.  That an event is handled without a marker when Redis
\* does not answer is a marker that expires at once (MarkerExpires).
Claim(h, e) ==
    /\ Due(h, e)
    /\ marker[e] = "none"
    /\ marker' = [marker EXCEPT ![e] = "processing"]
    /\ StartHandler(h, e)
    /\ UNCHANGED <<emitted, answered, handled, early, interrupted>>

\* The marker is there: 200 "duplicate", whether the first delivery was handled,
\* is being handled, or its handler died and left the marker.
AnswerDuplicate(h, e) ==
    /\ Due(h, e)
    /\ marker[e] # "none"
    /\ early' = IF marker[e] = "processing" THEN early \cup ({e} \ handled) ELSE early
    /\ answered' = answered \cup {e}
    /\ UNCHANGED <<emitted, marker, handler, handled, interrupted>>

\* dispatch() returned, or threw an error that a retry cannot mend.
Returns(h) ==
    /\ handler' = [handler EXCEPT ![h].pc = "complete"]
    /\ handled' = handled \cup {handler[h].event}
    /\ early' = early \ {handler[h].event}
    /\ interrupted' = interrupted \ {handler[h].event}
    /\ UNCHANGED <<emitted, answered, marker>>

\* Mutant of Throws: the marker stays, like a "done" record.
ThrowsWithMarker(h) ==
    /\ marker' = [marker EXCEPT ![handler[h].event] = "done"]
    /\ handler' = [handler EXCEPT ![h] = Idle]
    /\ interrupted' = interrupted \cup ({handler[h].event} \ handled)
    /\ UNCHANGED <<emitted, answered, handled, early>>

\* Any other error: release() and an error status, Razorpay delivers again.
\* The marker may be another handler's by now, or "done".  A DEL that fails
\* leaves what a crash leaves (HandlerCrashes).
Throws(h) ==
    /\ marker' = [marker EXCEPT ![handler[h].event] = "none"]
    /\ handler' = [handler EXCEPT ![h] = Idle]
    /\ interrupted' = interrupted \cup ({handler[h].event} \ handled)
    /\ UNCHANGED <<emitted, answered, handled, early>>

\* complete() and 200.  That the SET fails makes no difference: Razorpay has
\* its answer.
Complete(h) ==
    /\ handler[h].pc = "complete"
    /\ marker' = [marker EXCEPT ![handler[h].event] = "done"]
    /\ answered' = answered \cup {handler[h].event}
    /\ handler' = [handler EXCEPT ![h] = Idle]
    /\ UNCHANGED <<emitted, handled, early, interrupted>>

\* The process dies: the marker stays until its TTL.
HandlerCrashes(h) ==
    /\ handler[h].pc # "idle"
    /\ handler' = [handler EXCEPT ![h] = Idle]
    /\ interrupted' = interrupted \cup ({handler[h].event} \ handled)
    /\ UNCHANGED <<emitted, answered, marker, handled, early>>

\* WEBHOOK_PROCESSING_TTL_SECONDS; it may run out under a slow handler.
MarkerExpires(e) ==
    /\ marker[e] = "processing"
    /\ marker' = [marker EXCEPT ![e] = "none"]
    /\ UNCHANGED <<emitted, answered, handler, handled, early, interrupted>>

IntakeTypeOK ==
    /\ emitted \subseteq Events
    /\ answered \subseteq emitted
    /\ handled \subseteq emitted
    /\ marker \in [Events -> {"none", "processing", "done"}]
    /\ handler = [h \in Handlers |-> handler[h]]
    /\ \A h \in Handlers :
        \/ handler[h] = Idle
        \/ handler[h] \in [pc : {"dispatch", "complete"}, event : emitted]
    /\ early \subseteq answered \ handled
    /\ interrupted \subseteq emitted \ handled

AtWork(e) == \E h \in Handlers : handler[h].pc = "dispatch" /\ handler[h].event = e

\* An event Razorpay got a 2xx for, so that it delivers it no more, was handled,
\* or it was answered over a marker "processing" and the handler of that marker
\* is still at work, threw or died: no other order of redeliveries, expiring
\* markers, release()s of another delivery's marker and crashes loses an event.
AnsweredIsHandled ==
    \A e \in answered \ handled : e \in early /\ (AtWork(e) \/ e \in interrupted)

\* A handler that fails lets "the error bubble up -> non-2xx -> Razorpay redelivers
\* -> the event is processed again" (webhook.service.ts): an event that was answered
\* and has no handler at work was handled.  False: see AnsweredIsHandled.
NoEventIsLost == \A e \in answered \ handled : AtWork(e)
=============================================================================
