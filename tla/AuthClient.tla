----------------------------- MODULE AuthClient -----------------------------
(***************************************************************************)
(* The page's side of a session (frontend/src/apiInterceptor.ts and        *)
(* context/authContext.tsx): the access token in memory, the burst of API  *)
(* calls a page makes, the one refresh they share when they are refused,   *)
(* and logout.  Module Sessions is the server; here it only matters        *)
(* whether a call gets through, is refused with 401 or 403, or fails.      *)
(***************************************************************************)
CONSTANT Requests    \* the API calls of the page, each made at most once

VARIABLES
    auth,          \* isAuthenticated and loading: "loading", "in" or "out"
    token,         \* accessToken: "none", "good", or "stale" once it expired
    session,       \* external: the session is in force
    mount,         \* a requestAuthentication() of the AuthContextProvider is pending
    request,       \* the calls
    isRefreshing,
    failedQueue,
    logout,        \* where logout() is
    bearer         \* the token logout's call carries

pageVars == <<auth, token, mount>>
callVars == <<request, isRefreshing, failedQueue>>
logoutVars == <<logout, bearer>>
vars == <<pageVars, session, callVars, logoutVars>>

Idle == [pc |-> "idle", retry |-> FALSE, bearer |-> "none"]
Settled(q) == request[q].pc \in {"done", "rejected"}

Init ==
    /\ auth = "loading" /\ token = "none" /\ mount = TRUE
    /\ session \in BOOLEAN
    /\ request = [q \in Requests |-> Idle]
    /\ isRefreshing = FALSE
    /\ failedQueue = {}
    /\ logout = "none" /\ bearer = "none"

-----------------------------------------------------------------------------
(* authContext.                                                            *)

\* requestAuthentication() of the mount effect or of checkAuthentication got a
\* session, or none.
MountAnswered(found) ==
    /\ mount
    /\ mount' = FALSE
    /\ auth' = IF found THEN "in" ELSE "out"
    /\ token' = IF found THEN "good" ELSE "none"
    /\ UNCHANGED <<session, callVars, logoutVars>>

\* A page has signed in and asks for its session ...
CheckAuthentication ==
    /\ auth = "out" /\ ~mount
    /\ session' = TRUE
    /\ auth' = "loading"
    /\ mount' = TRUE
    /\ UNCHANGED <<token, callVars, logoutVars>>

\* ... or has the token from the sign-in itself.
EstablishSession ==
    /\ auth = "out"
    /\ session' = TRUE
    /\ auth' = "in"
    /\ token' = "good"
    /\ UNCHANGED <<mount, callVars, logoutVars>>

StartLogout ==
    /\ auth = "in"
    /\ logout' = "first"
    /\ bearer' = token
    /\ auth' = "loading"
    /\ UNCHANGED <<token, mount, session, callVars>>

\* The finally block of logout().
EndLogout ==
    /\ logout' = "none"
    /\ auth' = "out"
    /\ token' = "none"
    /\ UNCHANGED <<mount, bearer>>

LoggedOut ==
    /\ logout \in {"first", "second"}
    /\ bearer = "good" /\ session
    /\ session' = FALSE
    /\ EndLogout
    /\ UNCHANGED callVars

\* POST /logout is refused or fails.  The interceptor drops the access token,
\* since the call is one it does not refresh for; logout() then refreshes ...
LogoutRefused(fails) ==
    /\ logout \in {"first", "second"}
    /\ fails \/ bearer # "good" \/ ~session
    /\ IF logout = "first"
       THEN /\ logout' = "refresh"
            /\ token' = "none"
            /\ UNCHANGED <<auth, mount, bearer>>
       ELSE EndLogout
    /\ UNCHANGED <<session, callVars>>

\* ... and tries once more with whatever token is there then: what /refresh
\* returned is not kept.
LogoutAgain ==
    /\ logout = "refresh"
    /\ logout' = "second"
    /\ bearer' = token
    /\ UNCHANGED <<pageVars, session, callVars>>

LogoutGivesUp ==
    /\ logout = "refresh"
    /\ EndLogout
    /\ UNCHANGED <<session, callVars>>

-----------------------------------------------------------------------------
(* apiInterceptor.                                                         *)

Sent(q, withToken) == [request[q] EXCEPT !.pc = "sent", !.bearer = withToken]

Send(q) ==
    /\ auth = "in"
    /\ request[q].pc = "idle"
    /\ request' = [request EXCEPT ![q] = Sent(q, token)]
    /\ UNCHANGED <<pageVars, session, isRefreshing, failedQueue, logoutVars>>

Settle(q, pc) ==
    /\ request[q].pc = "sent"
    /\ request' = [request EXCEPT ![q].pc = pc]
    /\ UNCHANGED <<pageVars, session, isRefreshing, failedQueue, logoutVars>>

Succeeds(q) == request[q].bearer = "good" /\ session /\ Settle(q, "done")

\* An error other than 401 and 403, or no answer.
Fails(q) == Settle(q, "rejected")

StartsRefresh(q) ==
    /\ ~isRefreshing
    /\ request' = [request EXCEPT ![q].pc = "refreshing", ![q].retry = TRUE]
    /\ isRefreshing' = TRUE
    /\ UNCHANGED failedQueue

Queues(q) ==
    /\ isRefreshing
    /\ request' = [request EXCEPT ![q].pc = "queued"]
    /\ failedQueue' = failedQueue \cup {q}
    /\ UNCHANGED isRefreshing

\* 401, or 403 whatever the token: a call that had its refresh is given up,
\* else it waits for the refresh that is under way or starts one.
Refused(q) ==
    /\ request[q].pc = "sent"
    /\ \/ /\ request[q].retry
          /\ request' = [request EXCEPT ![q].pc = "rejected"]
          /\ UNCHANGED <<isRefreshing, failedQueue>>
       \/ ~request[q].retry /\ (Queues(q) \/ StartsRefresh(q))
    /\ UNCHANGED <<pageVars, session, logoutVars>>

\* processQueue and the retry of the call that started the refresh; the
\* `finally` runs in the same turn.
Resend(q) ==
    /\ request' = [r \in Requests |-> IF r = q \/ r \in failedQueue
                                      THEN Sent(r, "good") ELSE request[r]]
    /\ failedQueue' = {}
    /\ isRefreshing' = FALSE

RefreshSucceeds(q) ==
    /\ request[q].pc = "refreshing"
    /\ token' = "good"
    /\ Resend(q)
    /\ UNCHANGED <<auth, mount, session, logoutVars>>

\* Mutant of RejectAll: processQueue is not called with the error.
RejectFirst(q) ==
    /\ request' = [request EXCEPT ![q].pc = "rejected"]
    /\ UNCHANGED failedQueue

RejectAll(q) ==
    /\ request' = [r \in Requests |-> IF r = q \/ r \in failedQueue
                                      THEN [request[r] EXCEPT !.pc = "rejected"] ELSE request[r]]
    /\ failedQueue' = {}

RefreshFails(q) ==
    /\ request[q].pc = "refreshing"
    /\ RejectAll(q)
    /\ token' = "none"
    /\ isRefreshing' = FALSE
    /\ UNCHANGED <<auth, mount, session, logoutVars>>

-----------------------------------------------------------------------------
(* External: tokens expire, sessions end.                                  *)

Aged(t) == IF t = "good" THEN "stale" ELSE t

TokenExpires ==
    /\ token' = Aged(token)
    /\ request' = [q \in Requests |-> [request[q] EXCEPT !.bearer = Aged(@)]]
    /\ bearer' = Aged(bearer)
    /\ UNCHANGED <<auth, mount, session, isRefreshing, failedQueue, logout>>

SessionEnds ==
    /\ session
    /\ session' = FALSE
    /\ UNCHANGED <<pageVars, callVars, logoutVars>>

MountSettles == \E found \in BOOLEAN : MountAnswered(found)
LogoutStep == LoggedOut \/ (\E fails \in BOOLEAN : LogoutRefused(fails)) \/ LogoutAgain \/ LogoutGivesUp
CallStep(q) == Succeeds(q) \/ Fails(q) \/ Refused(q) \/ RefreshSucceeds(q) \/ RefreshFails(q)

Next ==
    \/ MountSettles
    \/ CheckAuthentication \/ EstablishSession
    \/ StartLogout
    \/ LogoutStep
    \/ \E q \in Requests : Send(q) \/ CallStep(q)
    \/ TokenExpires
    \/ SessionEnds

\* A call over HTTP ends, with an answer or without.
Fairness == \A q \in Requests : WF_vars(CallStep(q))

Spec == Init /\ [][Next]_vars /\ Fairness

-----------------------------------------------------------------------------
Bearers == {"none", "good", "stale"}

\* Shape of the state.
TypeOK ==
    /\ auth \in {"loading", "in", "out"}
    /\ token \in Bearers
    /\ session \in BOOLEAN /\ mount \in BOOLEAN /\ isRefreshing \in BOOLEAN
    /\ request \in [Requests -> [pc : {"idle", "sent", "queued", "refreshing", "done", "rejected"},
                                 retry : BOOLEAN, bearer : Bearers]]
    /\ failedQueue = {q \in Requests : request[q].pc = "queued"}
    /\ logout \in {"none", "first", "refresh", "second"}
    /\ bearer \in Bearers

\* Somebody will empty failedQueue: while calls wait in it, exactly one call
\* is at its refresh (isRefreshing).
QueueIsServed ==
    LET refreshing == {q \in Requests : request[q].pc = "refreshing"}
    IN  /\ isRefreshing <=> refreshing # {}
        /\ \A p, q \in refreshing : p = q
        /\ failedQueue # {} => isRefreshing

\* Every call a page makes is answered or rejected, whatever the server says.
EveryCallSettles == \A q \in Requests : request[q].pc = "sent" ~> Settled(q)
=============================================================================
