------------------------------ MODULE Sessions ------------------------------
(***************************************************************************)
(* Sessions and refresh tokens of one user in Redis                        *)
(* (backend/src/middlewares/session.middleware.ts, utils/generateToken.ts, *)
(* controllers/auth.controller.ts) and in the cookies and the memory of    *)
(* the browsers the user signs in from.                                    *)
(*                                                                         *)
(* A handler is split at its awaits.  The Redis commands one Promise.all   *)
(* issues are one step.  A CSRF token is stored next to every refresh      *)
(* token; no route compares it with anything, so it is left out.  A        *)
(* refresh token is a JWT of user, session and the second it was signed    *)
(* in: two signed in one second are the same string.                       *)
(***************************************************************************)
EXTENDS Integers, FiniteSets

CONSTANTS
    Browsers,    \* browsers the user works with
    Sessions,    \* the session ids randomBytes may give; bounds the sign-ins
    Handlers,    \* requests the server handles at once
    MaxSecond,   \* bound on the clock
    NoSession

ASSUME SessionsAssumption ==
    /\ MaxSecond \in Nat \ {0}
    /\ NoSession \notin Sessions

VARIABLES
    sessionKeys,   \* sessions with a key session:<id>
    userSessions,  \* the set user-sessions:<user>
    refreshKeys,   \* refresh-token:<user>:<id>, the second its token was signed in, 0: no key
    second,        \* the clock of jwt.sign
    issued,        \* history: ids given to a session
    ended,         \* history: sessions a logout or a later sign-in ended
    overlapped,    \* history: two sign-ins ran at once, none alone since
    raced,         \* history: sessions two requests worked on at once, or an answer was lost of
    jar,           \* cookies and access token of each browser
    handler        \* local state of each request

redisVars == <<sessionKeys, userSessions, refreshKeys>>
historyVars == <<issued, ended, overlapped, raced>>
vars == <<redisVars, second, historyVars, jar, handler>>

-----------------------------------------------------------------------------
Token(s, t) == [session |-> s, second |-> t]
NoToken == Token(NoSession, 0)
EmptyJar == [session |-> NoSession, refresh |-> NoToken, access |-> NoSession]
Idle == [pc |-> "idle", browser |-> "none", session |-> NoSession, seen |-> {},
         second |-> 0, alone |-> FALSE]

\* authMiddleware lets a request with an access token of session s through.
InForce(s) == s \in sessionKeys /\ s \in userSessions

SignIn == {"list", "drop", "create", "register", "store", "signedIn"}
Refresh == {"verify", "revoke", "rotate", "refreshed"}
Logout == {"logoutToken", "logoutSession", "loggedOut"}
Reset == {"resetToken", "passwordReset"}

Busy(h) == handler[h].pc # "idle"
SigningIn(h) == handler[h].pc \in SignIn
\* Request h may write or delete the refresh token of session s.
WorksOn(h, s) == Busy(h) /\ (handler[h].session = s \/ s \in handler[h].seen)
Untouched(s) == \A h \in Handlers : ~WorksOn(h, s)

Init ==
    /\ sessionKeys = {} /\ userSessions = {}
    /\ refreshKeys = [s \in Sessions |-> 0]
    /\ second = 1
    /\ issued = {} /\ ended = {} /\ overlapped = FALSE /\ raced = {}
    /\ jar = [b \in Browsers |-> EmptyJar]
    /\ handler = [h \in Handlers |-> Idle]

Goto(h, pc) == handler' = [handler EXCEPT ![h].pc = pc]

\* A request of browser b that carries its session cookie.
Start(h, b, pc, t) ==
    /\ ~Busy(h)
    /\ LET s == jar[b].session
       IN  /\ handler' = [handler EXCEPT ![h] =
                            [Idle EXCEPT !.pc = pc, !.browser = b, !.session = s, !.second = t]]
           /\ raced' = IF s = NoSession \/ Untouched(s) THEN raced ELSE raced \cup {s}
    /\ UNCHANGED <<redisVars, second, issued, ended, overlapped, jar>>

-----------------------------------------------------------------------------
(* setupUserSession: Google sign-in, one-time password, verified e-mail.   *)

StartSignIn(h, b) ==
    /\ ~Busy(h)
    /\ LET others == {g \in Handlers : SigningIn(g)}
       IN  /\ handler' = [g \in Handlers |->
                CASE g = h -> [Idle EXCEPT !.pc = "list", !.browser = b, !.alone = others = {}]
                  [] g \in others -> [handler[g] EXCEPT !.alone = FALSE]
                  [] OTHER -> handler[g]]
           /\ overlapped' = (overlapped \/ others # {})
    /\ UNCHANGED <<redisVars, second, issued, ended, raced, jar>>

\* revokeUserSessions: sMembers ...
ListSessions(h) ==
    /\ handler[h].pc = "list"
    /\ handler' = [handler EXCEPT ![h].seen = userSessions,
                                  ![h].pc = IF userSessions = {} THEN "create" ELSE "drop",
                                  ![h].alone = @ /\ userSessions # {}]
    /\ overlapped' = (overlapped /\ ~(handler[h].alone /\ userSessions = {}))
    /\ raced' = raced \cup {s \in userSessions : ~Untouched(s)}
    /\ UNCHANGED <<redisVars, second, issued, ended, jar>>

\* Mutant of DropSessions: the set is deleted, the session keys are left to expire.
DropSessionSet(h) ==
    /\ handler[h].pc = "drop"
    /\ userSessions' = {}
    /\ handler' = [handler EXCEPT ![h].pc = "create", ![h].seen = {}, ![h].alone = FALSE]
    /\ ended' = ended \cup handler[h].seen
    /\ UNCHANGED <<sessionKeys, refreshKeys, second, issued, overlapped, raced, jar>>

\* Mutant of DropSessions: only the listed members go, not the set.
DropListed(h) ==
    /\ handler[h].pc = "drop"
    /\ refreshKeys' = [s \in Sessions |-> IF s \in handler[h].seen THEN 0 ELSE refreshKeys[s]]
    /\ handler' = [handler EXCEPT ![h].pc = "create", ![h].seen = {}, ![h].alone = FALSE]
    /\ overlapped' = (overlapped /\ ~handler[h].alone)
    /\ ended' = ended \cup handler[h].seen
    /\ UNCHANGED <<sessionKeys, userSessions, second, issued, raced, jar>>

\* ... and one DEL of every key of the listed sessions and of the whole set.
DropSessions(h) ==
    /\ handler[h].pc = "drop"
    /\ sessionKeys' = sessionKeys \ handler[h].seen
    /\ refreshKeys' = [s \in Sessions |-> IF s \in handler[h].seen THEN 0 ELSE refreshKeys[s]]
    /\ userSessions' = {}
    /\ handler' = [handler EXCEPT ![h].pc = "create", ![h].seen = {}, ![h].alone = FALSE]
    /\ overlapped' = (overlapped /\ ~handler[h].alone)
    /\ ended' = ended \cup handler[h].seen
    /\ UNCHANGED <<second, issued, raced, jar>>

\* createSession: a fresh id ...
CreateSession(h, s) ==
    /\ handler[h].pc = "create"
    /\ s \notin issued
    /\ issued' = issued \cup {s}
    /\ sessionKeys' = sessionKeys \cup {s}
    /\ handler' = [handler EXCEPT ![h].pc = "register", ![h].session = s]
    /\ UNCHANGED <<userSessions, refreshKeys, second, ended, overlapped, raced, jar>>

\* ... registerSession, then the session cookie.
RegisterSession(h) ==
    /\ handler[h].pc = "register"
    /\ userSessions' = userSessions \cup {handler[h].session}
    /\ Goto(h, "store")
    /\ UNCHANGED <<sessionKeys, refreshKeys, second, historyVars, jar>>

\* generateToken, also rotateRefreshToken: the key gets a token signed now.
StoreToken(h, pc) ==
    /\ refreshKeys' = [refreshKeys EXCEPT ![handler[h].session] = second]
    /\ handler' = [handler EXCEPT ![h].pc = pc, ![h].second = second]
    /\ UNCHANGED <<sessionKeys, userSessions, second, historyVars, jar>>

GenerateToken(h) == handler[h].pc = "store" /\ StoreToken(h, "signedIn")

-----------------------------------------------------------------------------
(* POST /refresh.                                                          *)

StartRefresh(h, b) ==
    /\ jar[b].refresh # NoToken
    /\ Start(h, b, "verify", jar[b].refresh.second)

\* verifyRefreshToken; the handler holds the second of the token it was sent.
VerifyRefreshToken(h) ==
    /\ handler[h].pc = "verify"
    /\ LET b == handler[h].browser
           s == handler[h].session
       IN  IF s # NoSession /\ refreshKeys[s] # 0 /\ refreshKeys[s] = handler[h].second
           THEN /\ handler' = [handler EXCEPT ![h].pc = "revoke", ![h].second = 0]
                /\ UNCHANGED jar
           ELSE /\ handler' = [handler EXCEPT ![h] = Idle]
                /\ jar' = [jar EXCEPT ![b].access = NoSession]
    /\ UNCHANGED <<redisVars, second, historyVars>>

DropToken(h, from, pc) ==
    /\ handler[h].pc = from
    /\ refreshKeys' = [s \in Sessions |-> IF s = handler[h].session THEN 0 ELSE refreshKeys[s]]
    /\ Goto(h, pc)
    /\ UNCHANGED <<sessionKeys, userSessions, second, historyVars, jar>>

\* revokeRefreshToken
RevokeRefreshToken(h) == DropToken(h, "revoke", "rotate")

\* Mutant of RotateRefreshToken: the session is kept alive along with the token.
RotateAndExtend(h) ==
    /\ handler[h].pc = "rotate"
    /\ refreshKeys' = [refreshKeys EXCEPT ![handler[h].session] = second]
    /\ sessionKeys' = sessionKeys \cup {handler[h].session}
    /\ userSessions' = userSessions \cup {handler[h].session}
    /\ handler' = [handler EXCEPT ![h].pc = "refreshed", ![h].second = second]
    /\ UNCHANGED <<second, historyVars, jar>>

\* Mutant of RotateRefreshToken: the cookie keeps the token that was sent.
RotateOnlyInRedis(h) ==
    /\ handler[h].pc = "rotate"
    /\ refreshKeys' = [refreshKeys EXCEPT ![handler[h].session] = second]
    /\ Goto(h, "refreshed")
    /\ UNCHANGED <<sessionKeys, userSessions, second, historyVars, jar>>

RotateRefreshToken(h) == handler[h].pc = "rotate" /\ StoreToken(h, "refreshed")

-----------------------------------------------------------------------------
(* POST /logout and POST /reset-password.                                  *)

\* authMiddleware lets the access token through, the cookie names the session.
StartLogout(h, b) ==
    /\ jar[b].access # NoSession /\ InForce(jar[b].access)
    /\ Start(h, b, "logoutToken", 0)

LogoutToken(h) == DropToken(h, "logoutToken", "logoutSession")

\* destroySession, if there is a session cookie.
DestroySession(h) ==
    /\ handler[h].pc = "logoutSession"
    /\ LET s == handler[h].session
       IN  /\ sessionKeys' = sessionKeys \ {s}
           /\ userSessions' = userSessions \ {s}
           /\ refreshKeys' = [r \in Sessions |-> IF r = s THEN 0 ELSE refreshKeys[r]]
           /\ ended' = ended \cup ({s} \cap Sessions)
    /\ Goto(h, "loggedOut")
    /\ UNCHANGED <<second, issued, overlapped, raced, jar>>

\* resetPassword revokes the refresh token of the session the cookie names.
StartReset(h, b) == Start(h, b, "resetToken", 0)
ResetToken(h) == DropToken(h, "resetToken", "passwordReset")

-----------------------------------------------------------------------------
(* Answers.                                                                *)

\* Browser b's cookies and access token once the answer is in that request h
\* gives at its pc: its result, or the error of the Redis command it is at,
\* with the Set-Cookie headers the response has by then.
Answered(h) ==
    LET r == handler[h]
        j == jar[r.browser]
    IN  CASE r.pc = "signedIn" ->
               [session |-> r.session, refresh |-> Token(r.session, r.second), access |-> r.session]
          [] r.pc = "store" -> [j EXCEPT !.session = r.session]
          [] r.pc = "refreshed" ->
               [j EXCEPT !.refresh = Token(r.session, r.second), !.access = r.session]
          [] r.pc = "verify" -> [j EXCEPT !.access = NoSession]
          [] r.pc \in {"revoke", "rotate", "logoutToken", "logoutSession"} ->
               [j EXCEPT !.refresh = NoToken, !.access = NoSession]
          [] r.pc = "loggedOut" -> EmptyJar
          [] r.pc \in Reset -> [j EXCEPT !.refresh = NoToken]
          [] OTHER -> j

Answer(h) ==
    /\ Busy(h)
    /\ jar' = [jar EXCEPT ![handler[h].browser] = Answered(h)]
    /\ handler' = [handler EXCEPT ![h] = Idle]
    /\ UNCHANGED <<redisVars, second, historyVars>>

\* What the browser has once generateCSRFToken or the caching of the user failed
\* after a sign-in stored its token, before or after the refresh cookie was set,
\* or refreshCSRFToken or the lookup of the user failed after a rotation.
FailedJars(h) ==
    LET r == handler[h]
        j == jar[r.browser]
        t == Token(r.session, r.second)
    IN  CASE r.pc = "signedIn" -> {[j EXCEPT !.session = r.session],
                                   [j EXCEPT !.session = r.session, !.refresh = t]}
          [] r.pc = "refreshed" -> {[j EXCEPT !.refresh = t, !.access = NoSession]}
          [] OTHER -> {}

AnswerFails(h) ==
    /\ \E j \in FailedJars(h) : jar' = [jar EXCEPT ![handler[h].browser] = j]
    /\ handler' = [handler EXCEPT ![h] = Idle]
    /\ UNCHANGED <<redisVars, second, historyVars>>

\* The process dies, or the answer is lost on its way.
LoseAnswer(h) ==
    /\ Busy(h)
    /\ handler' = [handler EXCEPT ![h] = Idle]
    /\ raced' = IF SigningIn(h) THEN raced ELSE raced \cup ({handler[h].session} \cap Sessions)
    /\ jar' = IF handler[h].pc \in Refresh \cup Logout
              THEN [jar EXCEPT ![handler[h].browser].access = NoSession] ELSE jar
    /\ UNCHANGED <<redisVars, second, issued, ended, overlapped>>

\* SESSION_EXPIRY_SECONDS after the sign-in; a refresh does not extend it.
SessionExpires(s) ==
    /\ s \in sessionKeys
    /\ sessionKeys' = sessionKeys \ {s}
    /\ UNCHANGED <<userSessions, refreshKeys, second, historyVars, jar, handler>>

\* The page is loaded anew: the access token was in its memory.
Reload(b) ==
    /\ jar' = [jar EXCEPT ![b].access = NoSession]
    /\ UNCHANGED <<redisVars, second, historyVars, handler>>

Tick ==
    /\ second < MaxSecond
    /\ second' = second + 1
    /\ UNCHANGED <<redisVars, historyVars, jar, handler>>

Next ==
    \/ \E h \in Handlers, b \in Browsers :
          StartSignIn(h, b) \/ StartRefresh(h, b) \/ StartLogout(h, b) \/ StartReset(h, b)
    \/ \E h \in Handlers :
          \/ ListSessions(h) \/ DropSessions(h) \/ RegisterSession(h) \/ GenerateToken(h)
          \/ VerifyRefreshToken(h) \/ RevokeRefreshToken(h) \/ RotateRefreshToken(h)
          \/ LogoutToken(h) \/ DestroySession(h) \/ ResetToken(h)
          \/ Answer(h) \/ AnswerFails(h) \/ LoseAnswer(h)
    \/ \E h \in Handlers, s \in Sessions : CreateSession(h, s)
    \/ \E s \in Sessions : SessionExpires(s)
    \/ \E b \in Browsers : Reload(b)
    \/ Tick

Spec == Init /\ [][Next]_vars

-----------------------------------------------------------------------------
Pcs == {"idle"} \cup SignIn \cup Refresh \cup Logout \cup Reset
AnySession == Sessions \cup {NoSession}
Tokens == [session : AnySession, second : 0 .. MaxSecond]
Jar == [session : AnySession, refresh : Tokens, access : AnySession]
Request == [pc : Pcs, browser : Browsers \cup {"none"}, session : AnySession,
            seen : SUBSET Sessions, second : 0 .. MaxSecond, alone : BOOLEAN]

\* Shape of the state.
TypeOK ==
    /\ issued \subseteq Sessions
    /\ sessionKeys \subseteq issued /\ userSessions \subseteq issued /\ ended \subseteq issued
    /\ raced \subseteq Sessions
    /\ refreshKeys \in [Sessions -> 0 .. MaxSecond]
    /\ second \in 1 .. MaxSecond
    /\ overlapped \in BOOLEAN
    /\ jar \in [Browsers -> Jar]
    /\ handler \in [Handlers -> Request]
    /\ \A h \in Handlers : Busy(h) => handler[h].browser \in Browsers

\* A user has one session: a sign-in ends every other one before its own is
\* in force (setupUserSession), unless two sign-ins overlap; the next one that
\* runs alone mends that.
OneSession ==
    ~overlapped => \A s, t \in Sessions : InForce(s) /\ InForce(t) => s = t

\* A session that was signed out of is over, also when a refresh that was
\* verified before the logout stores its new token after it.
SignedOutForGood == \A s \in ended : ~InForce(s)

\* The refresh cookie of a session in force is the token Redis has for it,
\* unless two requests worked on the session at once or an answer was lost:
\* the page can stay signed in (refreshToken, rotateRefreshToken).
RefreshCookieWorks ==
    \A b \in Browsers : LET s == jar[b].session IN
        /\ s \in Sessions \ raced /\ InForce(s) /\ Untouched(s)
        /\ jar[b].refresh.session = s
        => refreshKeys[s] = jar[b].refresh.second

\* Nobody can refresh a session that was signed out of, unless two requests
\* worked on it at once: no token of it is left (revokeUserSessions,
\* removeSessionFromUser).
NoTokenLeft ==
    \A s \in ended \ raced : Untouched(s) => refreshKeys[s] = 0

\* A password reset "invalidates active refresh sessions" (README.md, Auth Flow).
\* False, also when no other request is under way: it revokes the token of the session
\* its own cookie names, if it has one; another browser's session can be refreshed on.
ResetEndsRefresh ==
    [][\A h \in Handlers : ResetToken(h) /\ (\A g \in Handlers \ {h} : ~Busy(g))
            => \A s \in Sessions : refreshKeys'[s] = 0]_vars
=============================================================================
