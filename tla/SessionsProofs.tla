--------------------------- MODULE SessionsProofs ---------------------------
(***************************************************************************)
(* Proofs about Sessions, for any number of browsers, session ids,         *)
(* overlapping requests and seconds, and, from the last section on, about  *)
(* AuthClient, the page that uses those sessions, as the instance Client.  *)
(***************************************************************************)
EXTENDS Sessions, TLAPS

-----------------------------------------------------------------------------
(* The inductive invariant.                                                *)

Known == issued \cup {NoSession}

\* Cookies, access tokens and requests name no session that was not created.
KnownIds ==
    /\ \A b \in Browsers : /\ jar[b].session \in Known
                           /\ jar[b].refresh.session \in Known
                           /\ jar[b].access \in Known
    /\ \A h \in Handlers : handler[h].session \in Known /\ handler[h].seen \subseteq issued

\* A sign-in has a session once it created one, a refresh once it was verified.
SessionNamed ==
    \A h \in Handlers :
        /\ handler[h].pc \in {"list", "drop", "create"} => handler[h].session = NoSession
        /\ handler[h].pc \in {"register", "store", "signedIn", "revoke", "rotate", "refreshed"}
           => handler[h].session \in Sessions

Shape == TypeOK /\ KnownIds /\ SessionNamed

\* What a logout or a sign-in ended has no session key.
EndedInv == \A s \in ended : s \notin sessionKeys

\* A sign-in that believes it runs alone does, and has not emptied user-sessions:<user>.
AloneInv ==
    \A h \in Handlers : handler[h].alone =>
        handler[h].pc \in {"list", "drop"} /\ \A g \in Handlers : SigningIn(g) => g = h

\* As long as overlapped is FALSE, one sign-in runs at a time, and it has emptied
\* user-sessions:<user> when it creates and registers its own session.
OverlapInv ==
    ~ overlapped =>
        /\ \A g, h \in Handlers : SigningIn(g) /\ SigningIn(h) => g = h
        /\ \A h \in Handlers : handler[h].pc \in {"create", "register"} => userSessions = {}
        /\ OneSession

\* One request works on a session at a time, unless it is among the raced ones.
RacedInv ==
    \A s \in Sessions \ raced : \A g, h \in Handlers : WorksOn(g, s) /\ WorksOn(h, s) => g = h

\* The token of an ended session is gone, and no request is about to store one.
TokenInv ==
    \A s \in ended \ raced :
        /\ refreshKeys[s] = 0
        /\ \A h \in Handlers : handler[h].session = s =>
              handler[h].pc \notin {"register", "store", "revoke", "rotate"}

Rest == EndedInv /\ AloneInv /\ OverlapInv /\ RacedInv /\ TokenInv
IInv == Shape /\ Rest

-----------------------------------------------------------------------------
(* Type correctness.                                                       *)

LEMMA PcsAre ==
    /\ SignIn \subseteq Pcs /\ Refresh \subseteq Pcs /\ Logout \subseteq Pcs /\ Reset \subseteq Pcs
    /\ "idle" \in Pcs
BY DEF Pcs

LEMMA IdleIsRequest == Idle \in Request /\ Idle.pc = "idle" /\ Idle.session = NoSession
                      /\ Idle.seen = {} /\ Idle.alone = FALSE /\ Idle.browser = "none"
BY SessionsAssumption DEF Idle, Request, Pcs, AnySession

LEMMA EmptyJarIsJar == EmptyJar \in Jar /\ EmptyJar.session = NoSession
                       /\ EmptyJar.refresh.session = NoSession /\ EmptyJar.access = NoSession
BY SessionsAssumption DEF EmptyJar, NoToken, Token, Jar, Tokens, AnySession

LEMMA InitInv == Init => IInv
<1> SUFFICES ASSUME Init PROVE IInv
  OBVIOUS
<1>1. TypeOK
  <2>1. jar \in [Browsers -> Jar] /\ handler \in [Handlers -> Request]
    BY EmptyJarIsJar, IdleIsRequest DEF Init
  <2>2. refreshKeys \in [Sessions -> 0 .. MaxSecond] /\ second \in 1 .. MaxSecond
    BY SessionsAssumption DEF Init
  <2>3. \A h \in Handlers : ~ Busy(h)
    BY IdleIsRequest DEF Init, Busy
  <2>4. QED
    BY <2>1, <2>2, <2>3 DEF Init, TypeOK
<1>2. KnownIds /\ SessionNamed
  BY IdleIsRequest, EmptyJarIsJar DEF Init, KnownIds, SessionNamed, Known
<1>3. EndedInv /\ TokenInv
  BY DEF Init, EndedInv, TokenInv
<1>4. AloneInv /\ RacedInv /\ OverlapInv
  BY IdleIsRequest DEF Init, AloneInv, RacedInv, OverlapInv, OneSession, InForce, WorksOn, Busy,
     SigningIn, SignIn
<1>5. QED
  BY <1>1, <1>2, <1>3, <1>4 DEF IInv, Rest, Shape

-----------------------------------------------------------------------------
(* Steps keep the shape of the state.                                      *)

LEMMA StartShape ==
    ASSUME Shape, NEW h \in Handlers, NEW b \in Browsers, NEW pc \in {"verify", "logoutToken", "resetToken"},
           NEW t \in 0 .. MaxSecond, Start(h, b, pc, t)
    PROVE  Shape'
<1> DEFINE r == [Idle EXCEPT !.pc = pc, !.browser = b, !.session = jar[b].session, !.second = t]
<1>1. /\ handler' = [handler EXCEPT ![h] = r]
      /\ raced' \subseteq raced \cup ({jar[b].session} \ {NoSession})
  BY DEF Start
<1>2. jar[b].session \in Known /\ jar[b].session \in AnySession
  BY DEF Shape, KnownIds, TypeOK, Jar
<1>3. r \in Request /\ r.pc = pc /\ r.session = jar[b].session /\ r.seen = {} /\ r.browser = b
  BY <1>2, IdleIsRequest, PcsAre DEF Request, Idle, Refresh, Logout, Reset
<1> HIDE DEF r
<1>4. TypeOK'
  BY <1>1, <1>2, <1>3 DEF Start, Shape, TypeOK, redisVars, Busy, AnySession
<1>5. KnownIds' /\ SessionNamed'
  BY <1>1, <1>2, <1>3 DEF Start, Shape, TypeOK, KnownIds, SessionNamed, Known, redisVars
<1>6. QED
  BY <1>4, <1>5 DEF Shape

LEMMA StartSignInShape ==
    ASSUME Shape, NEW h \in Handlers, NEW b \in Browsers, StartSignIn(h, b)
    PROVE  Shape'
<1> DEFINE first == [Idle EXCEPT !.pc = "list", !.browser = b,
                                 !.alone = {g \in Handlers : SigningIn(g)} = {}]
<1>1. /\ handler' \in [Handlers -> Request]
      /\ \A g \in Handlers :
            IF g = h
            THEN handler'[g].pc = "list" /\ handler'[g].session = NoSession /\ handler'[g].seen = {}
                 /\ handler'[g].browser = b
            ELSE handler'[g].pc = handler[g].pc /\ handler'[g].session = handler[g].session
                 /\ handler'[g].seen = handler[g].seen /\ handler'[g].browser = handler[g].browser
  <2>1. first \in Request /\ first.pc = "list" /\ first.session = NoSession /\ first.seen = {}
        /\ first.browser = b
    BY IdleIsRequest, PcsAre DEF Request, Idle, SignIn
  <2>2. \A g \in Handlers : LET q == [handler[g] EXCEPT !.alone = FALSE] IN
            q \in Request /\ q.pc = handler[g].pc /\ q.session = handler[g].session
            /\ q.seen = handler[g].seen /\ q.browser = handler[g].browser
    BY DEF Shape, TypeOK, Request
  <2>3. handler' = [g \in Handlers |->
                CASE g = h -> first
                  [] g \in {k \in Handlers : SigningIn(k)} -> [handler[g] EXCEPT !.alone = FALSE]
                  [] OTHER -> handler[g]]
    BY DEF StartSignIn
  <2> HIDE DEF first
  <2>4. \A g \in Handlers : handler'[g] = IF g = h THEN first
                                         ELSE IF SigningIn(g) THEN [handler[g] EXCEPT !.alone = FALSE]
                                         ELSE handler[g]
    <3>1. ~ SigningIn(h)
      BY DEF StartSignIn, Busy, SigningIn, SignIn
    <3>2. QED
      BY <2>3, <3>1
  <2>5. handler' = [g \in Handlers |-> handler'[g]]
    BY <2>3
  <2>6. QED
    BY <2>1, <2>2, <2>4, <2>5 DEF Shape, TypeOK
<1>2. TypeOK'
  BY <1>1 DEF StartSignIn, Shape, TypeOK, redisVars, Busy
<1>3. KnownIds' /\ SessionNamed'
  BY <1>1 DEF StartSignIn, Shape, KnownIds, SessionNamed, Known, redisVars
<1>4. QED
  BY <1>2, <1>3 DEF Shape

\* What a request r may be when the sessions of ids were created.
Fits(r, ids) ==
    /\ r \in Request /\ r.session \in ids \cup {NoSession} /\ r.seen \subseteq ids
    /\ r.pc # "idle" => r.browser \in Browsers
    /\ r.pc \in {"list", "drop", "create"} => r.session = NoSession
    /\ r.pc \in {"register", "store", "signedIn", "revoke", "rotate", "refreshed"} => r.session \in Sessions

LEMMA RequestsFit == ASSUME Shape, NEW h \in Handlers PROVE Fits(handler[h], issued)
BY DEF Known, Shape, TypeOK, KnownIds, SessionNamed, Busy, Fits

LEMMA FitsShape ==
    ASSUME Shape, NEW h \in Handlers, NEW r, Fits(r, issued'), issued \subseteq issued',
           handler' = [handler EXCEPT ![h] = r], jar' = jar,
           sessionKeys' \subseteq issued', userSessions' \subseteq issued', ended' \subseteq issued',
           issued' \subseteq Sessions, raced' \subseteq Sessions, overlapped' \in BOOLEAN,
           refreshKeys' \in [Sessions -> 0 .. MaxSecond], second' = second
    PROVE  Shape'
<1>1. handler' \in [Handlers -> Request]
  BY DEF Shape, TypeOK, Fits
<1>2. \A g \in Handlers : handler'[g] = IF g = h THEN r ELSE handler[g]
  BY DEF Shape, TypeOK
<1>3. TypeOK'
  BY <1>1, <1>2 DEF Shape, TypeOK, Busy, Fits
<1>4. KnownIds' /\ SessionNamed'
  BY <1>2 DEF Shape, KnownIds, SessionNamed, Known, Fits
<1>5. QED
  BY <1>3, <1>4 DEF Shape

LEMMA ListSessionsShape == ASSUME Shape, NEW h \in Handlers, ListSessions(h) PROVE Shape'
<1> DEFINE pc == IF userSessions = {} THEN "create" ELSE "drop"
           alone == handler[h].alone /\ userSessions # {}
           r == [handler[h] EXCEPT !.seen = userSessions, !.pc = pc, !.alone = alone]
<1>1. handler' = [handler EXCEPT ![h] = r] /\ overlapped' \in BOOLEAN
  BY DEF ListSessions
<1>2. /\ handler[h] \in Request /\ userSessions \in SUBSET Sessions
      /\ pc \in {"create", "drop"} /\ pc \in Pcs
  BY RequestsFit, PcsAre DEF Fits, SignIn, Shape, TypeOK
<1>3. alone \in BOOLEAN
  OBVIOUS
<1> HIDE DEF pc, alone
<1>4. /\ r \in Request /\ r.pc = pc /\ r.session = handler[h].session
      /\ r.seen = userSessions /\ r.browser = handler[h].browser
  BY <1>2, <1>3 DEF Request
<1> HIDE DEF r
<1>5. Fits(r, issued')
  BY <1>2, <1>4, RequestsFit DEF ListSessions, Fits, Shape, TypeOK
<1>6. raced' \subseteq Sessions
  BY DEF ListSessions, Shape, TypeOK
<1>7. UNCHANGED <<sessionKeys, userSessions, refreshKeys, second, issued, ended, jar>>
  BY DEF ListSessions, redisVars
<1>8. QED
  BY <1>1, <1>5, <1>6, <1>7, FitsShape DEF Shape, TypeOK

LEMMA DropSessionsShape == ASSUME Shape, NEW h \in Handlers, DropSessions(h) PROVE Shape'
<1> DEFINE r == [handler[h] EXCEPT !.pc = "create", !.seen = {}, !.alone = FALSE]
<1>1. handler' = [handler EXCEPT ![h] = r]
  BY DEF DropSessions
<1>2. /\ r \in Request /\ r.pc = "create" /\ r.session = handler[h].session /\ r.seen = {}
      /\ r.browser = handler[h].browser
  BY RequestsFit, PcsAre DEF Fits, Request, SignIn
<1> HIDE DEF r
<1>3. Fits(r, issued')
  BY <1>2, RequestsFit DEF DropSessions, Fits
<1>4. refreshKeys' \in [Sessions -> 0 .. MaxSecond] /\ handler[h].seen \subseteq issued
  BY SessionsAssumption DEF DropSessions, Shape, TypeOK, KnownIds
<1>5. QED
  BY <1>1, <1>3, <1>4, FitsShape DEF DropSessions, Shape, TypeOK

LEMMA CreateSessionShape ==
    ASSUME Shape, NEW h \in Handlers, NEW s \in Sessions, CreateSession(h, s) PROVE Shape'
<1> DEFINE r == [handler[h] EXCEPT !.pc = "register", !.session = s]
<1>1. handler' = [handler EXCEPT ![h] = r]
  BY DEF CreateSession
<1>2. /\ r \in Request /\ r.pc = "register" /\ r.session = s /\ r.seen = handler[h].seen
      /\ r.browser = handler[h].browser
  BY RequestsFit, PcsAre DEF Fits, Request, SignIn, AnySession
<1> HIDE DEF r
<1>3. Fits(r, issued')
  BY <1>2, RequestsFit DEF CreateSession, Fits
<1>4. QED
  BY <1>1, <1>3, FitsShape DEF CreateSession, Shape, TypeOK

LEMMA RegisterSessionShape == ASSUME Shape, NEW h \in Handlers, RegisterSession(h) PROVE Shape'
<1> DEFINE r == [handler[h] EXCEPT !.pc = "store"]
<1>1. handler' = [handler EXCEPT ![h] = r]
  BY DEF RegisterSession, Goto
<1>2. /\ r \in Request /\ r.pc = "store" /\ r.session = handler[h].session
      /\ r.seen = handler[h].seen /\ r.browser = handler[h].browser
  BY RequestsFit, PcsAre DEF Fits, Request, SignIn
<1> HIDE DEF r
<1>3. Fits(r, issued') /\ handler[h].session \in issued
  BY <1>2, RequestsFit, SessionsAssumption DEF RegisterSession, Fits, historyVars
<1>4. QED
  BY <1>1, <1>3, FitsShape DEF RegisterSession, Shape, TypeOK, historyVars

LEMMA StoreTokenShape ==
    ASSUME Shape, NEW h \in Handlers, NEW pc \in {"signedIn", "refreshed"},
           handler[h].pc \in {"store", "rotate"}, StoreToken(h, pc)
    PROVE  Shape'
<1> DEFINE r == [handler[h] EXCEPT !.pc = pc, !.second = second]
<1>1. handler' = [handler EXCEPT ![h] = r]
  BY DEF StoreToken
<1>2. second \in 0 .. MaxSecond
  BY SessionsAssumption DEF Shape, TypeOK
<1>3. /\ r \in Request /\ r.pc = pc /\ r.session = handler[h].session
      /\ r.seen = handler[h].seen /\ r.browser = handler[h].browser
  BY <1>2, RequestsFit, PcsAre DEF Fits, Request, SignIn, Refresh
<1> HIDE DEF r
<1>4. Fits(r, issued') /\ handler[h].session \in Sessions
  BY <1>3, RequestsFit DEF StoreToken, Fits, historyVars
<1>5. refreshKeys' \in [Sessions -> 0 .. MaxSecond]
  BY <1>2, <1>4 DEF StoreToken, Shape, TypeOK
<1>6. QED
  BY <1>1, <1>4, <1>5, FitsShape DEF StoreToken, Shape, TypeOK, historyVars

LEMMA VerifyShape == ASSUME Shape, NEW h \in Handlers, VerifyRefreshToken(h) PROVE Shape'
<1>1. CASE handler' = [handler EXCEPT ![h].pc = "revoke", ![h].second = 0] /\ handler[h].session # NoSession
           /\ UNCHANGED jar
  <2> DEFINE r == [handler[h] EXCEPT !.pc = "revoke", !.second = 0]
  <2>1. handler' = [handler EXCEPT ![h] = r]
    BY <1>1
  <2>2. /\ r \in Request /\ r.pc = "revoke" /\ r.session = handler[h].session
        /\ r.seen = handler[h].seen /\ r.browser = handler[h].browser
    <3>1. handler[h] \in Request /\ "revoke" \in Pcs /\ 0 \in 0 .. MaxSecond
      BY RequestsFit, PcsAre, SessionsAssumption DEF Fits, Refresh
    <3>2. QED
      BY <3>1 DEF Request
  <2> HIDE DEF r
  <2>3. handler[h].session \in Sessions /\ handler[h].pc = "verify" /\ issued' = issued
    BY <1>1, RequestsFit DEF VerifyRefreshToken, Fits, historyVars, Request, AnySession
  <2>4. Fits(r, issued')
    BY <2>2, <2>3, RequestsFit DEF Fits
  <2>5. QED
    BY <1>1, <2>1, <2>4, FitsShape DEF VerifyRefreshToken, Shape, TypeOK, historyVars, redisVars
<1>2. CASE handler' = [handler EXCEPT ![h] = Idle]
           /\ jar' = [jar EXCEPT ![handler[h].browser].access = NoSession]
  <2>1. \A b \in Browsers : LET j == [jar[b] EXCEPT !.access = NoSession] IN
            j \in Jar /\ j.session = jar[b].session /\ j.refresh = jar[b].refresh /\ j.access = NoSession
    BY DEF Shape, TypeOK, Jar, AnySession
  <2>2. jar' \in [Browsers -> Jar] /\ \A b \in Browsers :
            jar'[b].session = jar[b].session /\ jar'[b].refresh = jar[b].refresh
            /\ jar'[b].access \in {jar[b].access, NoSession}
    BY <1>2, <2>1 DEF Shape, TypeOK
  <2>3. handler' \in [Handlers -> Request] /\ \A g \in Handlers :
            handler'[g] = IF g = h THEN Idle ELSE handler[g]
    BY <1>2, IdleIsRequest DEF Shape, TypeOK
  <2>4. TypeOK'
    BY <2>2, <2>3, IdleIsRequest DEF VerifyRefreshToken, Shape, TypeOK, historyVars, redisVars, Busy
  <2>5. KnownIds' /\ SessionNamed'
    BY <2>2, <2>3, IdleIsRequest
       DEF VerifyRefreshToken, Shape, KnownIds, SessionNamed, Known, historyVars, redisVars
  <2>6. QED
    BY <2>4, <2>5 DEF Shape
<1>3. QED
  BY <1>1, <1>2 DEF VerifyRefreshToken

LEMMA DropTokenShape ==
    ASSUME Shape, NEW h \in Handlers, NEW from \in {"revoke", "logoutToken", "resetToken"},
           NEW pc \in {"rotate", "logoutSession", "passwordReset"}, pc = "rotate" => from = "revoke",
           DropToken(h, from, pc)
    PROVE  Shape'
<1> DEFINE r == [handler[h] EXCEPT !.pc = pc]
<1>1. handler' = [handler EXCEPT ![h] = r]
  BY DEF DropToken, Goto
<1>2. /\ r \in Request /\ r.pc = pc /\ r.session = handler[h].session
      /\ r.seen = handler[h].seen /\ r.browser = handler[h].browser
  BY RequestsFit, PcsAre DEF Fits, Request, Refresh, Logout, Reset
<1> HIDE DEF r
<1>3. Fits(r, issued')
  BY <1>2, RequestsFit DEF DropToken, Fits, historyVars
<1>4. refreshKeys' \in [Sessions -> 0 .. MaxSecond]
  BY SessionsAssumption DEF DropToken, Shape, TypeOK
<1>5. QED
  BY <1>1, <1>3, <1>4, FitsShape DEF DropToken, Shape, TypeOK, historyVars

LEMMA DestroySessionShape == ASSUME Shape, NEW h \in Handlers, DestroySession(h) PROVE Shape'
<1> DEFINE r == [handler[h] EXCEPT !.pc = "loggedOut"]
<1>1. handler' = [handler EXCEPT ![h] = r]
  BY DEF DestroySession, Goto
<1>2. /\ r \in Request /\ r.pc = "loggedOut" /\ r.session = handler[h].session
      /\ r.seen = handler[h].seen /\ r.browser = handler[h].browser
  BY RequestsFit, PcsAre DEF Fits, Request, Logout
<1> HIDE DEF r
<1>3. Fits(r, issued')
  BY <1>2, RequestsFit DEF DestroySession, Fits
<1>4. refreshKeys' \in [Sessions -> 0 .. MaxSecond]
  BY SessionsAssumption DEF DestroySession, Shape, TypeOK
<1>5. {handler[h].session} \cap Sessions \subseteq issued
  BY SessionsAssumption DEF Shape, KnownIds, Known
<1>6. QED
  BY <1>1, <1>3, <1>4, <1>5, FitsShape DEF DestroySession, Shape, TypeOK

\* A request is over: its browser's jar is j, and its slot is idle again.
LEMMA ReturnShape ==
    ASSUME Shape, NEW h \in Handlers, Busy(h), NEW j \in Jar,
           j.session \in Known, j.refresh.session \in Known, j.access \in Known,
           jar' = [jar EXCEPT ![handler[h].browser] = j],
           handler' = [handler EXCEPT ![h] = Idle], raced' \subseteq Sessions,
           UNCHANGED <<redisVars, second, issued, ended, overlapped>>
    PROVE  Shape'
<1>1. /\ jar' \in [Browsers -> Jar]
      /\ \A b \in Browsers : jar'[b] = IF b = handler[h].browser THEN j ELSE jar[b]
  BY DEF Shape, TypeOK
<1>2. handler' \in [Handlers -> Request] /\ \A g \in Handlers :
          handler'[g] = IF g = h THEN Idle ELSE handler[g]
  BY IdleIsRequest DEF Shape, TypeOK
<1>3. TypeOK'
  BY <1>1, <1>2, IdleIsRequest DEF Shape, TypeOK, redisVars, Busy
<1>4. KnownIds'
  BY <1>1, <1>2, IdleIsRequest DEF Shape, KnownIds, Known
<1>5. SessionNamed'
  BY <1>2, IdleIsRequest DEF Shape, SessionNamed
<1>6. QED
  BY <1>3, <1>4, <1>5 DEF Shape

LEMMA AnsweredFits ==
    ASSUME Shape, NEW h \in Handlers, Busy(h)
    PROVE  /\ Answered(h) \in Jar
           /\ Answered(h).session \in Known /\ Answered(h).refresh.session \in Known
           /\ Answered(h).access \in Known
<1> DEFINE r == handler[h]
           j == jar[r.browser]
<1>1. /\ j \in Jar /\ j.session \in Known /\ j.refresh.session \in Known /\ j.access \in Known
      /\ r.session \in Known /\ r.session \in AnySession /\ r.second \in 0 .. MaxSecond
  BY DEF Shape, TypeOK, KnownIds, Busy, Request
<1>2. /\ Token(r.session, r.second) \in Tokens /\ Token(r.session, r.second).session = r.session
      /\ NoToken \in Tokens /\ NoToken.session = NoSession
      /\ NoSession \in Known /\ NoSession \in AnySession
  BY <1>1, SessionsAssumption DEF Token, NoToken, Tokens, AnySession, Known
<1>3. Answered(h) \in
        {[session |-> r.session, refresh |-> Token(r.session, r.second), access |-> r.session],
         [j EXCEPT !.session = r.session],
         [j EXCEPT !.refresh = Token(r.session, r.second), !.access = r.session],
         [j EXCEPT !.access = NoSession],
         [j EXCEPT !.refresh = NoToken, !.access = NoSession],
         EmptyJar, [j EXCEPT !.refresh = NoToken], j}
  BY DEF Answered
<1> DEFINE Ok(q) == /\ q \in Jar /\ q.session \in Known /\ q.refresh.session \in Known
                    /\ q.access \in Known
           t == Token(r.session, r.second)
<1> HIDE DEF r, j, t
<1>4. Ok([session |-> r.session, refresh |-> t, access |-> r.session])
  BY <1>1, <1>2 DEF Jar, t
<1>5. Ok([j EXCEPT !.session = r.session])
  BY <1>1 DEF Jar
<1>6. Ok([j EXCEPT !.refresh = t, !.access = r.session])
  BY <1>1, <1>2 DEF Jar, t
<1>7. Ok([j EXCEPT !.access = NoSession]) /\ Ok(EmptyJar) /\ Ok(j)
  BY <1>1, <1>2, EmptyJarIsJar DEF Jar
<1>8. Ok([j EXCEPT !.refresh = NoToken, !.access = NoSession])
  BY <1>1, <1>2 DEF Jar
<1>9. Ok([j EXCEPT !.refresh = NoToken])
  BY <1>1, <1>2 DEF Jar
<1>10. Ok(Answered(h))
  <2> HIDE DEF Ok
  <2> QED
    BY <1>3, <1>4, <1>5, <1>6, <1>7, <1>8, <1>9 DEF t
<1>11. QED
  BY <1>10

LEMMA AnswerShape == ASSUME Shape, NEW h \in Handlers, Answer(h) PROVE Shape'
<1>1. Busy(h) /\ raced' \subseteq Sessions
  BY DEF Answer, historyVars, Shape, TypeOK
<1>2. UNCHANGED <<redisVars, second, issued, ended, overlapped>>
  BY DEF Answer, historyVars
<1>3. QED
  BY <1>1, <1>2, AnsweredFits, ReturnShape DEF Answer

LEMMA LoseAnswerShape == ASSUME Shape, NEW h \in Handlers, LoseAnswer(h) PROVE Shape'
<1> DEFINE b == handler[h].browser
<1>1. b \in Browsers /\ jar[b] \in Jar /\ Busy(h) /\ raced' \subseteq Sessions
  BY DEF LoseAnswer, Shape, TypeOK
<1>2. PICK j \in {jar[b], [jar[b] EXCEPT !.access = NoSession]} : jar' = [jar EXCEPT ![b] = j]
  <2>1. jar = [jar EXCEPT ![b] = jar[b]]
    BY <1>1 DEF Shape, TypeOK
  <2>2. QED
    BY <2>1 DEF LoseAnswer
<1>3. jar[b].session \in Known /\ jar[b].refresh.session \in Known /\ jar[b].access \in Known
      /\ NoSession \in Known /\ NoSession \in AnySession
  BY <1>1 DEF Shape, KnownIds, Known, AnySession
<1>4. j \in Jar /\ j.session \in Known /\ j.refresh.session \in Known /\ j.access \in Known
  BY <1>1, <1>2, <1>3 DEF Jar
<1>5. QED
  BY <1>1, <1>2, <1>4, ReturnShape DEF LoseAnswer

\* The jar an answer that fails leaves: that of before, with what cookies were set.
LEMMA FailedJar ==
    ASSUME Shape, NEW h \in Handlers, NEW j \in FailedJars(h)
    PROVE  LET r == handler[h]
               k == jar[r.browser]
           IN  /\ j \in Jar
               /\ j.session \in {k.session, r.session}
               /\ \/ j.refresh = k.refresh /\ r.pc = "signedIn"
                  \/ j.refresh = Token(r.session, r.second) /\ r.pc \in {"signedIn", "refreshed"}
               /\ j.access \in {k.access, NoSession}
<1> DEFINE r == handler[h]
           k == jar[r.browser]
           t == Token(r.session, r.second)
<1>0. r.pc \in {"signedIn", "refreshed"}
  BY DEF FailedJars
<1>1. k \in Jar /\ r.session \in AnySession /\ t \in Tokens /\ NoSession \in AnySession
  BY <1>0 DEF Shape, TypeOK, Busy, Request, Token, Tokens, AnySession
<1>2. \/ /\ r.pc = "signedIn"
         /\ j \in {[k EXCEPT !.session = r.session], [k EXCEPT !.session = r.session, !.refresh = t]}
      \/ r.pc = "refreshed" /\ j = [k EXCEPT !.refresh = t, !.access = NoSession]
  <2>1. CASE r.pc = "signedIn"
    BY <2>1 DEF FailedJars
  <2>2. CASE r.pc = "refreshed"
    BY <2>2 DEF FailedJars
  <2>3. QED
    BY <1>0, <2>1, <2>2
<1> HIDE DEF r, k, t
<1>3. /\ j \in Jar /\ j.session \in {k.session, r.session}
      /\ \/ j.refresh = k.refresh /\ r.pc = "signedIn"
         \/ j.refresh = t /\ r.pc \in {"signedIn", "refreshed"}
      /\ j.access \in {k.access, NoSession}
  BY <1>1, <1>2 DEF Jar
<1>4. QED
  BY <1>3 DEF r, k, t

LEMMA AnswerFailsShape == ASSUME Shape, NEW h \in Handlers, AnswerFails(h) PROVE Shape'
<1> DEFINE r == handler[h]
           k == jar[r.browser]
<1>1. PICK j \in FailedJars(h) : jar' = [jar EXCEPT ![r.browser] = j]
  BY DEF AnswerFails
<1>2. Busy(h) /\ raced' \subseteq Sessions /\ r.browser \in Browsers
  <2>1. r.pc \in {"signedIn", "refreshed"}
    BY DEF AnswerFails, FailedJars
  <2>2. QED
    BY <2>1 DEF AnswerFails, historyVars, Busy, Shape, TypeOK
<1>3. /\ k.session \in Known /\ k.refresh.session \in Known /\ k.access \in Known
      /\ r.session \in Known /\ NoSession \in Known /\ Token(r.session, r.second).session = r.session
  BY <1>2 DEF Shape, KnownIds, Known, Token
<1> HIDE DEF r, k
<1>4. j \in Jar /\ j.session \in Known /\ j.refresh.session \in Known /\ j.access \in Known
  BY <1>1, <1>3, FailedJar DEF r, k
<1>5. QED
  BY <1>1, <1>2, <1>4, ReturnShape DEF AnswerFails, historyVars, r

LEMMA SessionExpiresShape == ASSUME Shape, NEW s \in Sessions, SessionExpires(s) PROVE Shape'
BY DEF SessionExpires, Shape, TypeOK, KnownIds, SessionNamed, Known, historyVars, Busy

LEMMA ReloadShape == ASSUME Shape, NEW b \in Browsers, Reload(b) PROVE Shape'
<1>1. [jar[b] EXCEPT !.access = NoSession] \in Jar
  BY DEF Shape, TypeOK, Jar, AnySession
<1>2. jar' \in [Browsers -> Jar] /\ \A c \in Browsers :
          jar'[c].session = jar[c].session /\ jar'[c].refresh = jar[c].refresh
          /\ jar'[c].access \in {jar[c].access, NoSession}
  BY <1>1 DEF Reload, Shape, TypeOK, Jar
<1>3. QED
  BY <1>2 DEF Reload, Shape, TypeOK, KnownIds, SessionNamed, Known, historyVars, redisVars, Busy

LEMMA TickShape == ASSUME Shape, Tick PROVE Shape'
<1>1. second' \in 1 .. MaxSecond
  BY SessionsAssumption DEF Tick, Shape, TypeOK
<1>2. QED
  BY <1>1 DEF Tick, Shape, TypeOK, KnownIds, SessionNamed, Known, historyVars, redisVars, Busy

LEMMA StutterShape == ASSUME Shape, UNCHANGED vars PROVE Shape'
BY DEF vars, redisVars, historyVars, Shape, TypeOK, KnownIds, SessionNamed, Known, Busy

LEMMA StepShape == ASSUME Shape, [Next]_vars PROVE Shape'
<1>1. ASSUME NEW h \in Handlers, NEW b \in Browsers,
             StartSignIn(h, b) \/ StartRefresh(h, b) \/ StartLogout(h, b) \/ StartReset(h, b)
      PROVE  Shape'
  <2>1. jar[b].refresh.second \in 0 .. MaxSecond /\ 0 \in 0 .. MaxSecond
    BY SessionsAssumption DEF Shape, TypeOK, Jar, Tokens
  <2>2. QED
    BY <1>1, <2>1, StartSignInShape, StartShape DEF StartRefresh, StartLogout, StartReset
<1>2. ASSUME NEW h \in Handlers,
             \/ ListSessions(h) \/ DropSessions(h) \/ RegisterSession(h) \/ GenerateToken(h)
             \/ VerifyRefreshToken(h) \/ RotateRefreshToken(h) \/ DestroySession(h)
             \/ Answer(h) \/ AnswerFails(h) \/ LoseAnswer(h)
      PROVE  Shape'
  BY <1>2, ListSessionsShape, DropSessionsShape, RegisterSessionShape, StoreTokenShape, VerifyShape,
     DestroySessionShape, AnswerShape, AnswerFailsShape, LoseAnswerShape
     DEF GenerateToken, RotateRefreshToken
<1>3. ASSUME NEW h \in Handlers, RevokeRefreshToken(h) \/ LogoutToken(h) \/ ResetToken(h)
      PROVE  Shape'
  BY <1>3, DropTokenShape DEF RevokeRefreshToken, LogoutToken, ResetToken
<1>4. QED
  BY <1>1, <1>2, <1>3, CreateSessionShape, SessionExpiresShape, ReloadShape, TickShape, StutterShape
     DEF Next

-----------------------------------------------------------------------------
(* Steps keep the rest of the invariant.                                   *)

\* Request h becomes r and takes up nothing new: no sign-in, no session.
LEMMA CarryOn ==
    ASSUME IInv, NEW h \in Handlers, NEW r, handler' = [handler EXCEPT ![h] = r], raced \subseteq raced',
           r.pc # "idle" => Busy(h), r.pc \in SignIn => SigningIn(h),
           r.pc \in {"create", "register"} => handler[h].pc \in {"create", "register"},
           r.session \in {handler[h].session, NoSession}, r.seen \subseteq handler[h].seen,
           r.alone => handler[h].alone /\ r.pc \in {"list", "drop"},
           r.pc \in {"register", "store", "revoke", "rotate"} => r.session \notin ended \ raced,
           \A s \in ended \ raced : refreshKeys'[s] = 0,
           UNCHANGED <<sessionKeys, userSessions, ended, overlapped>>
    PROVE  Rest'
<1>1. \A g \in Handlers : handler'[g] = IF g = h THEN r ELSE handler[g]
  BY DEF IInv, Shape, TypeOK
<1>2. EndedInv'
  BY DEF IInv, Rest, EndedInv
<1>3. AloneInv'
  BY <1>1 DEF IInv, Rest, AloneInv, SigningIn
<1>4. OverlapInv'
  BY <1>1 DEF IInv, Rest, OverlapInv, SigningIn, OneSession, InForce
<1>5. RacedInv'
  <2>1. \A s \in Sessions, g \in Handlers : WorksOn(g, s)' => WorksOn(g, s)
    BY <1>1, SessionsAssumption DEF WorksOn, Busy
  <2>2. QED
    BY <2>1 DEF IInv, Rest, RacedInv
<1>6. TokenInv'
  BY <1>1 DEF IInv, Rest, TokenInv
<1>7. QED
  BY <1>2, <1>3, <1>4, <1>5, <1>6 DEF Rest

LEMMA NoRequestMoves ==
    ASSUME IInv, UNCHANGED <<handler, refreshKeys, userSessions, historyVars>>, sessionKeys' \subseteq sessionKeys
    PROVE  Rest'
BY DEF IInv, Rest, EndedInv, AloneInv, OverlapInv, OneSession, InForce, RacedInv, TokenInv, WorksOn, Busy,
   SigningIn, historyVars

LEMMA StoreTokenRest ==
    ASSUME IInv, NEW h \in Handlers, NEW pc \in {"signedIn", "refreshed"},
           \/ handler[h].pc = "store" /\ pc = "signedIn"
           \/ handler[h].pc = "rotate" /\ pc = "refreshed",
           StoreToken(h, pc)
    PROVE  Rest'
<1> DEFINE r == [handler[h] EXCEPT !.pc = pc, !.second = second]
<1>1. handler' = [handler EXCEPT ![h] = r] /\ handler[h] \in Request /\ ~ handler[h].alone
  BY RequestsFit DEF StoreToken, Fits, IInv, Rest, AloneInv
<1>2. r.pc = pc /\ r.session = handler[h].session /\ r.seen = handler[h].seen /\ r.alone = handler[h].alone
  BY <1>1 DEF Request
<1>3. handler[h].session \notin ended \ raced
  BY DEF IInv, Rest, TokenInv
<1>4. \A s \in ended \ raced : refreshKeys'[s] = 0
  BY <1>3 DEF StoreToken, IInv, Shape, TypeOK, Rest, TokenInv
<1> HIDE DEF r
<1>5. QED
  BY <1>1, <1>2, <1>4, CarryOn DEF StoreToken, historyVars, Busy, SigningIn, SignIn

LEMMA DropTokenRest ==
    ASSUME IInv, NEW h \in Handlers, NEW from \in {"revoke", "logoutToken", "resetToken"},
           NEW pc \in {"rotate", "logoutSession", "passwordReset"}, pc = "rotate" => from = "revoke",
           DropToken(h, from, pc)
    PROVE  Rest'
<1> DEFINE r == [handler[h] EXCEPT !.pc = pc]
<1>1. handler' = [handler EXCEPT ![h] = r] /\ handler[h] \in Request /\ ~ handler[h].alone
  BY RequestsFit DEF DropToken, Goto, Fits, IInv, Rest, AloneInv
<1>2. r.pc = pc /\ r.session = handler[h].session /\ r.seen = handler[h].seen /\ r.alone = handler[h].alone
  BY <1>1 DEF Request
<1>3. pc = "rotate" => handler[h].session \notin ended \ raced
  BY DEF DropToken, IInv, Rest, TokenInv
<1>4. \A s \in ended \ raced : refreshKeys'[s] = 0
  BY DEF DropToken, IInv, Shape, TypeOK, Rest, TokenInv
<1> HIDE DEF r
<1>5. QED
  BY <1>1, <1>2, <1>3, <1>4, CarryOn DEF DropToken, historyVars, Busy, SigningIn, SignIn

LEMMA ReturnRest ==
    ASSUME IInv, NEW h \in Handlers, Busy(h), handler' = [handler EXCEPT ![h] = Idle], raced \subseteq raced',
           UNCHANGED <<redisVars, ended, overlapped>>
    PROVE  Rest'
<1>1. \A s \in ended \ raced : refreshKeys'[s] = 0
  BY DEF redisVars, IInv, Rest, TokenInv
<1>2. QED
  BY <1>1, IdleIsRequest, CarryOn DEF redisVars, SignIn

LEMMA VerifyRest == ASSUME IInv, NEW h \in Handlers, VerifyRefreshToken(h) PROVE Rest'
<1>1. CASE handler' = [handler EXCEPT ![h].pc = "revoke", ![h].second = 0] /\ handler[h].session # NoSession
           /\ refreshKeys[handler[h].session] # 0
  <2> DEFINE r == [handler[h] EXCEPT !.pc = "revoke", !.second = 0]
  <2>1. handler' = [handler EXCEPT ![h] = r] /\ handler[h] \in Request
    BY <1>1, RequestsFit DEF Fits, IInv
  <2>2. r.pc = "revoke" /\ r.session = handler[h].session /\ r.seen = handler[h].seen
        /\ r.alone = handler[h].alone
    BY <2>1 DEF Request
  <2>3. ~ handler[h].alone /\ handler[h].session \notin ended \ raced
    BY <1>1 DEF VerifyRefreshToken, IInv, Rest, TokenInv, AloneInv
  <2>4. \A s \in ended \ raced : refreshKeys'[s] = 0
    BY DEF VerifyRefreshToken, redisVars, IInv, Rest, TokenInv
  <2> HIDE DEF r
  <2>5. QED
    BY <2>1, <2>2, <2>3, <2>4, CarryOn
       DEF VerifyRefreshToken, redisVars, historyVars, Busy, SigningIn, SignIn
<1>2. CASE handler' = [handler EXCEPT ![h] = Idle]
  BY <1>2, ReturnRest DEF VerifyRefreshToken, redisVars, historyVars, Busy
<1>3. QED
  BY <1>1, <1>2 DEF VerifyRefreshToken

LEMMA StartRest ==
    ASSUME IInv, NEW h \in Handlers, NEW b \in Browsers, NEW pc \in {"verify", "logoutToken", "resetToken"},
           NEW t \in 0 .. MaxSecond, Start(h, b, pc, t)
    PROVE  Rest'
<1> DEFINE r == [Idle EXCEPT !.pc = pc, !.browser = b, !.session = jar[b].session, !.second = t]
<1>1. handler' = [handler EXCEPT ![h] = r] /\ ~ Busy(h)
  BY DEF Start
<1>2. r.pc = pc /\ r.session = jar[b].session /\ r.seen = {} /\ r.alone = FALSE
  BY DEF Idle
<1> HIDE DEF r
<1>3. \A g \in Handlers : handler'[g] = IF g = h THEN r ELSE handler[g]
  BY <1>1 DEF IInv, Shape, TypeOK
<1>4. EndedInv' /\ AloneInv' /\ TokenInv'
  <2>1. EndedInv'
    BY DEF Start, redisVars, IInv, Rest, EndedInv
  <2>2. AloneInv'
    BY <1>2, <1>3 DEF IInv, Rest, AloneInv, SigningIn, SignIn
  <2>3. raced \subseteq raced' /\ ended' = ended /\ refreshKeys' = refreshKeys
    BY DEF Start, redisVars
  <2>4. TokenInv'
    BY <1>2, <1>3, <2>3 DEF IInv, Rest, TokenInv
  <2>5. QED
    BY <2>1, <2>2, <2>4
<1>5. OverlapInv'
  BY <1>2, <1>3 DEF Start, redisVars, IInv, Rest, OverlapInv, OneSession, InForce, SigningIn, SignIn
<1>6. RacedInv'
  <2>1. raced' = IF jar[b].session = NoSession \/ Untouched(jar[b].session) THEN raced
                 ELSE raced \cup {jar[b].session}
    BY DEF Start
  <2>2. \A s \in Sessions, g \in Handlers : WorksOn(g, s)' =>
            IF g = h THEN s = jar[b].session ELSE WorksOn(g, s)
    BY <1>2, <1>3 DEF WorksOn, Busy
  <2>3. QED
    BY <2>1, <2>2, SessionsAssumption DEF IInv, Rest, RacedInv, Untouched
<1>7. QED
  BY <1>4, <1>5, <1>6 DEF Rest

LEMMA StartSignInRest ==
    ASSUME IInv, NEW h \in Handlers, NEW b \in Browsers, StartSignIn(h, b)
    PROVE  Rest'
<1> DEFINE others == {g \in Handlers : SigningIn(g)}
<1>1. /\ handler'[h].pc = "list" /\ handler'[h].session = NoSession /\ handler'[h].seen = {}
      /\ (handler'[h].alone <=> others = {})
  <2> DEFINE lone == others = {}
             first == [Idle EXCEPT !.pc = "list", !.browser = b, !.alone = lone]
  <2>1. handler'[h] = first
    <3>1. handler' = [g \in Handlers |->
                CASE g = h -> first
                  [] g \in others -> [handler[g] EXCEPT !.alone = FALSE]
                  [] OTHER -> handler[g]]
      BY DEF StartSignIn
    <3>2. ~ SigningIn(h)
      BY DEF StartSignIn, Busy, SigningIn, SignIn
    <3> HIDE DEF first
    <3>3. QED
      BY <3>1, <3>2
  <2> HIDE DEF lone
  <2>2. first.pc = "list" /\ first.session = NoSession /\ first.seen = {}
    BY IdleIsRequest DEF Request
  <2>3. first.alone <=> lone
    BY IdleIsRequest DEF Request
  <2> HIDE DEF first
  <2>4. QED
    BY <2>1, <2>2, <2>3 DEF lone
<1>2. \A g \in Handlers \ {h} :
        /\ handler'[g].pc = handler[g].pc /\ handler'[g].session = handler[g].session
        /\ handler'[g].seen = handler[g].seen
        /\ handler'[g].alone => handler[g].alone /\ g \notin others
  <2>1. \A g \in Handlers \ {h} :
            handler'[g] = IF g \in others THEN [handler[g] EXCEPT !.alone = FALSE] ELSE handler[g]
    BY DEF StartSignIn
  <2>2. \A g \in Handlers : LET q == [handler[g] EXCEPT !.alone = FALSE] IN
            q.pc = handler[g].pc /\ q.session = handler[g].session /\ q.seen = handler[g].seen
            /\ q.alone = FALSE
    BY DEF IInv, Shape, TypeOK, Request
  <2>3. QED
    BY <2>1, <2>2
<1>3. overlapped' = (overlapped \/ others # {}) /\ ~ SigningIn(h)
  BY DEF StartSignIn, Busy, SigningIn, SignIn
<1>4. \A g \in Handlers : SigningIn(g)' <=> g = h \/ SigningIn(g)
  BY <1>1, <1>2 DEF SigningIn, SignIn
<1>5. EndedInv' /\ TokenInv'
  <2>1. raced' = raced /\ ended' = ended /\ refreshKeys' = refreshKeys /\ sessionKeys' = sessionKeys
    BY DEF StartSignIn, redisVars
  <2>2. QED
    BY <1>1, <1>2, <2>1 DEF IInv, Rest, EndedInv, TokenInv
<1>6. AloneInv'
  <2>1. \A g \in Handlers \ {h} : ~ handler'[g].alone
    BY <1>2 DEF IInv, Rest, AloneInv, SigningIn, SignIn
  <2>2. QED
    BY <1>1, <1>4, <2>1 DEF AloneInv
<1>7. OverlapInv'
  BY <1>1, <1>2, <1>3, <1>4 DEF StartSignIn, redisVars, IInv, Rest, OverlapInv, OneSession, InForce
<1>8. RacedInv'
  <2>1. \A s \in Sessions, g \in Handlers : WorksOn(g, s)' => WorksOn(g, s)
    BY <1>1, <1>2, SessionsAssumption DEF WorksOn, Busy
  <2>2. QED
    BY <2>1 DEF StartSignIn, IInv, Rest, RacedInv
<1>9. QED
  BY <1>5, <1>6, <1>7, <1>8 DEF Rest

LEMMA ListSessionsRest == ASSUME IInv, NEW h \in Handlers, ListSessions(h) PROVE Rest'
<1> DEFINE r == [handler[h] EXCEPT !.seen = userSessions,
                                   !.pc = IF userSessions = {} THEN "create" ELSE "drop",
                                   !.alone = @ /\ userSessions # {}]
<1>1. handler' = [handler EXCEPT ![h] = r] /\ handler[h] \in Request
  BY RequestsFit DEF ListSessions, Fits, IInv
<1>2. /\ r.pc = (IF userSessions = {} THEN "create" ELSE "drop") /\ r.session = handler[h].session
      /\ r.seen = userSessions /\ r.alone = (handler[h].alone /\ userSessions # {})
  BY <1>1 DEF Request
<1> HIDE DEF r
<1>3. \A g \in Handlers : handler'[g] = IF g = h THEN r ELSE handler[g]
  BY <1>1 DEF IInv, Shape, TypeOK
<1>4. \A g \in Handlers : SigningIn(g)' <=> SigningIn(g)
  BY <1>2, <1>3 DEF ListSessions, SigningIn, SignIn
<1>5. handler[h].session = NoSession /\ SigningIn(h)
  BY DEF ListSessions, IInv, Shape, SessionNamed, SigningIn, SignIn
<1>6. EndedInv' /\ TokenInv'
  BY <1>2, <1>3, <1>5, SessionsAssumption
     DEF ListSessions, redisVars, IInv, Shape, TypeOK, Rest, EndedInv, TokenInv
<1>7. AloneInv'
  BY <1>2, <1>3, <1>4 DEF IInv, Rest, AloneInv
<1>8. OverlapInv'
  <2>1. handler[h].alone => \A g \in Handlers : SigningIn(g) => g = h
    BY DEF IInv, Rest, AloneInv
  <2>2. \A g \in Handlers \ {h} : handler'[g].pc \in {"create", "register"} => SigningIn(g)
    BY <1>3 DEF SigningIn, SignIn
  <2>3. CASE ~ overlapped
    BY <1>2, <1>3, <1>4, <2>3 DEF ListSessions, redisVars, IInv, Rest, OverlapInv, OneSession, InForce
  <2>4. CASE handler[h].alone /\ userSessions = {}
    BY <1>2, <1>3, <1>4, <2>1, <2>2, <2>4 DEF ListSessions, redisVars, OverlapInv, OneSession, InForce
  <2>5. QED
    BY <2>3, <2>4 DEF ListSessions, OverlapInv
<1>9. RacedInv'
  <2>1. \A s \in Sessions, g \in Handlers : WorksOn(g, s)' =>
            IF g = h THEN s \in userSessions ELSE WorksOn(g, s)
    BY <1>2, <1>3, <1>5, SessionsAssumption DEF WorksOn, Busy
  <2>2. QED
    BY <2>1 DEF ListSessions, IInv, Rest, RacedInv, Untouched
<1>10. QED
  BY <1>6, <1>7, <1>8, <1>9 DEF Rest

LEMMA DropSessionsRest == ASSUME IInv, NEW h \in Handlers, DropSessions(h) PROVE Rest'
<1> DEFINE r == [handler[h] EXCEPT !.pc = "create", !.seen = {}, !.alone = FALSE]
<1>1. handler' = [handler EXCEPT ![h] = r] /\ handler[h] \in Request
  BY RequestsFit DEF DropSessions, Fits, IInv
<1>2. r.pc = "create" /\ r.session = handler[h].session /\ r.seen = {} /\ r.alone = FALSE
  BY <1>1 DEF Request
<1> HIDE DEF r
<1>3. \A g \in Handlers : handler'[g] = IF g = h THEN r ELSE handler[g]
  BY <1>1 DEF IInv, Shape, TypeOK
<1>4. \A g \in Handlers : SigningIn(g)' <=> SigningIn(g)
  BY <1>2, <1>3 DEF DropSessions, SigningIn, SignIn
<1>5. handler[h].session = NoSession /\ handler[h].seen \subseteq Sessions
  BY RequestsFit DEF DropSessions, IInv, Shape, TypeOK, SessionNamed, Fits
<1>6. EndedInv'
  BY DEF DropSessions, IInv, Rest, EndedInv
<1>7. AloneInv'
  BY <1>2, <1>3, <1>4 DEF IInv, Rest, AloneInv
<1>8. OverlapInv'
  <2>1. handler[h].alone => \A g \in Handlers : SigningIn(g) => g = h
    BY DEF IInv, Rest, AloneInv
  <2>2. userSessions' = {} /\ (~ overlapped' => ~ overlapped \/ handler[h].alone)
    BY DEF DropSessions
  <2>3. QED
    BY <1>4, <2>1, <2>2 DEF IInv, Rest, OverlapInv, OneSession, InForce
<1>9. RacedInv'
  <2>1. \A s \in Sessions, g \in Handlers : WorksOn(g, s)' => WorksOn(g, s)
    BY <1>2, <1>3, <1>5, SessionsAssumption DEF WorksOn, Busy
  <2>2. QED
    BY <2>1 DEF DropSessions, IInv, Rest, RacedInv
<1>10. TokenInv'
  <2>1. SUFFICES ASSUME NEW s \in ended \cup handler[h].seen, s \notin raced
                 PROVE  /\ refreshKeys'[s] = 0
                        /\ \A g \in Handlers : handler'[g].session = s =>
                              handler'[g].pc \notin {"register", "store", "revoke", "rotate"}
    BY DEF DropSessions, TokenInv
  <2>2. s \in Sessions
    BY <1>5 DEF IInv, Shape, TypeOK
  <2>3. CASE s \in handler[h].seen
    <3>1. \A g \in Handlers : g # h => ~ WorksOn(g, s)
      BY <2>1, <2>2, <2>3 DEF DropSessions, IInv, Rest, RacedInv, WorksOn, Busy
    <3>2. QED
      BY <1>2, <1>3, <2>2, <2>3, <3>1 DEF DropSessions, WorksOn, Busy
  <2>4. CASE s \in ended
    BY <1>2, <1>3, <2>1, <2>2, <2>4 DEF DropSessions, IInv, Shape, TypeOK, Rest, TokenInv
  <2>5. QED
    BY <2>1, <2>3, <2>4
<1>11. QED
  BY <1>6, <1>7, <1>8, <1>9, <1>10 DEF Rest

LEMMA CreateSessionRest ==
    ASSUME IInv, NEW h \in Handlers, NEW s \in Sessions, CreateSession(h, s) PROVE Rest'
<1> DEFINE r == [handler[h] EXCEPT !.pc = "register", !.session = s]
<1>1. handler' = [handler EXCEPT ![h] = r] /\ handler[h] \in Request /\ ~ handler[h].alone
  BY RequestsFit DEF CreateSession, Fits, IInv, Rest, AloneInv
<1>2. r.pc = "register" /\ r.session = s /\ r.seen = handler[h].seen /\ r.alone = handler[h].alone
  BY <1>1 DEF Request
<1> HIDE DEF r
<1>3. \A g \in Handlers : handler'[g] = IF g = h THEN r ELSE handler[g]
  BY <1>1 DEF IInv, Shape, TypeOK
<1>4. \A g \in Handlers : SigningIn(g)' <=> SigningIn(g)
  BY <1>2, <1>3 DEF CreateSession, SigningIn, SignIn
<1>5. s \notin ended /\ \A g \in Handlers : ~ WorksOn(g, s)
  BY RequestsFit, SessionsAssumption DEF CreateSession, IInv, Shape, TypeOK, WorksOn, Fits
<1>6. EndedInv'
  BY <1>5 DEF CreateSession, IInv, Rest, EndedInv
<1>7. AloneInv'
  BY <1>1, <1>2, <1>3, <1>4 DEF IInv, Rest, AloneInv
<1>8. OverlapInv'
  <2>1. ~ overlapped => userSessions = {}
    BY DEF CreateSession, IInv, Rest, OverlapInv
  <2>2. QED
    BY <1>4, <2>1 DEF CreateSession, IInv, Rest, OverlapInv, OneSession, InForce
<1>9. RacedInv'
  <2>1. \A z \in Sessions, g \in Handlers : WorksOn(g, z)' => WorksOn(g, z) \/ (z = s /\ g = h)
    BY <1>2, <1>3 DEF CreateSession, WorksOn, Busy
  <2>2. QED
    BY <1>5, <2>1 DEF CreateSession, IInv, Rest, RacedInv
<1>10. TokenInv'
  <2>1. raced' = raced /\ ended' = ended /\ refreshKeys' = refreshKeys
    BY DEF CreateSession
  <2>2. QED
    BY <1>2, <1>3, <1>5, <2>1 DEF IInv, Rest, TokenInv
<1>11. QED
  BY <1>6, <1>7, <1>8, <1>9, <1>10 DEF Rest

LEMMA RegisterSessionRest == ASSUME IInv, NEW h \in Handlers, RegisterSession(h) PROVE Rest'
<1> DEFINE r == [handler[h] EXCEPT !.pc = "store"]
<1>1. handler' = [handler EXCEPT ![h] = r] /\ handler[h] \in Request /\ ~ handler[h].alone
  BY RequestsFit DEF RegisterSession, Goto, Fits, IInv, Rest, AloneInv
<1>2. r.pc = "store" /\ r.session = handler[h].session /\ r.seen = handler[h].seen
      /\ r.alone = handler[h].alone
  BY <1>1 DEF Request
<1> HIDE DEF r
<1>3. \A g \in Handlers : handler'[g] = IF g = h THEN r ELSE handler[g]
  BY <1>1 DEF IInv, Shape, TypeOK
<1>4. \A g \in Handlers : SigningIn(g)' <=> SigningIn(g)
  BY <1>2, <1>3 DEF RegisterSession, SigningIn, SignIn
<1>5. /\ UNCHANGED <<sessionKeys, refreshKeys, ended, raced, overlapped>>
      /\ userSessions' = userSessions \cup {handler[h].session}
  BY DEF RegisterSession, historyVars
<1>6. EndedInv'
  BY <1>5 DEF IInv, Rest, EndedInv
<1>7. AloneInv'
  BY <1>1, <1>2, <1>3, <1>4 DEF IInv, Rest, AloneInv
<1>8. OverlapInv'
  <2>1. SUFFICES ASSUME ~ overlapped PROVE OverlapInv'
    BY <1>5 DEF OverlapInv
  <2>2. userSessions = {} /\ \A g, k \in Handlers : SigningIn(g) /\ SigningIn(k) => g = k
    BY <2>1 DEF RegisterSession, IInv, Rest, OverlapInv
  <2>3. \A g \in Handlers : handler'[g].pc \notin {"create", "register"}
    BY <1>2, <1>3, <2>2 DEF RegisterSession, SigningIn, SignIn
  <2>4. OneSession'
    BY <1>5, <2>2 DEF OneSession, InForce
  <2>5. QED
    BY <1>4, <2>2, <2>3, <2>4 DEF OverlapInv
<1>9. RacedInv'
  <2>1. \A z \in Sessions, g \in Handlers : WorksOn(g, z)' => WorksOn(g, z)
    BY <1>2, <1>3 DEF RegisterSession, WorksOn, Busy
  <2>2. QED
    BY <1>5, <2>1 DEF IInv, Rest, RacedInv
<1>10. TokenInv'
  BY <1>2, <1>3, <1>5 DEF RegisterSession, IInv, Rest, TokenInv
<1>11. QED
  BY <1>6, <1>7, <1>8, <1>9, <1>10 DEF Rest

LEMMA DestroySessionRest == ASSUME IInv, NEW h \in Handlers, DestroySession(h) PROVE Rest'
<1> DEFINE r == [handler[h] EXCEPT !.pc = "loggedOut"]
           s == handler[h].session
<1>1. handler' = [handler EXCEPT ![h] = r] /\ handler[h] \in Request /\ ~ handler[h].alone
  BY RequestsFit DEF DestroySession, Goto, Fits, IInv, Rest, AloneInv
<1>2. r.pc = "loggedOut" /\ r.session = handler[h].session /\ r.seen = handler[h].seen
      /\ r.alone = handler[h].alone
  BY <1>1 DEF Request
<1> HIDE DEF r
<1>3. \A g \in Handlers : handler'[g] = IF g = h THEN r ELSE handler[g]
  BY <1>1 DEF IInv, Shape, TypeOK
<1>4. \A g \in Handlers : SigningIn(g)' <=> SigningIn(g)
  BY <1>2, <1>3 DEF DestroySession, SigningIn, SignIn
<1>5. /\ sessionKeys' = sessionKeys \ {s} /\ userSessions' = userSessions \ {s}
      /\ refreshKeys' = [z \in Sessions |-> IF z = s THEN 0 ELSE refreshKeys[z]]
      /\ ended' = ended \cup ({s} \cap Sessions)
      /\ raced' = raced /\ overlapped' = overlapped /\ handler[h].pc = "logoutSession"
  BY DEF DestroySession
<1>6. EndedInv'
  BY <1>5 DEF IInv, Rest, EndedInv
<1>7. AloneInv'
  BY <1>1, <1>2, <1>3, <1>4 DEF IInv, Rest, AloneInv
<1>8. OverlapInv'
  <2>1. \A g \in Handlers : handler'[g].pc \in {"create", "register"}
                            => handler[g].pc \in {"create", "register"}
    BY <1>2, <1>3
  <2>2. QED
    BY <1>4, <1>5, <2>1 DEF IInv, Rest, OverlapInv, OneSession, InForce
<1>9. RacedInv'
  <2>1. \A z \in Sessions, g \in Handlers : WorksOn(g, z)' => WorksOn(g, z)
    BY <1>2, <1>3, <1>5 DEF WorksOn, Busy
  <2>2. QED
    BY <1>5, <2>1 DEF IInv, Rest, RacedInv
<1>10. TokenInv'
  <2>1. SUFFICES ASSUME NEW z \in (ended \cup ({s} \cap Sessions)) \ raced
                 PROVE  /\ refreshKeys'[z] = 0
                        /\ \A g \in Handlers : handler'[g].session = z =>
                              handler'[g].pc \notin {"register", "store", "revoke", "rotate"}
    BY <1>5 DEF TokenInv
  <2>2. z \in Sessions
    BY DEF IInv, Shape, TypeOK
  <2>3. CASE z = s
    <3>1. \A g \in Handlers : g # h => ~ WorksOn(g, z)
      BY <1>5, <2>2, <2>3 DEF IInv, Rest, RacedInv, WorksOn, Busy
    <3>2. QED
      BY <1>2, <1>3, <1>5, <2>2, <2>3, <3>1 DEF WorksOn, Busy
  <2>4. CASE z # s
    BY <1>2, <1>3, <1>5, <2>2, <2>4 DEF IInv, Rest, TokenInv
  <2>5. QED
    BY <2>3, <2>4
<1>11. QED
  BY <1>6, <1>7, <1>8, <1>9, <1>10 DEF Rest

LEMMA StepRest == ASSUME IInv, [Next]_vars PROVE Rest'
<1>1. ASSUME NEW h \in Handlers, NEW b \in Browsers,
             StartSignIn(h, b) \/ StartRefresh(h, b) \/ StartLogout(h, b) \/ StartReset(h, b)
      PROVE  Rest'
  <2>1. jar[b].refresh.second \in 0 .. MaxSecond /\ 0 \in 0 .. MaxSecond
    BY SessionsAssumption DEF IInv, Shape, TypeOK, Jar, Tokens
  <2>2. QED
    BY <1>1, <2>1, StartSignInRest, StartRest DEF StartRefresh, StartLogout, StartReset
<1>2. ASSUME NEW h \in Handlers,
             \/ ListSessions(h) \/ DropSessions(h) \/ RegisterSession(h) \/ GenerateToken(h)
             \/ VerifyRefreshToken(h) \/ RotateRefreshToken(h) \/ DestroySession(h)
      PROVE  Rest'
  BY <1>2, ListSessionsRest, DropSessionsRest, RegisterSessionRest, StoreTokenRest, VerifyRest,
     DestroySessionRest DEF GenerateToken, RotateRefreshToken
<1>3. ASSUME NEW h \in Handlers, RevokeRefreshToken(h) \/ LogoutToken(h) \/ ResetToken(h)
      PROVE  Rest'
  BY <1>3, DropTokenRest DEF RevokeRefreshToken, LogoutToken, ResetToken
<1>4. ASSUME NEW h \in Handlers, Answer(h) \/ AnswerFails(h) \/ LoseAnswer(h) PROVE Rest'
  <2>1. Busy(h) /\ handler' = [handler EXCEPT ![h] = Idle] /\ raced \subseteq raced'
        /\ UNCHANGED <<redisVars, ended, overlapped>>
    BY <1>4 DEF Answer, AnswerFails, LoseAnswer, FailedJars, Busy, historyVars
  <2>2. QED
    BY <2>1, ReturnRest
<1>5. CASE (\E s \in Sessions : SessionExpires(s)) \/ (\E b \in Browsers : Reload(b)) \/ Tick
           \/ UNCHANGED vars
  BY <1>5, NoRequestMoves DEF SessionExpires, Reload, Tick, vars, redisVars
<1>6. QED
  BY <1>1, <1>2, <1>3, <1>4, <1>5, CreateSessionRest DEF Next

-----------------------------------------------------------------------------
(* The refresh cookie.  These invariants need IInv, not the other way.     *)

\* Browser b knows session s, or one of its requests does.
Holds(b, s) ==
    \/ jar[b].session = s \/ jar[b].refresh.session = s
    \/ \E h \in Handlers : Busy(h) /\ handler[h].browser = b /\ handler[h].session = s

\* No two browsers share a session.
OwnerInv == \A s \in Sessions : \A b, c \in Browsers : Holds(b, s) /\ Holds(c, s) => b = c

\* A session that is being created is in no cookie yet.
Creating == {"register", "store", "signedIn"}
FreshInv ==
    \A h \in Handlers : handler[h].pc \in Creating =>
        /\ \A b \in Browsers : jar[b].session # handler[h].session
                               /\ jar[b].refresh.session # handler[h].session
        /\ \A g \in Handlers : Busy(g) /\ handler[g].session = handler[h].session => g = h

\* A request that is about to return a new refresh token returns the stored one.
StoredInv ==
    \A h \in Handlers :
        handler[h].pc \in {"signedIn", "refreshed"} /\ handler[h].session \in sessionKeys \ raced
        => refreshKeys[handler[h].session] = handler[h].second

\* A cookie is only out of date while a request that changed the stored token
\* has not been answered.
Changing == {"rotate", "refreshed", "logoutSession", "loggedOut", "passwordReset"}
Settled(s) == \A h \in Handlers : handler[h].session = s => handler[h].pc \notin Changing
CookieInv ==
    \A b \in Browsers : LET s == jar[b].refresh.session IN
        s \in sessionKeys \ raced /\ Settled(s) => refreshKeys[s] = jar[b].refresh.second

Cookies == OwnerInv /\ FreshInv /\ StoredInv /\ CookieInv

LEMMA CookiesInit == Init => Cookies
<1> SUFFICES ASSUME Init PROVE Cookies
  OBVIOUS
<1>1. /\ \A b \in Browsers : jar[b].session = NoSession /\ jar[b].refresh.session = NoSession
      /\ \A h \in Handlers : handler[h].pc = "idle" /\ ~ Busy(h)
  BY EmptyJarIsJar, IdleIsRequest DEF Init, Busy
<1>2. QED
  BY <1>1, SessionsAssumption
     DEF Init, Cookies, OwnerInv, Holds, FreshInv, Creating, StoredInv, CookieInv

\* Busy request h goes on as r.  The stored tokens it changes are those of its
\* own session or of sessions that end, and it becomes one that is changing it
\* or is creating it.
LEMMA CookiesGoOn ==
    ASSUME IInv, Cookies, NEW h \in Handlers, NEW r, handler' = [handler EXCEPT ![h] = r],
           jar' = jar, raced \subseteq raced', sessionKeys' \subseteq sessionKeys,
           Busy(h), r.session = handler[h].session, r.browser = handler[h].browser,
           r.pc \in Creating => handler[h].pc \in Creating,
           handler[h].pc \in Changing => r.pc \in Changing,
           \A s \in sessionKeys' \ raced' : 
               \/ refreshKeys'[s] = refreshKeys[s]
               \/ s = handler[h].session /\ r.pc \in Creating \cup Changing,
           r.pc \in {"signedIn", "refreshed"} /\ r.session \in sessionKeys' \ raced'
               => refreshKeys'[r.session] = r.second
    PROVE  Cookies'
<1>1. \A g \in Handlers : handler'[g] = IF g = h THEN r ELSE handler[g]
  BY DEF IInv, Shape, TypeOK
<1>2. \A g \in Handlers : /\ handler'[g].session = handler[g].session
                          /\ handler'[g].browser = handler[g].browser
                          /\ Busy(g)' => Busy(g)
  BY <1>1 DEF Busy
<1>3. OwnerInv'
  <2>1. \A b \in Browsers, s \in Sessions : Holds(b, s)' => Holds(b, s)
    BY <1>2 DEF Holds
  <2>2. QED
    BY <2>1 DEF Cookies, OwnerInv
<1>4. FreshInv'
  <2>1. \A g \in Handlers : handler'[g].pc \in Creating => handler[g].pc \in Creating
    BY <1>1
  <2>2. QED
    BY <1>2, <2>1 DEF Cookies, FreshInv
<1>5. StoredInv'
  <2>1. SUFFICES ASSUME NEW g \in Handlers, handler'[g].pc \in {"signedIn", "refreshed"},
                        handler'[g].session \in sessionKeys' \ raced'
                 PROVE  refreshKeys'[handler'[g].session] = handler'[g].second
    BY DEF StoredInv
  <2>2. CASE g = h
    BY <1>1, <2>1, <2>2
  <2>3. CASE g # h
    <3>1. handler'[g] = handler[g] /\ handler[g].session \in Sessions \ raced
      BY <1>1, <2>1, <2>3 DEF IInv, Shape, TypeOK
    <3>2. handler[g].session # handler[h].session
      BY <2>1, <2>3, <3>1 DEF IInv, Rest, RacedInv, WorksOn, Busy
    <3>3. QED
      BY <2>1, <3>1, <3>2 DEF Cookies, StoredInv
  <2>4. QED
    BY <2>2, <2>3
<1>6. CookieInv'
  <2>1. SUFFICES ASSUME NEW b \in Browsers, jar[b].refresh.session \in sessionKeys' \ raced',
                        Settled(jar[b].refresh.session)'
                 PROVE  refreshKeys'[jar[b].refresh.session] = jar[b].refresh.second
    BY DEF CookieInv
  <2>2. Settled(jar[b].refresh.session)
    BY <1>1, <1>2, <2>1 DEF Settled
  <2>3. ~ (jar[b].refresh.session = handler[h].session /\ r.pc \in Creating \cup Changing)
    BY <1>1, <2>1 DEF Settled, Cookies, FreshInv
  <2>4. QED
    BY <2>1, <2>2, <2>3 DEF Cookies, CookieInv
<1>7. QED
  BY <1>3, <1>4, <1>5, <1>6 DEF Cookies

\* The same for an h that has nothing to do with the stored tokens of what remains.
LEMMA CookiesPlain ==
    ASSUME IInv, Cookies, NEW h \in Handlers, NEW r, handler' = [handler EXCEPT ![h] = r],
           jar' = jar, raced \subseteq raced', sessionKeys' \subseteq sessionKeys,
           Busy(h), r.session = handler[h].session, r.browser = handler[h].browser,
           r.pc \notin Creating \cup Changing, handler[h].pc \notin Changing,
           \A s \in sessionKeys' : refreshKeys'[s] = refreshKeys[s]
    PROVE  Cookies'
<1>1. r.pc \notin {"signedIn", "refreshed"}
  BY DEF Creating, Changing
<1>2. QED
  BY <1>1, CookiesGoOn

\* A request h of browser b is taken up, for the session of its cookie or none yet.
LEMMA CookiesBegin ==
    ASSUME IInv, Cookies, NEW h \in Handlers, NEW b \in Browsers, ~ Busy(h),
           handler'[h].browser = b, handler'[h].session \in {jar[b].session, NoSession},
           handler'[h].pc \notin Creating \cup Changing,
           \A g \in Handlers \ {h} :
               /\ handler'[g].pc = handler[g].pc /\ handler'[g].session = handler[g].session
               /\ handler'[g].browser = handler[g].browser /\ handler'[g].second = handler[g].second,
           raced \subseteq raced', UNCHANGED <<redisVars, jar>>
    PROVE  Cookies'
<1>1. OwnerInv'
  <2>1. \A c \in Browsers, s \in Sessions : Holds(c, s)' => Holds(c, s)
    BY SessionsAssumption DEF Holds, Busy
  <2>2. QED
    BY <2>1 DEF Cookies, OwnerInv
<1>2. FreshInv'
  <2>1. \A g \in Handlers : handler'[g].pc \in Creating =>
            g # h /\ handler[g].pc \in Creating /\ handler'[g].session = handler[g].session
            /\ handler[g].session \in Sessions
    BY DEF IInv, Shape, SessionNamed, Creating
  <2>2. QED
    BY <2>1, SessionsAssumption DEF Cookies, FreshInv, Busy
<1>3. StoredInv'
  BY DEF Cookies, StoredInv, redisVars, Creating, Changing
<1>4. CookieInv'
  <2>1. \A s : Settled(s)' => Settled(s)
    BY DEF Settled, Busy, Changing
  <2>2. QED
    BY <2>1 DEF Cookies, CookieInv, redisVars
<1>5. QED
  BY <1>1, <1>2, <1>3, <1>4 DEF Cookies

\* Request h is over, and its browser's jar is j: the refresh cookie is dropped,
\* or the new one is set, or it stays and h did not change the stored token.
LEMMA CookiesReturn ==
    ASSUME IInv, Cookies, NEW h \in Handlers, Busy(h), NEW j,
           jar' = [jar EXCEPT ![handler[h].browser] = j], handler' = [handler EXCEPT ![h] = Idle],
           raced \subseteq raced', UNCHANGED redisVars,
           j.session \in {jar[handler[h].browser].session, handler[h].session, NoSession},
           \/ j.refresh = NoToken
           \/ /\ j.refresh = Token(handler[h].session, handler[h].second)
              /\ handler[h].pc \in {"signedIn", "refreshed"}
           \/ /\ j.refresh = jar[handler[h].browser].refresh
              /\ handler[h].pc \in Changing => handler[h].session \in raced' \cup {NoSession}
    PROVE  Cookies'
<1> DEFINE b == handler[h].browser
<1>1. /\ b \in Browsers
      /\ \A c \in Browsers : jar'[c] = IF c = b THEN j ELSE jar[c]
      /\ \A g \in Handlers : handler'[g] = IF g = h THEN Idle ELSE handler[g]
  BY DEF IInv, Shape, TypeOK
<1>2. /\ NoToken.session = NoSession /\ NoSession \notin Sessions
      /\ \A s, t : Token(s, t).session = s /\ Token(s, t).second = t
  BY SessionsAssumption DEF NoToken, Token
<1>3. j.refresh.session \in {jar[b].refresh.session, handler[h].session, NoSession}
  BY <1>2
<1>4. \A g \in Handlers : Busy(g)' => g # h /\ Busy(g)
  BY <1>1, IdleIsRequest DEF Busy
<1> HIDE DEF b
<1>5. OwnerInv'
  <2>1. \A c \in Browsers, s \in Sessions : Holds(c, s)' => Holds(c, s)
    BY <1>1, <1>2, <1>3, <1>4 DEF Holds, b
  <2>2. QED
    BY <2>1 DEF Cookies, OwnerInv
<1>6. FreshInv'
  <2>1. SUFFICES ASSUME NEW g \in Handlers, handler'[g].pc \in Creating
                 PROVE  /\ \A c \in Browsers : jar'[c].session # handler'[g].session
                                               /\ jar'[c].refresh.session # handler'[g].session
                        /\ \A k \in Handlers : Busy(k)' /\ handler'[k].session = handler'[g].session => k = g
    BY DEF FreshInv
  <2>2. g # h /\ handler'[g] = handler[g] /\ handler[g].session \in Sessions
    BY <1>1, <2>1, IdleIsRequest DEF Creating, IInv, Shape, SessionNamed
  <2>3. handler[h].session # handler[g].session
    BY <2>1, <2>2 DEF Cookies, FreshInv
  <2>4. /\ \A c \in Browsers : jar[c].session # handler[g].session
                               /\ jar[c].refresh.session # handler[g].session
        /\ \A k \in Handlers : Busy(k) /\ handler[k].session = handler[g].session => k = g
    BY <2>1, <2>2 DEF Cookies, FreshInv
  <2>5. QED
    BY <1>1, <1>2, <1>3, <1>4, <2>2, <2>3, <2>4 DEF b
<1>7. StoredInv'
  <2>1. \A g \in Handlers : handler'[g].pc \in {"signedIn", "refreshed"} => handler'[g] = handler[g]
    BY <1>1, IdleIsRequest
  <2>2. QED
    BY <2>1 DEF Cookies, StoredInv, redisVars
<1>8. CookieInv'
  <2>1. SUFFICES ASSUME NEW c \in Browsers, jar'[c].refresh.session \in sessionKeys \ raced',
                        Settled(jar[c].refresh.session)'
                 PROVE  refreshKeys[jar'[c].refresh.session] = jar'[c].refresh.second
    BY DEF CookieInv, redisVars
  <2>2. jar'[c].refresh.session \in Sessions \ raced
    BY <2>1 DEF IInv, Shape, TypeOK
  <2>3. ASSUME jar'[c].refresh = jar[c].refresh,
               ~ (handler[h].pc \in Changing /\ handler[h].session = jar[c].refresh.session)
        PROVE  refreshKeys[jar[c].refresh.session] = jar[c].refresh.second
    <3>1. Settled(jar[c].refresh.session)
      BY <1>1, <2>1, <2>3 DEF Settled
    <3>2. QED
      BY <2>1, <2>2, <2>3, <3>1 DEF Cookies, CookieInv
  <2>4. CASE c # b
    <3>1. jar'[c] = jar[c]
      BY <1>1, <2>4
    <3>2. handler[h].session # jar[c].refresh.session
      BY <1>1, <2>2, <2>4, <3>1 DEF Cookies, OwnerInv, Holds, b
    <3>3. QED
      BY <2>3, <3>1, <3>2
  <2>5. CASE c = b
    <3>1. jar'[c] = j
      BY <1>1, <2>5
    <3>2. CASE j.refresh = NoToken
      BY <1>2, <2>2, <3>1, <3>2
    <3>3. CASE /\ j.refresh = Token(handler[h].session, handler[h].second)
               /\ handler[h].pc \in {"signedIn", "refreshed"}
      BY <1>2, <2>1, <2>2, <3>1, <3>3 DEF Cookies, StoredInv
    <3>4. CASE /\ j.refresh = jar[b].refresh
               /\ handler[h].pc \in Changing => handler[h].session \in raced' \cup {NoSession}
      <4>1. jar'[c].refresh = jar[c].refresh
        BY <2>5, <3>1, <3>4
      <4>2. ~ (handler[h].pc \in Changing /\ handler[h].session = jar[c].refresh.session)
        BY <1>2, <2>1, <2>2, <3>4, <4>1
      <4>3. QED
        BY <2>3, <4>1, <4>2
    <3>5. QED
      BY <3>2, <3>3, <3>4 DEF b
  <2>6. QED
    BY <2>4, <2>5
<1>9. QED
  BY <1>5, <1>6, <1>7, <1>8 DEF Cookies

LEMMA CookiesReturns ==
    ASSUME IInv, Cookies, NEW h \in Handlers, Answer(h) \/ AnswerFails(h) \/ LoseAnswer(h)
    PROVE  Cookies'
<1> DEFINE r == handler[h]
           k == jar[r.browser]
<1>1. Busy(h) /\ k \in Jar /\ r.browser \in Browsers /\ UNCHANGED redisVars /\ raced \subseteq raced'
  BY DEF Answer, AnswerFails, FailedJars, Busy, LoseAnswer, historyVars, IInv, Shape, TypeOK
<1>2. CASE Answer(h)
  <2>1. /\ Answered(h).session \in {k.session, r.session, NoSession}
        /\ \/ Answered(h).refresh = NoToken
           \/ /\ Answered(h).refresh = Token(r.session, r.second)
              /\ r.pc \in {"signedIn", "refreshed"}
           \/ /\ Answered(h).refresh = k.refresh
              /\ r.pc \notin Changing
    <3>1. /\ [k EXCEPT !.session = r.session].session = r.session
          /\ [k EXCEPT !.session = r.session].refresh = k.refresh
          /\ [k EXCEPT !.access = NoSession].session = k.session
          /\ [k EXCEPT !.access = NoSession].refresh = k.refresh
          /\ [k EXCEPT !.refresh = NoToken].session = k.session
          /\ [k EXCEPT !.refresh = NoToken].refresh = NoToken
      BY <1>1 DEF Jar
    <3>2. /\ [k EXCEPT !.refresh = NoToken, !.access = NoSession].session = k.session
          /\ [k EXCEPT !.refresh = NoToken, !.access = NoSession].refresh = NoToken
          /\ \A t : /\ [k EXCEPT !.refresh = t, !.access = r.session].session = k.session
                    /\ [k EXCEPT !.refresh = t, !.access = r.session].refresh = t
      BY <1>1 DEF Jar
    <3>3. EmptyJar.session = NoSession /\ EmptyJar.refresh = NoToken
      BY DEF EmptyJar
    <3>4. r.pc \in Changing => r.pc \in {"rotate", "refreshed", "logoutSession", "loggedOut"} \cup Reset
      BY DEF Changing, Reset
    <3> HIDE DEF k
    <3>5. CASE r.pc = "signedIn"
      BY <3>5 DEF Answered, k
    <3>6. CASE r.pc = "refreshed"
      BY <3>2, <3>6 DEF Answered, k
    <3>7. CASE r.pc \notin {"signedIn", "refreshed"}
      BY <3>1, <3>2, <3>3, <3>4, <3>7 DEF Answered, Reset, k
    <3>8. QED
      BY <3>5, <3>6, <3>7
  <2>2. QED
    BY <1>1, <1>2, <2>1, CookiesReturn DEF Answer
<1>3. CASE LoseAnswer(h)
  <2>1. PICK j \in {k, [k EXCEPT !.access = NoSession]} : jar' = [jar EXCEPT ![r.browser] = j]
    <3>1. jar = [jar EXCEPT ![r.browser] = k]
      BY <1>1 DEF IInv, Shape, TypeOK
    <3>2. QED
      BY <1>3, <3>1 DEF LoseAnswer
  <2>2. j.session = k.session /\ j.refresh = k.refresh
    BY <1>1 DEF Jar
  <2>3. r.pc \in Changing => r.session \in raced' \cup {NoSession}
    <3>1. r.session \in Sessions \cup {NoSession}
      BY DEF IInv, Shape, TypeOK, Request, AnySession
    <3>2. QED
      BY <1>3, <3>1 DEF LoseAnswer, Changing, SigningIn, SignIn
  <2>4. QED
    BY <1>1, <1>3, <2>1, <2>2, <2>3, CookiesReturn DEF LoseAnswer
<1>4. CASE AnswerFails(h)
  <2>1. PICK j \in FailedJars(h) : jar' = [jar EXCEPT ![r.browser] = j]
    BY <1>4 DEF AnswerFails
  <2>2. /\ j.session \in {k.session, r.session}
        /\ \/ j.refresh = k.refresh /\ r.pc = "signedIn"
           \/ j.refresh = Token(r.session, r.second) /\ r.pc \in {"signedIn", "refreshed"}
    BY <2>1, FailedJar DEF IInv
  <2>3. handler' = [handler EXCEPT ![h] = Idle]
    BY <1>4 DEF AnswerFails
  <2>4. "signedIn" \notin Changing
    BY DEF Changing
  <2> HIDE DEF r, k
  <2>5. QED
    BY <1>1, <2>1, <2>2, <2>3, <2>4, CookiesReturn DEF r, k
<1>5. QED
  BY <1>2, <1>3, <1>4

LEMMA CookiesStep == ASSUME IInv, IInv', Cookies, [Next]_vars PROVE Cookies'
<1>1. ASSUME NEW h \in Handlers, NEW b \in Browsers, NEW pc \in {"verify", "logoutToken", "resetToken"},
             NEW t, Start(h, b, pc, t)
      PROVE  Cookies'
  <2> DEFINE r == [Idle EXCEPT !.pc = pc, !.browser = b, !.session = jar[b].session, !.second = t]
  <2>1. \A g \in Handlers : handler'[g] = IF g = h THEN r ELSE handler[g]
    BY <1>1 DEF Start, IInv, Shape, TypeOK
  <2>2. r.pc = pc /\ r.session = jar[b].session /\ r.browser = b
    BY DEF Idle
  <2>3. ~ Busy(h) /\ raced \subseteq raced' /\ UNCHANGED <<redisVars, jar>>
    BY <1>1 DEF Start
  <2> HIDE DEF r
  <2>4. QED
    BY <2>1, <2>2, <2>3, CookiesBegin DEF Creating, Changing
<1>2. ASSUME NEW h \in Handlers, NEW b \in Browsers, StartSignIn(h, b) PROVE Cookies'
  <2> DEFINE first == [Idle EXCEPT !.pc = "list", !.browser = b,
                                   !.alone = {g \in Handlers : SigningIn(g)} = {}]
  <2>1. \A g \in Handlers : handler'[g] = IF g = h THEN first
                                ELSE IF SigningIn(g) THEN [handler[g] EXCEPT !.alone = FALSE]
                                ELSE handler[g]
    <3>1. handler' = [g \in Handlers |->
                CASE g = h -> first
                  [] g \in {k \in Handlers : SigningIn(k)} -> [handler[g] EXCEPT !.alone = FALSE]
                  [] OTHER -> handler[g]]
      BY <1>2 DEF StartSignIn
    <3>2. ~ SigningIn(h)
      BY <1>2 DEF StartSignIn, Busy, SigningIn, SignIn
    <3> HIDE DEF first
    <3>3. QED
      BY <3>1, <3>2
  <2>2. first.pc = "list" /\ first.browser = b /\ first.session = NoSession
    BY DEF Idle
  <2>3. \A g \in Handlers : LET q == [handler[g] EXCEPT !.alone = FALSE] IN
            q.pc = handler[g].pc /\ q.session = handler[g].session
            /\ q.browser = handler[g].browser /\ q.second = handler[g].second
    BY DEF IInv, Shape, TypeOK, Request
  <2>4. ~ Busy(h) /\ raced \subseteq raced' /\ UNCHANGED <<redisVars, jar>>
    BY <1>2 DEF StartSignIn
  <2> HIDE DEF first
  <2>5. \A g \in Handlers \ {h} :
            handler'[g].pc = handler[g].pc /\ handler'[g].session = handler[g].session
            /\ handler'[g].browser = handler[g].browser /\ handler'[g].second = handler[g].second
    BY <2>1, <2>3
  <2>6. QED
    BY <2>1, <2>2, <2>4, <2>5, CookiesBegin DEF Creating, Changing
<1>3. ASSUME NEW h \in Handlers, ListSessions(h) PROVE Cookies'
  <2> DEFINE r == [handler[h] EXCEPT !.seen = userSessions,
                                     !.pc = IF userSessions = {} THEN "create" ELSE "drop",
                                     !.alone = @ /\ userSessions # {}]
  <2>1. handler' = [handler EXCEPT ![h] = r]
    BY <1>3 DEF ListSessions
  <2>2. r.pc \in {"create", "drop"} /\ r.session = handler[h].session /\ r.browser = handler[h].browser
    BY DEF IInv, Shape, TypeOK, Request
  <2>3. /\ Busy(h) /\ raced \subseteq raced' /\ handler[h].pc = "list" /\ jar' = jar
        /\ sessionKeys' \subseteq sessionKeys /\ refreshKeys' = refreshKeys
    BY <1>3 DEF ListSessions, Busy, redisVars
  <2> HIDE DEF r
  <2>4. r.pc \notin Creating \cup Changing \cup {"signedIn", "refreshed"} /\ handler[h].pc \notin Changing
    BY <2>1, <2>2, <2>3 DEF Creating, Changing
  <2>5. QED
    BY <2>1, <2>2, <2>3, <2>4, CookiesPlain
<1>4. ASSUME NEW h \in Handlers, DropSessions(h) PROVE Cookies'
  <2> DEFINE r == [handler[h] EXCEPT !.pc = "create", !.seen = {}, !.alone = FALSE]
  <2>1. handler' = [handler EXCEPT ![h] = r]
    BY <1>4 DEF DropSessions
  <2>2. r.pc = "create" /\ r.session = handler[h].session /\ r.browser = handler[h].browser
    BY DEF IInv, Shape, TypeOK, Request
  <2>3. /\ Busy(h) /\ raced' = raced /\ jar' = jar /\ handler[h].pc = "drop"
        /\ sessionKeys' \subseteq sessionKeys
        /\ \A s \in sessionKeys' : refreshKeys'[s] = refreshKeys[s]
    BY <1>4 DEF DropSessions, Busy, IInv, Shape, TypeOK
  <2> HIDE DEF r
  <2>4. r.pc \notin Creating \cup Changing \cup {"signedIn", "refreshed"} /\ handler[h].pc \notin Changing
    BY <2>1, <2>2, <2>3 DEF Creating, Changing
  <2>5. QED
    BY <2>1, <2>2, <2>3, <2>4, CookiesPlain
<1>5. ASSUME NEW h \in Handlers, NEW s \in Sessions, CreateSession(h, s) PROVE Cookies'
  <2> DEFINE r == [handler[h] EXCEPT !.pc = "register", !.session = s]
  <2>1. \A g \in Handlers : handler'[g] = IF g = h THEN r ELSE handler[g]
    BY <1>5 DEF CreateSession, IInv, Shape, TypeOK
  <2>2. r.pc = "register" /\ r.session = s /\ r.browser = handler[h].browser
    BY DEF IInv, Shape, TypeOK, Request
  <2>3. /\ Busy(h) /\ handler[h].pc = "create" /\ handler[h].browser \in Browsers
        /\ UNCHANGED <<refreshKeys, raced, jar>> /\ sessionKeys' = sessionKeys \cup {s}
    BY <1>5 DEF CreateSession, Busy, IInv, Shape, TypeOK
  <2>4. /\ \A b \in Browsers : jar[b].session # s /\ jar[b].refresh.session # s
        /\ \A g \in Handlers : handler[g].session # s
    BY <1>5, SessionsAssumption DEF CreateSession, IInv, Shape, KnownIds, Known
  <2> HIDE DEF r
  <2>5. OwnerInv'
    <3>1. \A b \in Browsers, z \in Sessions : Holds(b, z)' =>
              Holds(b, z) \/ (z = s /\ b = handler[h].browser)
      BY <2>1, <2>2, <2>3 DEF Holds, Busy
    <3>2. \A b \in Browsers : ~ Holds(b, s)
      BY <2>4 DEF Holds
    <3>3. QED
      BY <3>1, <3>2 DEF Cookies, OwnerInv
  <2>6. FreshInv'
    BY <2>1, <2>2, <2>3, <2>4 DEF Cookies, FreshInv, Busy
  <2>7. StoredInv'
    BY <2>1, <2>2, <2>3, <2>4 DEF Cookies, StoredInv
  <2>8. CookieInv'
    <3>1. \A z : z # s => (Settled(z)' => Settled(z))
      BY <2>1, <2>2, <2>3 DEF Settled, Changing
    <3>2. QED
      BY <2>3, <2>4, <3>1 DEF Cookies, CookieInv
  <2>9. QED
    BY <2>5, <2>6, <2>7, <2>8 DEF Cookies
<1>6. ASSUME NEW h \in Handlers, RegisterSession(h) PROVE Cookies'
  <2> DEFINE r == [handler[h] EXCEPT !.pc = "store"]
  <2>1. handler' = [handler EXCEPT ![h] = r]
    BY <1>6 DEF RegisterSession, Goto
  <2>2. r.pc = "store" /\ r.session = handler[h].session /\ r.browser = handler[h].browser
    BY DEF IInv, Shape, TypeOK, Request
  <2>3. /\ Busy(h) /\ handler[h].pc = "register"
        /\ UNCHANGED <<refreshKeys, raced, jar, sessionKeys>>
    BY <1>6 DEF RegisterSession, Busy, historyVars
  <2> HIDE DEF r
  <2>4. QED
    BY <2>1, <2>2, <2>3, CookiesGoOn DEF Creating, Changing
<1>7. ASSUME NEW h \in Handlers, NEW pc \in {"signedIn", "refreshed"}, StoreToken(h, pc),
             \/ handler[h].pc = "store" /\ pc = "signedIn"
             \/ handler[h].pc = "rotate" /\ pc = "refreshed"
      PROVE  Cookies'
  <2> DEFINE r == [handler[h] EXCEPT !.pc = pc, !.second = second]
  <2>1. handler' = [handler EXCEPT ![h] = r]
    BY <1>7 DEF StoreToken
  <2>2. /\ r.pc = pc /\ r.session = handler[h].session /\ r.browser = handler[h].browser
        /\ r.second = second
    BY DEF IInv, Shape, TypeOK, Request
  <2>3. /\ Busy(h) /\ UNCHANGED <<sessionKeys, raced, jar>>
        /\ handler[h].session \in Sessions
        /\ \A s \in Sessions : refreshKeys'[s] = IF s = handler[h].session THEN second ELSE refreshKeys[s]
    BY <1>7 DEF StoreToken, Busy, historyVars, IInv, Shape, TypeOK, SessionNamed
  <2>4. sessionKeys \subseteq Sessions
    BY DEF IInv, Shape, TypeOK
  <2> HIDE DEF r
  <2>5. QED
    BY <1>7, <2>1, <2>2, <2>3, <2>4, CookiesGoOn DEF Creating, Changing
<1>8. ASSUME NEW h \in Handlers, VerifyRefreshToken(h) PROVE Cookies'
  <2> DEFINE k == jar[handler[h].browser]
  <2>1. /\ Busy(h) /\ handler[h].pc = "verify" /\ UNCHANGED <<redisVars, raced>> /\ k \in Jar
        /\ sessionKeys' \subseteq sessionKeys /\ refreshKeys' = refreshKeys
    BY <1>8 DEF VerifyRefreshToken, Busy, historyVars, redisVars, IInv, Shape, TypeOK
  <2>2. CASE handler' = [handler EXCEPT ![h].pc = "revoke", ![h].second = 0] /\ UNCHANGED jar
    <3> DEFINE r == [handler[h] EXCEPT !.pc = "revoke", !.second = 0]
    <3>1. handler' = [handler EXCEPT ![h] = r]
      BY <2>2
    <3>2. r.pc = "revoke" /\ r.session = handler[h].session /\ r.browser = handler[h].browser
      BY DEF IInv, Shape, TypeOK, Request
    <3> HIDE DEF r
    <3>3. r.pc \notin Creating \cup Changing \cup {"signedIn", "refreshed"} /\ handler[h].pc \notin Changing
      BY <2>1, <2>2, <3>1, <3>2 DEF Creating, Changing
    <3>4. QED
      BY <2>1, <2>2, <3>1, <3>2, <3>3, CookiesPlain
  <2>3. CASE handler' = [handler EXCEPT ![h] = Idle]
             /\ jar' = [jar EXCEPT ![handler[h].browser].access = NoSession]
    <3> DEFINE j == [k EXCEPT !.access = NoSession]
    <3>1. jar' = [jar EXCEPT ![handler[h].browser] = j] /\ j.session = k.session /\ j.refresh = k.refresh
      BY <2>1, <2>3 DEF Jar
    <3> HIDE DEF j
    <3>2. QED
      BY <2>1, <2>3, <3>1, CookiesReturn DEF Changing
  <2>4. QED
    BY <1>8, <2>2, <2>3 DEF VerifyRefreshToken
<1>9. ASSUME NEW h \in Handlers, NEW from \in {"revoke", "logoutToken", "resetToken"},
             NEW pc \in {"rotate", "logoutSession", "passwordReset"}, DropToken(h, from, pc)
      PROVE  Cookies'
  <2> DEFINE r == [handler[h] EXCEPT !.pc = pc]
  <2>1. handler' = [handler EXCEPT ![h] = r]
    BY <1>9 DEF DropToken, Goto
  <2>2. r.pc = pc /\ r.session = handler[h].session /\ r.browser = handler[h].browser
    BY DEF IInv, Shape, TypeOK, Request
  <2>3. /\ Busy(h) /\ UNCHANGED <<sessionKeys, raced, jar>>
        /\ \A s \in sessionKeys : s # handler[h].session => refreshKeys'[s] = refreshKeys[s]
    BY <1>9 DEF DropToken, Busy, historyVars, IInv, Shape, TypeOK
  <2> HIDE DEF r
  <2>4. QED
    BY <1>9, <2>1, <2>2, <2>3, CookiesGoOn DEF DropToken, Creating, Changing
<1>10. ASSUME NEW h \in Handlers, DestroySession(h) PROVE Cookies'
  <2> DEFINE r == [handler[h] EXCEPT !.pc = "loggedOut"]
  <2>1. handler' = [handler EXCEPT ![h] = r]
    BY <1>10 DEF DestroySession, Goto
  <2>2. r.pc = "loggedOut" /\ r.session = handler[h].session /\ r.browser = handler[h].browser
    BY DEF IInv, Shape, TypeOK, Request
  <2>3. /\ Busy(h) /\ UNCHANGED <<raced, jar>> /\ sessionKeys' \subseteq sessionKeys
        /\ \A s \in sessionKeys' : refreshKeys'[s] = refreshKeys[s]
    BY <1>10 DEF DestroySession, Busy, IInv, Shape, TypeOK
  <2> HIDE DEF r
  <2>4. QED
    BY <2>1, <2>2, <2>3, CookiesGoOn DEF Creating, Changing
<1>11. ASSUME handler' = handler, raced' = raced, refreshKeys' = refreshKeys, sessionKeys' \subseteq sessionKeys,
              \A b \in Browsers : jar'[b].session = jar[b].session /\ jar'[b].refresh = jar[b].refresh
       PROVE  Cookies'
  <2>1. OwnerInv' /\ FreshInv'
    BY <1>11 DEF Cookies, OwnerInv, Holds, FreshInv, Busy
  <2>2. StoredInv' /\ CookieInv'
    BY <1>11 DEF Cookies, StoredInv, CookieInv, Settled
  <2>3. QED
    BY <2>1, <2>2 DEF Cookies
<1>12. CASE (\E s \in Sessions : SessionExpires(s)) \/ Tick \/ UNCHANGED vars
  BY <1>11, <1>12 DEF SessionExpires, Tick, vars, redisVars, historyVars
<1>13. ASSUME NEW b \in Browsers, Reload(b) PROVE Cookies'
  <2>1. \A c \in Browsers : jar'[c].session = jar[c].session /\ jar'[c].refresh = jar[c].refresh
    <3>1. \A c \in Browsers : LET j == [jar[c] EXCEPT !.access = NoSession] IN
              j.session = jar[c].session /\ j.refresh = jar[c].refresh
      BY DEF IInv, Shape, TypeOK, Jar
    <3>2. QED
      BY <1>13, <3>1 DEF Reload, IInv, Shape, TypeOK
  <2>2. QED
    BY <1>11, <1>13, <2>1 DEF Reload, redisVars, historyVars
<1>14. QED
  BY <1>1, <1>2, <1>3, <1>4, <1>5, <1>6, <1>7, <1>8, <1>9, <1>10, <1>12, <1>13, CookiesReturns
     DEF Next, StartRefresh, StartLogout, StartReset, GenerateToken, RotateRefreshToken,
         RevokeRefreshToken, LogoutToken, ResetToken

-----------------------------------------------------------------------------
(* The theorems.                                                           *)

\* IInv holds initially and is kept by every step.
THEOREM Inductive == Spec => []IInv
<1>1. IInv /\ [Next]_vars => IInv'
  BY StepShape, StepRest DEF IInv
<1>2. QED
  BY InitInv, <1>1, PTL DEF Spec

\* Keys, cookies and requests keep their shape, and name created sessions only.
THEOREM TypeCorrect == Spec => []TypeOK
<1>1. IInv => TypeOK
  BY DEF IInv, Shape
<1>2. QED
  BY Inductive, <1>1, PTL

\* A user has one session in force, unless sign-ins overlapped (setupUserSession).
THEOREM OneAtATime == Spec => []OneSession
<1>1. IInv => OneSession
  BY DEF IInv, Rest, OverlapInv, OneSession
<1>2. QED
  BY Inductive, <1>1, PTL

\* A session that was signed out of never comes back (destroySession,
\* revokeUserSessions), whatever refresh runs beside them.
THEOREM OutForGood == Spec => []SignedOutForGood
<1>1. IInv => SignedOutForGood
  BY DEF IInv, Rest, EndedInv, SignedOutForGood, InForce
<1>2. QED
  BY Inductive, <1>1, PTL

\* No refresh token of an ended session is left, unless requests raced on it.
THEOREM TokensGone == Spec => []NoTokenLeft
<1>1. IInv => NoTokenLeft
  BY DEF IInv, Rest, TokenInv, NoTokenLeft
<1>2. QED
  BY Inductive, <1>1, PTL

\* The refresh cookie of a session in force is the token Redis has for it,
\* unless requests raced on the session (refreshToken, rotateRefreshToken).
THEOREM CookieWorks == Spec => []RefreshCookieWorks
<1>1. Cookies /\ IInv => RefreshCookieWorks
  BY DEF Cookies, CookieInv, Settled, RefreshCookieWorks, Untouched, WorksOn, Busy, Changing, InForce
<1>2. IInv /\ IInv' /\ Cookies /\ [Next]_vars => Cookies'
  BY CookiesStep
<1>3. Spec => []Cookies
  BY Inductive, CookiesInit, <1>2, PTL DEF Spec
<1>4. QED
  BY Inductive, <1>1, <1>3, PTL

-----------------------------------------------------------------------------
(* The page's side: module AuthClient, for any burst of calls.             *)

CONSTANT Requests
VARIABLES auth, token, session, mount, request, isRefreshing, failedQueue, logout, bearer

Client == INSTANCE AuthClient

Call == [pc : {"idle", "sent", "queued", "refreshing", "done", "rejected"},
         retry : BOOLEAN, bearer : {"none", "good", "stale"}]

\* The part about the calls, with QueueIsServed spelled out.
CallsInv ==
    /\ request \in [Requests -> Call]
    /\ isRefreshing \in BOOLEAN
    /\ failedQueue = {q \in Requests : request[q].pc = "queued"}
    /\ \A p, q \in Requests : request[p].pc = "refreshing" /\ request[q].pc = "refreshing" => p = q
    /\ isRefreshing <=> \E q \in Requests : request[q].pc = "refreshing"
    /\ failedQueue # {} => isRefreshing

PageInv ==
    /\ auth \in {"loading", "in", "out"}
    /\ token \in Client!Bearers /\ bearer \in Client!Bearers
    /\ session \in BOOLEAN /\ mount \in BOOLEAN
    /\ logout \in {"none", "first", "refresh", "second"}

ClientInv == CallsInv /\ PageInv

LEMMA ClientInvGives == ClientInv => Client!TypeOK /\ Client!QueueIsServed
BY DEF ClientInv, CallsInv, PageInv, Client!TypeOK, Client!QueueIsServed, Client!Bearers, Call

LEMMA ClientInit == Client!Init => ClientInv
<1> SUFFICES ASSUME Client!Init PROVE ClientInv
  OBVIOUS
<1>1. Client!Idle \in Call /\ Client!Idle.pc = "idle"
  BY DEF Client!Idle, Call
<1>2. QED
  BY <1>1 DEF Client!Init, ClientInv, CallsInv, PageInv, Client!Bearers

\* One call changes: it neither queues nor refreshes, before or after.
LEMMA OneCall ==
    ASSUME CallsInv, NEW q \in Requests, NEW r \in Call,
           request[q].pc \in {"idle", "sent"}, r.pc \in {"sent", "done", "rejected"},
           request' = [request EXCEPT ![q] = r], UNCHANGED <<isRefreshing, failedQueue>>
    PROVE  CallsInv'
<1>1. /\ request' \in [Requests -> Call]
      /\ \A p \in Requests : request'[p] = IF p = q THEN r ELSE request[p]
  BY DEF CallsInv
<1>2. QED
  BY <1>1 DEF CallsInv

LEMMA SendKeeps == ASSUME ClientInv, NEW q \in Requests, Client!Send(q) PROVE ClientInv'
<1> DEFINE r == [request[q] EXCEPT !.pc = "sent", !.bearer = token]
<1>1. request[q] \in Call /\ token \in {"none", "good", "stale"}
  BY DEF ClientInv, CallsInv, PageInv, Client!Bearers
<1>2. r \in Call /\ r.pc = "sent"
  BY <1>1 DEF Call
<1>3. request' = [request EXCEPT ![q] = r]
  BY DEF Client!Send, Client!Sent
<1> HIDE DEF r
<1>4. CallsInv'
  BY <1>2, <1>3, OneCall DEF Client!Send, ClientInv
<1>5. QED
  BY <1>4 DEF Client!Send, Client!pageVars, Client!logoutVars, ClientInv, PageInv

LEMMA SettleKeeps == ASSUME ClientInv, NEW q \in Requests, NEW pc \in {"done", "rejected"}, Client!Settle(q, pc) PROVE ClientInv'
<1> DEFINE r == [request[q] EXCEPT !.pc = pc]
<1>1. r \in Call /\ r.pc = pc
  BY DEF ClientInv, CallsInv, Call
<1>2. request' = [request EXCEPT ![q] = r]
  BY DEF Client!Settle
<1> HIDE DEF r
<1>3. CallsInv'
  BY <1>1, <1>2, OneCall DEF Client!Settle, ClientInv
<1>4. QED
  BY <1>3 DEF Client!Settle, Client!pageVars, Client!logoutVars, ClientInv, PageInv

LEMMA RefusedKeeps == ASSUME ClientInv, NEW q \in Requests, Client!Refused(q) PROVE ClientInv'
<1>1. CallsInv'
  <2>1. CASE request[q].retry /\ request' = [request EXCEPT ![q].pc = "rejected"]
             /\ UNCHANGED <<isRefreshing, failedQueue>>
    <3> DEFINE r == [request[q] EXCEPT !.pc = "rejected"]
    <3>1. r \in Call /\ r.pc = "rejected"
      BY DEF ClientInv, CallsInv, Call
    <3>2. request' = [request EXCEPT ![q] = r]
      BY <2>1
    <3> HIDE DEF r
    <3>3. QED
      BY <2>1, <3>1, <3>2, OneCall DEF Client!Refused, ClientInv
  <2>2. CASE Client!Queues(q)
    <3> DEFINE r == [request[q] EXCEPT !.pc = "queued"]
    <3>1. r \in Call /\ r.pc = "queued"
      BY DEF ClientInv, CallsInv, Call
    <3>2. request' = [request EXCEPT ![q] = r]
      BY <2>2 DEF Client!Queues
    <3> HIDE DEF r
    <3>3. /\ request' \in [Requests -> Call]
          /\ \A p \in Requests : request'[p] = IF p = q THEN r ELSE request[p]
      BY <3>1, <3>2 DEF ClientInv, CallsInv
    <3>4. isRefreshing /\ isRefreshing' = isRefreshing /\ failedQueue' = failedQueue \cup {q}
          /\ request[q].pc = "sent"
      BY <2>2 DEF Client!Refused, Client!Queues
    <3>5. QED
      BY <3>1, <3>3, <3>4 DEF ClientInv, CallsInv
  <2>3. CASE Client!StartsRefresh(q)
    <3> DEFINE r == [request[q] EXCEPT !.pc = "refreshing", !.retry = TRUE]
    <3>1. r \in Call /\ r.pc = "refreshing"
      BY DEF ClientInv, CallsInv, Call
    <3>2. request' = [request EXCEPT ![q] = r]
      BY <2>3 DEF Client!StartsRefresh
    <3> HIDE DEF r
    <3>3. /\ request' \in [Requests -> Call]
          /\ \A p \in Requests : request'[p] = IF p = q THEN r ELSE request[p]
      BY <3>1, <3>2 DEF ClientInv, CallsInv
    <3>4. ~ isRefreshing /\ isRefreshing' = TRUE /\ failedQueue' = failedQueue /\ request[q].pc = "sent"
      BY <2>3 DEF Client!Refused, Client!StartsRefresh
    <3>5. QED
      BY <3>1, <3>3, <3>4 DEF ClientInv, CallsInv
  <2>4. QED
    BY <2>1, <2>2, <2>3 DEF Client!Refused
<1>2. QED
  BY <1>1 DEF Client!Refused, Client!pageVars, Client!logoutVars, ClientInv, PageInv

\* The refresh ends: its call and every queued one become new(call), at pc.
LEMMA RefreshEnds ==
    ASSUME CallsInv, NEW q \in Requests, request[q].pc = "refreshing",
           NEW pc \in {"sent", "rejected"}, request' \in [Requests -> Call],
           \A r \in Requests : IF r = q \/ r \in failedQueue THEN request'[r].pc = pc
                               ELSE request'[r] = request[r],
           failedQueue' = {}, isRefreshing' = FALSE
    PROVE  CallsInv'
BY DEF CallsInv

LEMMA RefreshSucceedsKeeps == ASSUME ClientInv, NEW q \in Requests, Client!RefreshSucceeds(q) PROVE ClientInv'
<1>1. \A r \in Requests : LET s == Client!Sent(r, "good") IN s \in Call /\ s.pc = "sent"
  BY DEF ClientInv, CallsInv, Call, Client!Sent
<1>2. /\ request' \in [Requests -> Call]
      /\ \A r \in Requests : IF r = q \/ r \in failedQueue THEN request'[r].pc = "sent"
                             ELSE request'[r] = request[r]
  BY <1>1 DEF Client!RefreshSucceeds, Client!Resend, ClientInv, CallsInv
<1>3. CallsInv'
  BY <1>2, RefreshEnds DEF Client!RefreshSucceeds, Client!Resend, ClientInv
<1>4. QED
  BY <1>3 DEF Client!RefreshSucceeds, Client!logoutVars, ClientInv, PageInv, Client!Bearers

LEMMA RefreshFailsKeeps == ASSUME ClientInv, NEW q \in Requests, Client!RefreshFails(q) PROVE ClientInv'
<1>1. \A r \in Requests : LET s == [request[r] EXCEPT !.pc = "rejected"] IN s \in Call /\ s.pc = "rejected"
  BY DEF ClientInv, CallsInv, Call
<1>2. /\ request' \in [Requests -> Call]
      /\ \A r \in Requests : IF r = q \/ r \in failedQueue THEN request'[r].pc = "rejected"
                             ELSE request'[r] = request[r]
  BY <1>1 DEF Client!RefreshFails, Client!RejectAll, ClientInv, CallsInv
<1>3. CallsInv'
  BY <1>2, RefreshEnds DEF Client!RefreshFails, Client!RejectAll, ClientInv
<1>4. QED
  BY <1>3 DEF Client!RefreshFails, Client!logoutVars, ClientInv, PageInv, Client!Bearers

LEMMA TokenExpiresKeeps == ASSUME ClientInv, Client!TokenExpires PROVE ClientInv'
<1>1. \A q \in Requests : LET s == [request[q] EXCEPT !.bearer = Client!Aged(@)] IN
          s \in Call /\ s.pc = request[q].pc
  BY DEF ClientInv, CallsInv, Call, Client!Aged
<1>2. request' \in [Requests -> Call] /\ \A q \in Requests : request'[q].pc = request[q].pc
  BY <1>1 DEF Client!TokenExpires
<1>3. CallsInv'
  BY <1>2 DEF Client!TokenExpires, ClientInv, CallsInv
<1>4. QED
  BY <1>3 DEF Client!TokenExpires, ClientInv, PageInv, Client!Bearers, Client!Aged

\* What changes nothing about the calls.
LEMMA OtherKeeps ==
    ASSUME ClientInv, Client!MountSettles \/ Client!CheckAuthentication \/ Client!EstablishSession \/ Client!StartLogout \/ Client!LogoutStep \/ Client!SessionEnds \/ UNCHANGED Client!vars
    PROVE  ClientInv'
<1>1. UNCHANGED Client!callVars
  BY DEF Client!MountSettles, Client!MountAnswered, Client!CheckAuthentication, Client!EstablishSession, Client!StartLogout, Client!LogoutStep, Client!LoggedOut, Client!LogoutRefused,
     Client!LogoutAgain, Client!LogoutGivesUp, Client!SessionEnds, Client!vars
<1>2. CallsInv'
  BY <1>1 DEF Client!callVars, ClientInv, CallsInv
<1>3. PageInv'
  BY DEF Client!MountSettles, Client!MountAnswered, Client!CheckAuthentication, Client!EstablishSession, Client!StartLogout, Client!LogoutStep, Client!LoggedOut, Client!LogoutRefused,
     Client!LogoutAgain, Client!LogoutGivesUp, Client!EndLogout, Client!SessionEnds, Client!vars, Client!pageVars, Client!logoutVars, ClientInv, PageInv, Client!Bearers
<1>4. QED
  BY <1>2, <1>3 DEF ClientInv

-----------------------------------------------------------------------------
(* The theorems.                                                           *)

\* ClientInv holds initially and is kept by every step.
THEOREM ClientInductive == Client!Spec => []ClientInv
<1>1. ClientInv /\ [Client!Next]_Client!vars => ClientInv'
  BY SendKeeps, SettleKeeps, RefusedKeeps, RefreshSucceedsKeeps, RefreshFailsKeeps, TokenExpiresKeeps,
     OtherKeeps DEF Client!Next, Client!CallStep, Client!Succeeds, Client!Fails
<1>2. QED
  BY ClientInit, <1>1, PTL DEF Client!Spec

\* The page's state keeps its shape, and failedQueue holds the calls that wait.
THEOREM ClientTypeCorrect == Client!Spec => []Client!TypeOK
BY ClientInductive, ClientInvGives, PTL

\* failedQueue never waits without the one refresh that will empty it
\* (isRefreshing, processQueue).
THEOREM ClientQueueServed == Client!Spec => []Client!QueueIsServed
BY ClientInductive, ClientInvGives, PTL
=============================================================================
