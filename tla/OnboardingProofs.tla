--------------------------- MODULE OnboardingProofs ---------------------------
(***************************************************************************)
(* Proofs about Onboarding, for any number of overlapping account requests,*)
(* applications, images, links and codes.                                  *)
(***************************************************************************)
EXTENDS Onboarding, TLAPS

-----------------------------------------------------------------------------
(* The inductive invariant.                                                *)

Steps == {"idle", "storeLink", "createAccount", "dropLink", "createGoogle", "linkGoogle",
          "updatePassword", "dropReset", "storeCode", "mailCode", "deleteCode"}
Places == {"idle", "upload", "uploadFailed", "created", "rollback", "rollbackStored",
           "undone", "refused", "leftover", "died"}

\* Account requests know links and codes that were sent only.
AccountInv ==
    /\ account \subseteq {"password", "google"}
    /\ links \in 0 .. MaxLinks /\ liveLinks \subseteq 1 .. links
    /\ pending \in BOOLEAN /\ resetToken \in BOOLEAN
    /\ handler \in [Handlers -> [pc : Steps, of : Nat]]
    /\ \A h \in Handlers : handler[h].pc = "createAccount" => handler[h].of \in 1 .. links

CodeType ==
    /\ codes \in 0 .. MaxCodes /\ code \in 0 .. codes /\ mailed \in 0 .. codes
    /\ unclear \in BOOLEAN
    /\ \A h \in Handlers : handler[h].pc = "mailCode" => handler[h].of \in 0 .. codes

\* Unless unclear tells otherwise one request at a time is about codes; the code
\* in Redis is the one it is going to mail, or the one that was mailed last.
CodeInv ==
    ~unclear =>
        /\ \A g, h \in Handlers : AboutCodes(g) /\ AboutCodes(h) => g = h
        /\ \A h \in Handlers : handler[h].pc = "mailCode" /\ code # 0 => code = handler[h].of
        /\ Alone /\ code # 0 => code = mailed

\* Where an application is says what became of its images, and whether it may
\* be the one the Driver document was created from.
PlaceInv(a) ==
    /\ application[a] = "idle" => images[a] \cup uploading[a] = {}
    /\ application[a] = "upload" => images[a] \cup uploading[a] = Images
    /\ application[a] \in {"rollback", "rollbackStored", "undone", "created", "refused"} => uploading[a] = {}
    /\ application[a] \in {"created", "rollbackStored"} => driver = a /\ images[a] = Images
    /\ application[a] = "undone" => driver = a
    /\ application[a] = "refused" => images[a] = {}
    /\ driver = a => application[a] \in {"created", "rollbackStored", "undone"}
    /\ images[a] \cap uploading[a] = {}

DriverInv ==
    /\ plateTaken \in BOOLEAN
    /\ driver \in Applications \cup {NoApplication}
    /\ application \in [Applications -> Places]
    /\ uploading \in [Applications -> SUBSET Images]
    /\ images \in [Applications -> SUBSET Images]
    /\ \A a \in Applications : PlaceInv(a)

IInv == AccountInv /\ CodeType /\ CodeInv /\ DriverInv

LEMMA InitInv == Init => IInv
<1> SUFFICES ASSUME Init PROVE IInv OBVIOUS
<1>0. \A h \in Handlers : handler[h] = Idle BY DEF Init
<1>1. AccountInv
  <2>1. pending \in BOOLEAN /\ resetToken \in BOOLEAN BY Zenon DEF Init
  <2>2. handler \in [Handlers -> [pc : Steps, of : Nat]] BY DEF Init, Steps, Idle
  <2>3. account \subseteq {"password", "google"} /\ links \in 0 .. MaxLinks /\ liveLinks \subseteq 1 .. links
    BY OnboardingAssumption DEF Init
  <2> QED BY <1>0, <2>1, <2>2, <2>3 DEF AccountInv, Idle
<1>2. CodeType
  <2>1. unclear \in BOOLEAN BY Zenon DEF Init
  <2>2. codes \in 0 .. MaxCodes /\ code \in 0 .. codes /\ mailed \in 0 .. codes
    BY OnboardingAssumption DEF Init
  <2> QED BY <1>0, <2>1, <2>2 DEF CodeType, Idle
<1>3. CodeInv BY DEF Init, CodeInv, AboutCodes, Alone, Idle
<1>4. DriverInv BY OnboardingAssumption DEF Init, DriverInv, PlaceInv, Places
<1> QED BY <1>1, <1>2, <1>3, <1>4 DEF IInv

-----------------------------------------------------------------------------
(* Account requests.                                                       *)

\* A step of request h leaves the others where they are.
Moves(h, r) ==
    /\ handler' \in [Handlers -> [pc : Steps, of : Nat]]
    /\ handler'[h] = r
    /\ \A g \in Handlers : g # h => handler'[g] = handler[g]

LEMMA BeginsMoves ==
  ASSUME AccountInv, NEW h \in Handlers, NEW pc \in Steps, NEW of \in Nat, Begins(h, pc, of)
  PROVE  Moves(h, [pc |-> pc, of |-> of]) /\ handler[h].pc = "idle"
BY DEF AccountInv, Begins, Moves, Idle

LEMMA EndsMoves ==
  ASSUME AccountInv, NEW h \in Handlers, Ends(h)
  PROVE  Moves(h, Idle)
BY DEF AccountInv, Ends, Moves, Idle, Steps

\* A step that is not about codes leaves what is known of them.
LEMMA CodesGoOn ==
  ASSUME CodeType, CodeInv, NEW h \in Handlers, NEW r, Moves(h, r), UNCHANGED codeVars,
         ~ AboutCodes(h), r.pc \notin {"storeCode", "mailCode", "deleteCode"}
  PROVE  CodeType' /\ CodeInv'
<1>1. CodeType' BY DEF CodeType, Moves, codeVars
<1>2. \A g \in Handlers : AboutCodes(g)' <=> AboutCodes(g) BY DEF AboutCodes, Moves
<1>3. \A g \in Handlers : handler'[g].pc = "mailCode" => handler'[g] = handler[g] BY DEF Moves
<1>4. CodeInv' BY <1>2, <1>3 DEF CodeInv, Alone, codeVars
<1> QED BY <1>1, <1>4

\* A step that changes neither requests nor applications, and of the codes at
\* most that one expires.
LEMMA CodesExpire ==
  ASSUME CodeType, CodeInv, UNCHANGED <<codes, mailed, unclear, handler>>, code' \in {0, code}
  PROVE  CodeType' /\ CodeInv'
<1>1. CodeType' BY DEF CodeType
<1>2. CodeInv' BY DEF CodeInv, Alone, AboutCodes
<1> QED BY <1>1, <1>2

LEMMA DriverGoesOn == ASSUME DriverInv, UNCHANGED driverVars PROVE DriverInv'
BY DEF DriverInv, PlaceInv, driverVars

\* The requests that sign up, use Google or reset a password.
SignUpStep(h) ==
    \/ UserRegistration(h) \/ ResendVerificationEmail(h) \/ StoreLink(h)
    \/ \E link \in liveLinks : VerifyEmail(h, link)
    \/ CreateAccount(h) \/ DropLink(h)
    \/ GoogleAuth(h) \/ CreateGoogleAccount(h) \/ LinkGoogle(h)
    \/ ResetPassword(h) \/ UpdatePassword(h) \/ DropReset(h)

LEMMA SignUpMoves ==
  ASSUME AccountInv, NEW h \in Handlers, SignUpStep(h)
  PROVE  /\ UNCHANGED codeVars /\ UNCHANGED driverVars
         /\ account \subseteq account'
         /\ AccountInv'
         /\ Moves(h, handler'[h])
         /\ ~ AboutCodes(h) /\ handler'[h].pc \notin {"storeCode", "mailCode", "deleteCode"}
<1> USE DEF Steps
<1>1. CASE UserRegistration(h) \/ ResendVerificationEmail(h)
  <2>1. Begins(h, "storeLink", 0) BY <1>1 DEF UserRegistration, ResendVerificationEmail
  <2>2. Moves(h, [pc |-> "storeLink", of |-> 0]) /\ handler[h].pc = "idle" BY <2>1, BeginsMoves
  <2>3. UNCHANGED <<accountVars, codeVars, driverVars>>
    BY <1>1 DEF UserRegistration, ResendVerificationEmail
  <2>4. AccountInv' BY <2>2, <2>3 DEF accountVars, AccountInv, Moves
  <2> QED BY <2>2, <2>3, <2>4 DEF accountVars, AboutCodes, Moves
<1>2. CASE StoreLink(h)
  <2>1. Moves(h, Idle) BY <1>2, EndsMoves DEF StoreLink
  <2>2. links' \in 0 .. MaxLinks /\ liveLinks' \subseteq 1 .. links'
    BY <1>2, OnboardingAssumption DEF StoreLink, AccountInv
  <2>3. \A g \in Handlers : handler'[g].pc = "createAccount" => handler'[g].of \in 1 .. links'
    BY <1>2, <2>1, OnboardingAssumption DEF StoreLink, AccountInv, Moves, Idle
  <2> QED BY <1>2, <2>1, <2>2, <2>3 DEF StoreLink, AccountInv, AboutCodes, Moves, Idle
<1>3. CASE \E link \in liveLinks : VerifyEmail(h, link)
  <2>1. PICK link \in liveLinks : VerifyEmail(h, link) BY <1>3
  <2>2. link \in 1 .. links /\ link \in Nat BY DEF AccountInv
  <2>3. Moves(h, [pc |-> "createAccount", of |-> link]) /\ handler[h].pc = "idle"
    BY <2>1, <2>2, BeginsMoves DEF VerifyEmail
  <2> QED BY <2>1, <2>2, <2>3 DEF VerifyEmail, accountVars, AccountInv, AboutCodes, Moves
<1>4. CASE CreateAccount(h)
  <2>1. CASE account = {} /\ account' = {"password"}
             /\ handler' = [handler EXCEPT ![h].pc = "dropLink"]
    <3>1. Moves(h, [pc |-> "dropLink", of |-> handler[h].of]) BY <2>1 DEF AccountInv, Moves
    <3> QED BY <1>4, <2>1, <3>1 DEF CreateAccount, AccountInv, AboutCodes, Moves
  <2>2. CASE account # {} /\ UNCHANGED account /\ Ends(h)
    <3>1. Moves(h, Idle) BY <2>2, EndsMoves
    <3> QED BY <1>4, <2>2, <3>1 DEF CreateAccount, AccountInv, AboutCodes, Moves, Idle
  <2> QED BY <1>4, <2>1, <2>2 DEF CreateAccount
<1>5. CASE DropLink(h) \/ CreateGoogleAccount(h) \/ LinkGoogle(h) \/ DropReset(h)
  <2>1. Moves(h, Idle) BY <1>5, EndsMoves DEF DropLink, CreateGoogleAccount, LinkGoogle, DropReset
  <2>2. ~ AboutCodes(h)
    BY <1>5 DEF AboutCodes, DropLink, CreateGoogleAccount, LinkGoogle, DropReset
  <2>3. AccountInv' /\ account \subseteq account'
    <3>0. pending' \in BOOLEAN /\ resetToken' \in BOOLEAN
      BY <1>5, Zenon DEF DropLink, CreateGoogleAccount, LinkGoogle, DropReset, AccountInv
    <3>1. CASE DropLink(h)
      <4>1. UNCHANGED <<account, links>> /\ liveLinks' \subseteq liveLinks BY <3>1 DEF DropLink
      <4>2. \A g \in Handlers : handler'[g].pc = "createAccount" => handler'[g] = handler[g]
        BY <2>1 DEF Moves, Idle
      <4> QED BY <2>1, <3>0, <4>1, <4>2 DEF AccountInv, Moves
    <3>2. CASE CreateGoogleAccount(h) BY <2>1, <3>2 DEF CreateGoogleAccount, AccountInv, Moves, Idle
    <3>3. CASE LinkGoogle(h) BY <2>1, <3>3 DEF LinkGoogle, AccountInv, Moves, Idle
    <3>4. CASE DropReset(h) BY <2>1, <3>0, <3>4 DEF DropReset, AccountInv, Moves, Idle
    <3> QED BY <1>5, <3>1, <3>2, <3>3, <3>4
  <2>4. UNCHANGED codeVars /\ UNCHANGED driverVars
    BY <1>5 DEF DropLink, CreateGoogleAccount, LinkGoogle, DropReset
  <2> QED BY <2>1, <2>2, <2>3, <2>4 DEF Moves, Idle
<1>6. CASE GoogleAuth(h) \/ ResetPassword(h)
  <2>1. PICK pc \in {"createGoogle", "linkGoogle", "updatePassword"} : Begins(h, pc, 0)
    BY <1>6 DEF GoogleAuth, ResetPassword
  <2>2. Moves(h, [pc |-> pc, of |-> 0]) /\ handler[h].pc = "idle" BY <2>1, BeginsMoves
  <2>3. UNCHANGED <<accountVars, codeVars, driverVars>> BY <1>6 DEF GoogleAuth, ResetPassword
  <2>4. AccountInv' BY <2>2, <2>3 DEF accountVars, AccountInv, Moves
  <2> QED BY <2>2, <2>3, <2>4 DEF accountVars, AboutCodes, Moves
<1>7. CASE UpdatePassword(h)
  <2>1. Moves(h, [pc |-> "dropReset", of |-> handler[h].of]) BY <1>7 DEF UpdatePassword, AccountInv, Moves
  <2>2. pending' \in BOOLEAN /\ resetToken' \in BOOLEAN BY <1>7, Zenon DEF UpdatePassword, AccountInv
  <2> QED BY <1>7, <2>1, <2>2 DEF UpdatePassword, AccountInv, AboutCodes, Moves
<1> QED BY <1>1, <1>2, <1>3, <1>4, <1>5, <1>6, <1>7 DEF SignUpStep

\* Signing in with a code, and any request that fails.
LEMMA CodeStepInv ==
  ASSUME IInv, NEW h \in Handlers,
         \/ Login(h) \/ StoreCode(h) \/ MailCode(h) \/ VerifyOTP(h) \/ DeleteCode(h)
         \/ RequestFails(h)
  PROVE  AccountInv' /\ CodeType' /\ CodeInv' /\ UNCHANGED account /\ UNCHANGED driverVars
<1> USE DEF Steps, IInv
<1>1. CASE Login(h)
  <2>1. Moves(h, [pc |-> "storeCode", of |-> 0]) /\ handler[h].pc = "idle"
    BY <1>1, BeginsMoves DEF Login
  <2>2. AccountInv' BY <1>1, <2>1 DEF Login, accountVars, AccountInv, Moves
  <2>3. CodeType' BY <1>1, <2>1 DEF Login, CodeType, Moves
  <2>4. CodeInv'
    <3>1. ~ unclear' => Alone BY <1>1, Zenon DEF Login
    <3>2. Alone => \A g \in Handlers \ {h} : ~ AboutCodes(g)' BY <2>1 DEF Alone, AboutCodes, Moves
    <3>3. AboutCodes(h)' /\ handler'[h].pc # "mailCode" BY <2>1 DEF AboutCodes, Moves
    <3>4. \A g \in Handlers : handler'[g].pc = "mailCode" => AboutCodes(g)' BY DEF AboutCodes
    <3> QED BY <3>1, <3>2, <3>3, <3>4 DEF CodeInv, Alone
  <2> QED BY <1>1, <2>2, <2>3, <2>4 DEF Login, accountVars
<1>2. CASE StoreCode(h)
  <2>1. codes' \in 0 .. MaxCodes /\ codes' = codes + 1 /\ codes \in Nat
    BY <1>2, OnboardingAssumption DEF StoreCode, CodeType
  <2>2. Moves(h, [pc |-> "mailCode", of |-> codes'])
    BY <1>2, <2>1, OnboardingAssumption DEF StoreCode, AccountInv, Moves
  <2>3. AccountInv' BY <1>2, <2>2 DEF StoreCode, accountVars, AccountInv, Moves
  <2>4. CodeType' BY <1>2, <2>1, <2>2, OnboardingAssumption DEF StoreCode, CodeType, Moves
  <2>5. AboutCodes(h) /\ AboutCodes(h)' BY <1>2, <2>2 DEF StoreCode, AboutCodes, Moves
  <2>6. CodeInv' BY <1>2, <2>2, <2>5 DEF StoreCode, CodeInv, Moves, AboutCodes, Alone
  <2> QED BY <1>2, <2>3, <2>4, <2>6 DEF StoreCode, accountVars
<1>3. CASE MailCode(h)
  <2>1. Moves(h, Idle) BY <1>3, EndsMoves DEF MailCode
  <2>2. AccountInv' BY <1>3, <2>1 DEF MailCode, accountVars, AccountInv, Moves, Idle
  <2>3. CodeType' BY <1>3, <2>1 DEF MailCode, CodeType, Moves, Idle
  <2>4. CodeInv' BY <1>3, <2>1 DEF MailCode, CodeInv, Moves, AboutCodes, Alone, Idle
  <2> QED BY <1>3, <2>2, <2>3, <2>4 DEF MailCode, accountVars
<1>4. CASE VerifyOTP(h)
  <2>1. Moves(h, [pc |-> "deleteCode", of |-> 0]) /\ handler[h].pc = "idle"
    BY <1>4, BeginsMoves DEF VerifyOTP
  <2>2. AccountInv' BY <1>4, <2>1 DEF VerifyOTP, accountVars, AccountInv, Moves
  <2>3. CodeType' BY <1>4, <2>1 DEF VerifyOTP, CodeType, Moves
  <2>4. CodeInv'
    <3>1. ~ unclear' => Alone BY <1>4, Zenon DEF VerifyOTP
    <3>2. Alone => \A g \in Handlers \ {h} : ~ AboutCodes(g)' BY <2>1 DEF Alone, AboutCodes, Moves
    <3>3. AboutCodes(h)' /\ handler'[h].pc # "mailCode" BY <2>1 DEF AboutCodes, Moves
    <3>4. \A g \in Handlers : handler'[g].pc = "mailCode" => AboutCodes(g)' BY DEF AboutCodes
    <3> QED BY <3>1, <3>2, <3>3, <3>4 DEF CodeInv, Alone
  <2> QED BY <1>4, <2>2, <2>3, <2>4 DEF VerifyOTP, accountVars
<1>5. CASE DeleteCode(h)
  <2>1. Moves(h, Idle) BY <1>5, EndsMoves DEF DeleteCode
  <2>2. AccountInv' BY <1>5, <2>1 DEF DeleteCode, accountVars, AccountInv, Moves, Idle
  <2>3. CodeType' BY <1>5, <2>1 DEF DeleteCode, CodeType, Moves, Idle
  <2>4. CodeInv' BY <1>5, <2>1 DEF DeleteCode, CodeInv, Moves, AboutCodes, Alone, Idle
  <2> QED BY <1>5, <2>2, <2>3, <2>4 DEF DeleteCode, accountVars
<1>6. CASE RequestFails(h)
  <2>1. Moves(h, Idle) BY <1>6, EndsMoves DEF RequestFails
  <2>2. AccountInv' BY <1>6, <2>1 DEF RequestFails, accountVars, AccountInv, Moves, Idle
  <2>3. CodeType' BY <1>6, <2>1 DEF RequestFails, CodeType, Moves, Idle, AboutCodes
  <2>4. CodeInv'
    <3>1. ~ unclear' => ~ unclear /\ ~ AboutCodes(h) BY <1>6, Zenon DEF RequestFails
    <3>2. \A g \in Handlers : AboutCodes(g)' => AboutCodes(g) /\ handler'[g] = handler[g]
      BY <2>1 DEF AboutCodes, Moves, Idle
    <3>3. \A g \in Handlers : handler'[g].pc = "mailCode" => AboutCodes(g)' BY DEF AboutCodes
    <3>4. ~ AboutCodes(h) => (Alone' => Alone) BY <2>1 DEF Alone, AboutCodes, Moves
    <3>5. UNCHANGED <<code, mailed>> BY <1>6 DEF RequestFails
    <3> QED BY <3>1, <3>2, <3>3, <3>4, <3>5 DEF CodeInv
  <2> QED BY <1>6, <2>2, <2>3, <2>4 DEF RequestFails, accountVars
<1> QED BY <1>1, <1>2, <1>3, <1>4, <1>5, <1>6

\* A step of an account request keeps the ways to sign in, and the invariant.
LEMMA AccountStepInv ==
  ASSUME IInv, NEW h \in Handlers, AccountStep(h)
  PROVE  IInv' /\ account \subseteq account'
<1>1. CASE SignUpStep(h)
  <2>1. CodeType' /\ CodeInv' BY <1>1, SignUpMoves, CodesGoOn DEF IInv
  <2> QED BY <1>1, <2>1, SignUpMoves, DriverGoesOn DEF IInv
<1>2. CASE \/ Login(h) \/ StoreCode(h) \/ MailCode(h) \/ VerifyOTP(h) \/ DeleteCode(h)
           \/ RequestFails(h)
  BY <1>2, CodeStepInv, DriverGoesOn DEF IInv
<1> QED BY <1>1, <1>2 DEF AccountStep, SignUpStep

-----------------------------------------------------------------------------
(* Applications.                                                           *)

\* A step of application a changes the Driver document, if at all, from none
\* to a, and leaves the other applications where they are.
LEMMA ApplicationMoves ==
  ASSUME DriverInv, NEW a \in Applications, PlaceInv(a)',
         plateTaken' \in BOOLEAN,
         driver' = driver \/ (driver = NoApplication /\ driver' = a),
         application' \in [Applications -> Places],
         uploading' \in [Applications -> SUBSET Images],
         images' \in [Applications -> SUBSET Images],
         \A b \in Applications \ {a} :
            application'[b] = application[b] /\ uploading'[b] = uploading[b] /\ images'[b] = images[b]
  PROVE  DriverInv'
<1>1. driver' \in Applications \cup {NoApplication} BY DEF DriverInv
<1>2. ASSUME NEW b \in Applications \ {a} PROVE PlaceInv(b)'
  <2>1. PlaceInv(b) /\ application'[b] = application[b] /\ uploading'[b] = uploading[b]
        /\ images'[b] = images[b]
    BY <1>2 DEF DriverInv
  <2>2. driver' = b <=> driver = b BY <1>2, OnboardingAssumption
  <2> QED BY <2>1, <2>2 DEF PlaceInv
<1> QED BY <1>1, <1>2 DEF DriverInv

LEMMA ApplicationStepInv ==
  ASSUME DriverInv, NEW a \in Applications, ApplicationStep(a)
  PROVE  DriverInv' /\ UNCHANGED <<accountVars, codeVars, handler>>
<1> USE DEF Places
<1>0. PlaceInv(a) /\ driver \in Applications \cup {NoApplication} /\ plateTaken \in BOOLEAN
      /\ application \in [Applications -> Places]
      /\ uploading \in [Applications -> SUBSET Images]
      /\ images \in [Applications -> SUBSET Images]
  BY DEF DriverInv
<1>1. CASE SubmitApplication(a)
  <2>1. PlaceInv(a)' BY <1>0, <1>1, OnboardingAssumption DEF SubmitApplication, PlaceInv
  <2> QED BY <1>0, <1>1, <2>1, ApplicationMoves DEF SubmitApplication
<1>2. ASSUME NEW i \in Images, UploadImage(a, i) PROVE DriverInv' /\ UNCHANGED <<accountVars, codeVars, handler>>
  <2>1. PlaceInv(a)' BY <1>0, <1>2 DEF UploadImage, PlaceInv
  <2> QED BY <1>0, <1>2, <2>1, ApplicationMoves DEF UploadImage
<1>3. ASSUME NEW i \in Images, UploadFails(a, i) PROVE DriverInv' /\ UNCHANGED <<accountVars, codeVars, handler>>
  <2>1. PlaceInv(a)' BY <1>0, <1>3 DEF UploadFails, PlaceInv
  <2> QED BY <1>0, <1>3, <2>1, ApplicationMoves DEF UploadFails
<1>4. CASE CreateDriver(a)
  <2>1. PlaceInv(a)' BY <1>0, <1>4 DEF CreateDriver, PlaceInv
  <2> QED BY <1>0, <1>4, <2>1, ApplicationMoves DEF CreateDriver
<1>5. CASE CreateDriverThrows(a)
  <2>1. PlaceInv(a)' BY <1>0, <1>5 DEF CreateDriverThrows, PlaceInv
  <2> QED BY <1>0, <1>5, <2>1, ApplicationMoves DEF CreateDriverThrows
<1>6. CASE RollbackUploads(a)
  <2>1. PICK undeleted \in SUBSET images[a] :
          /\ DeleteImages(a, undeleted)
          /\ application' = [application EXCEPT ![a] =
                               IF @ = "rollbackStored" THEN "undone"
                               ELSE IF undeleted = {} THEN "refused" ELSE "leftover"]
    BY <1>6 DEF RollbackUploads
  <2>2. PlaceInv(a)' BY <1>0, <1>6, <2>1 DEF RollbackUploads, DeleteImages, PlaceInv
  <2>3. images' \in [Applications -> SUBSET Images] BY <1>0, <2>1 DEF DeleteImages
  <2> QED BY <1>0, <1>6, <2>1, <2>2, <2>3, ApplicationMoves DEF RollbackUploads, DeleteImages
<1>7. CASE ApplicationDies(a)
  <2>1. PICK undeleted \in SUBSET images[a] :
          /\ application[a] = "upload" => undeleted = images[a]
          /\ DeleteImages(a, undeleted)
    BY <1>7 DEF ApplicationDies
  <2>2. application' = [application EXCEPT ![a] = IF @ = "rollbackStored" THEN "undone" ELSE "died"]
        /\ application[a] \in {"upload", "rollback", "rollbackStored"}
    BY <1>7 DEF ApplicationDies
  <2>3. PlaceInv(a)' BY <1>0, <2>1, <2>2 DEF DeleteImages, PlaceInv
  <2>4. images' \in [Applications -> SUBSET Images] BY <1>0, <2>1 DEF DeleteImages
  <2> QED BY <1>0, <2>1, <2>2, <2>3, <2>4, ApplicationMoves DEF DeleteImages
<1> QED BY <1>1, <1>2, <1>3, <1>4, <1>5, <1>6, <1>7 DEF ApplicationStep

-----------------------------------------------------------------------------
\* Every step keeps the invariant and the ways to sign in.
LEMMA NextInv == ASSUME IInv, [Next]_vars PROVE IInv' /\ account \subseteq account'
<1>1. ASSUME NEW h \in Handlers, AccountStep(h) PROVE IInv' /\ account \subseteq account'
  BY <1>1, AccountStepInv
<1>2. CASE ForgotPassword
  <2>1. AccountInv' BY <1>2 DEF ForgotPassword, IInv, AccountInv
  <2> QED BY <1>2, <2>1, CodesExpire, DriverGoesOn DEF ForgotPassword, IInv, codeVars
<1>3. CASE KeyExpires
  <2>1. AccountInv' BY <1>3 DEF KeyExpires, IInv, AccountInv
  <2>2. code' \in {0, code} BY <1>3 DEF KeyExpires
  <2> QED BY <1>3, <2>1, <2>2, CodesExpire, DriverGoesOn DEF KeyExpires, IInv
<1>4. ASSUME UNCHANGED <<accountVars, codeVars, handler>>, DriverInv' PROVE IInv' /\ account \subseteq account'
  <2>1. AccountInv' BY <1>4 DEF IInv, AccountInv, accountVars
  <2> QED BY <1>4, <2>1, CodesExpire DEF IInv, codeVars, accountVars
<1>5. ASSUME NEW a \in Applications, ApplicationStep(a) PROVE IInv' /\ account \subseteq account'
  BY <1>4, <1>5, ApplicationStepInv DEF IInv
<1>6. CASE PlateTaken
  <2>1. DriverInv' BY <1>6 DEF PlateTaken, IInv, DriverInv, PlaceInv
  <2> QED BY <1>4, <1>6, <2>1 DEF PlateTaken
<1>7. CASE UNCHANGED vars
  <2>1. DriverInv' BY <1>7, DriverGoesOn DEF vars, IInv
  <2> QED BY <1>4, <1>7, <2>1 DEF vars
<1> QED BY <1>1, <1>2, <1>3, <1>5, <1>6, <1>7 DEF Next

\* In every state: account requests know links and codes that were sent, one
\* request at a time is about codes as long as that is clear, and the place of
\* each application tells what became of its images and of the Driver document.
THEOREM Inductive == Spec => []IInv
<1>1. Init => IInv BY InitInv
<1>2. IInv /\ [Next]_vars => IInv' BY NextInv
<1> QED BY <1>1, <1>2, PTL DEF Spec

\* The shape of the state, for any numbers of requests and applications.
THEOREM TypeCorrect == Spec => []TypeOK
<1>1. IInv => TypeOK
  BY DEF IInv, AccountInv, CodeType, DriverInv, PlaceInv, TypeOK, Places
<1> QED BY <1>1, Inductive, PTL

\* The code in the newest mail is the one Redis has, through any number of
\* logins, mails, verifications and expiries (userLogin, resendOtp, verifyOTP),
\* unless requests about codes overlapped or failed since a login ran alone.
THEOREM NewestMailWorks == Spec => []MailedCodeWorks
<1>1. IInv => MailedCodeWorks BY DEF IInv, CodeInv, MailedCodeWorks
<1> QED BY <1>1, Inductive, PTL

\* No overlap of sign-ups, Google and password resets takes a way to sign in
\* from an account (verifyEmail, googleAuth, resetPassword).
THEOREM SignInsStay == Spec => SignInsAreKept
<1>1. IInv /\ [Next]_vars => [account \subseteq account']_vars BY NextInv
<1> QED BY <1>1, Inductive, PTL DEF Spec, SignInsAreKept

\* For any number of images and applications of one user: the application the
\* Driver document was created from has all its images unless create() threw over
\* a stored document, and another one has images only while it is under way, or
\* after an upload, a deletion or the process failed (driverRegistration).
THEOREM ImagesFollow == Spec => []ImagesFollowDriver
<1>1. IInv => ImagesFollowDriver BY DEF IInv, DriverInv, PlaceInv, Places, ImagesFollowDriver
<1> QED BY <1>1, Inductive, PTL
=============================================================================
