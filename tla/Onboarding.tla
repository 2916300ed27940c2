------------------------------ MODULE Onboarding ------------------------------
(***************************************************************************)
(* How the owner of one e-mail address gets an account, signs in with a    *)
(* code sent by mail and applies to drive                                  *)
(* (backend/src/controllers/auth.controller.ts, driver.controller.ts,      *)
(* services/cloudinary.service.ts and the pages that call them).           *)
(*                                                                         *)
(* A handler is split where it awaits something other requests change.     *)
(* claimEmailRateLimit spaces the requests of one network address; requests*)
(* from several addresses overlap, so it is left out.  What                *)
(* setupUserSession does is module Sessions.  A code is known by its       *)
(* number: that two random codes are equal is left out.                    *)
(***************************************************************************)
EXTENDS Naturals, FiniteSets

CONSTANTS
    Handlers,      \* account requests handled at once
    Applications,  \* driver applications the user sends, from one page or several
    Images,        \* the images of an application, eleven in the form
    MaxLinks,      \* bound on the verification links
    MaxCodes       \* bound on the codes

NoApplication == "none"

ASSUME OnboardingAssumption ==
    MaxLinks \in Nat /\ MaxCodes \in Nat /\ NoApplication \notin Applications

VARIABLES
    account,      \* the User document: the ways to sign in it knows, {} if there is none
    links,        \* verification links sent
    liveLinks,    \* keys verify:<token>
    pending,      \* the key verify:email:<email>
    resetToken,   \* a key reset-password:<token>
    codes,        \* codes generated
    code,         \* otp:<email>, 0 if there is none
    mailed,       \* the code in the newest mail
    unclear,      \* history: since the last login that ran alone, requests about
                  \* codes overlapped or a mail was not sent
    handler,      \* local state of each account request
    driver,       \* the application the Driver document was created from
    plateTaken,   \* another Driver document has the registration number
    application,  \* where each application is
    uploading,    \* its uploads under way
    images        \* its images in Cloudinary

accountVars == <<account, links, liveLinks, pending, resetToken>>
codeVars == <<codes, code, mailed, unclear>>
driverVars == <<driver, plateTaken, application, uploading, images>>
vars == <<accountVars, codeVars, handler, driverVars>>

Idle == [pc |-> "idle", of |-> 0]

Init ==
    /\ account = {} /\ links = 0 /\ liveLinks = {} /\ pending = FALSE /\ resetToken = FALSE
    /\ codes = 0 /\ code = 0 /\ mailed = 0 /\ unclear = FALSE
    /\ handler = [h \in Handlers |-> Idle]
    /\ driver = NoApplication /\ plateTaken = FALSE
    /\ application = [a \in Applications |-> "idle"]
    /\ uploading = [a \in Applications |-> {}]
    /\ images = [a \in Applications |-> {}]

Begins(h, pc, of) ==
    /\ handler[h] = Idle
    /\ handler' = [handler EXCEPT ![h] = [pc |-> pc, of |-> of]]
Ends(h) == handler' = [handler EXCEPT ![h] = Idle]

-----------------------------------------------------------------------------
(* Sign-up.                                                                *)

\* Both find no account; userRegistration also no pending registration, and
\* resendVerificationEmail takes its data from the one it finds.
UserRegistration(h) ==
    /\ account = {} /\ ~pending
    /\ Begins(h, "storeLink", 0)
    /\ UNCHANGED <<accountVars, codeVars, driverVars>>

ResendVerificationEmail(h) ==
    /\ account = {} /\ pending
    /\ Begins(h, "storeLink", 0)
    /\ UNCHANGED <<accountVars, codeVars, driverVars>>

\* Both keys are set; whether the mail then goes out decides only whether
\* somebody opens the link.
StoreLink(h) ==
    /\ handler[h].pc = "storeLink"
    /\ links < MaxLinks
    /\ links' = links + 1
    /\ liveLinks' = liveLinks \cup {links'}
    /\ pending' = TRUE
    /\ Ends(h)
    /\ UNCHANGED <<account, resetToken, codeVars, driverVars>>

\* verifyEmail: the link is live and nobody has the address ...
VerifyEmail(h, link) ==
    /\ link \in liveLinks
    /\ account = {}
    /\ Begins(h, "createAccount", link)
    /\ UNCHANGED <<accountVars, codeVars, driverVars>>

\* ... the insert, which the unique index on email decides ...
CreateAccount(h) ==
    /\ handler[h].pc = "createAccount"
    /\ \/ /\ account = {}
          /\ account' = {"password"}
          /\ handler' = [handler EXCEPT ![h].pc = "dropLink"]
       \/ account # {} /\ UNCHANGED account /\ Ends(h)
    /\ UNCHANGED <<links, liveLinks, pending, resetToken, codeVars, driverVars>>

\* ... and, once the user is signed in, the keys go.
DropLink(h) ==
    /\ handler[h].pc = "dropLink"
    /\ liveLinks' = liveLinks \ {handler[h].of}
    /\ pending' = FALSE
    /\ Ends(h)
    /\ UNCHANGED <<account, links, resetToken, codeVars, driverVars>>

\* googleAuth finds no user, or one that never used Google; a user who did is
\* signed in without further ado.
GoogleAuth(h) ==
    /\ "google" \notin account
    /\ Begins(h, IF account = {} THEN "createGoogle" ELSE "linkGoogle", 0)
    /\ UNCHANGED <<accountVars, codeVars, driverVars>>

\* The insert, with a password nobody knows, or the error of the unique index.
CreateGoogleAccount(h) ==
    /\ handler[h].pc = "createGoogle"
    /\ account' = IF account = {} THEN {"google"} ELSE account
    /\ Ends(h)
    /\ UNCHANGED <<links, liveLinks, pending, resetToken, codeVars, driverVars>>

\* Mutant of LinkGoogle: the document is replaced by one made from the profile.
LinkGoogleAnew(h) ==
    /\ handler[h].pc = "linkGoogle"
    /\ account' = {"google"}
    /\ Ends(h)
    /\ UNCHANGED <<links, liveLinks, pending, resetToken, codeVars, driverVars>>

\* user.save() writes googleId and nothing else.
LinkGoogle(h) ==
    /\ handler[h].pc = "linkGoogle"
    /\ account' = account \cup {"google"}
    /\ Ends(h)
    /\ UNCHANGED <<links, liveLinks, pending, resetToken, codeVars, driverVars>>

ForgotPassword ==
    /\ account # {}
    /\ resetToken' = TRUE
    /\ UNCHANGED <<account, links, liveLinks, pending, codeVars, handler, driverVars>>

\* resetPassword, up to the new password's hash ...
ResetPassword(h) ==
    /\ resetToken
    /\ Begins(h, "updatePassword", 0)
    /\ UNCHANGED <<accountVars, codeVars, driverVars>>

\* ... updateOne ...
UpdatePassword(h) ==
    /\ handler[h].pc = "updatePassword"
    /\ account' = account \cup {"password"}
    /\ handler' = [handler EXCEPT ![h].pc = "dropReset"]
    /\ UNCHANGED <<links, liveLinks, pending, resetToken, codeVars, driverVars>>

\* ... and, once revokeRefreshToken and the deletion of the cached user returned,
\* the token.  If one of them fails the password is new and the token lives on.
DropReset(h) ==
    /\ handler[h].pc = "dropReset"
    /\ resetToken' = FALSE
    /\ Ends(h)
    /\ UNCHANGED <<account, links, liveLinks, pending, codeVars, driverVars>>

-----------------------------------------------------------------------------
(* Signing in with a code.                                                 *)

AboutCodes(h) == handler[h].pc \in {"storeCode", "mailCode", "deleteCode"}
Alone == \A h \in Handlers : ~AboutCodes(h)

\* userLogin and resendOtp, with the right password.
Login(h) ==
    /\ "password" \in account
    /\ unclear' = ~Alone
    /\ Begins(h, "storeCode", 0)
    /\ UNCHANGED <<accountVars, codes, code, mailed, driverVars>>

\* Mutant of StoreCode: a code that still lives is not overwritten.
KeepLiveCode(h) ==
    /\ handler[h].pc = "storeCode"
    /\ codes < MaxCodes
    /\ codes' = codes + 1
    /\ code' = IF code = 0 THEN codes' ELSE code
    /\ handler' = [handler EXCEPT ![h] = [pc |-> "mailCode", of |-> codes']]
    /\ UNCHANGED <<accountVars, mailed, unclear, driverVars>>

StoreCode(h) ==
    /\ handler[h].pc = "storeCode"
    /\ codes < MaxCodes
    /\ codes' = codes + 1
    /\ code' = codes'
    /\ handler' = [handler EXCEPT ![h] = [pc |-> "mailCode", of |-> codes']]
    /\ UNCHANGED <<accountVars, mailed, unclear, driverVars>>

\* sendOtpEmail
MailCode(h) ==
    /\ handler[h].pc = "mailCode"
    /\ mailed' = handler[h].of
    /\ Ends(h)
    /\ UNCHANGED <<accountVars, codes, code, unclear, driverVars>>

\* verifyOTP: the code of the newest mail is the one in Redis ...
VerifyOTP(h) ==
    /\ code # 0 /\ code = mailed
    /\ unclear' = (unclear \/ ~Alone)
    /\ Begins(h, "deleteCode", 0)
    /\ UNCHANGED <<accountVars, codes, code, mailed, driverVars>>

\* ... and is deleted by its key, whatever code is there by then.
DeleteCode(h) ==
    /\ handler[h].pc = "deleteCode"
    /\ code' = 0
    /\ Ends(h)
    /\ UNCHANGED <<accountVars, codes, mailed, unclear, driverVars>>

-----------------------------------------------------------------------------
(* Any account request may fail at the call it awaits, and keys expire.    *)

RequestFails(h) ==
    /\ handler[h] # Idle
    /\ Ends(h)
    /\ unclear' = (unclear \/ AboutCodes(h))
    /\ UNCHANGED <<accountVars, codes, code, mailed, driverVars>>

KeyExpires ==
    /\ \/ /\ \E link \in liveLinks : liveLinks' = liveLinks \ {link}
          /\ UNCHANGED <<pending, resetToken, code>>
       \/ pending /\ pending' = FALSE /\ UNCHANGED <<liveLinks, resetToken, code>>
       \/ resetToken /\ resetToken' = FALSE /\ UNCHANGED <<liveLinks, pending, code>>
       \/ code # 0 /\ code' = 0 /\ UNCHANGED <<liveLinks, pending, resetToken>>
    /\ UNCHANGED <<account, links, codes, mailed, unclear, handler, driverVars>>

-----------------------------------------------------------------------------
(* driverRegistration.                                                     *)

\* The form is complete, the sender is signed in and no Driver document has
\* this user; all uploads start.
SubmitApplication(a) ==
    /\ account # {}
    /\ application[a] = "idle"
    /\ driver = NoApplication
    /\ application' = [application EXCEPT ![a] = "upload"]
    /\ uploading' = [uploading EXCEPT ![a] = Images]
    /\ UNCHANGED <<accountVars, codeVars, handler, driver, plateTaken, images>>

\* Mutant of UploadImage: it is tried again although the image arrived.
UploadImageAgain(a, i) ==
    /\ i \in uploading[a]
    /\ images' = [images EXCEPT ![a] = @ \cup {i}]
    /\ UNCHANGED <<accountVars, codeVars, handler, driver, plateTaken, application, uploading>>

\* uploadImage; an upload goes on when Promise.all has rejected already.
UploadImage(a, i) ==
    /\ i \in uploading[a]
    /\ uploading' = [uploading EXCEPT ![a] = @ \ {i}]
    /\ images' = [images EXCEPT ![a] = @ \cup {i}]
    /\ UNCHANGED <<accountVars, codeVars, handler, driver, plateTaken, application>>

\* Promise.all rejects with the first failure.  uploadedPublicIds is empty
\* until every upload is done, so rollbackUploads deletes nothing.  The image
\* may be stored although the call failed.
UploadFails(a, i) ==
    /\ i \in uploading[a]
    /\ uploading' = [uploading EXCEPT ![a] = @ \ {i}]
    /\ application' = [application EXCEPT ![a] = IF @ = "upload" THEN "uploadFailed" ELSE @]
    /\ \E stored \in SUBSET {i} : images' = [images EXCEPT ![a] = @ \cup stored]
    /\ UNCHANGED <<accountVars, codeVars, handler, driver, plateTaken>>

\* DriverModel.create under the unique indexes on user and registrationNumber.
CreateDriver(a) ==
    /\ application[a] = "upload" /\ uploading[a] = {}
    /\ IF driver = NoApplication /\ ~plateTaken
       THEN driver' = a /\ application' = [application EXCEPT ![a] = "created"]
       ELSE driver' = driver /\ application' = [application EXCEPT ![a] = "rollback"]
    /\ UNCHANGED <<accountVars, codeVars, handler, plateTaken, uploading, images>>

\* create() throws, and the document is not there, or it is and the answer was lost.
CreateDriverThrows(a) ==
    /\ application[a] = "upload" /\ uploading[a] = {}
    /\ \/ driver' = driver /\ application' = [application EXCEPT ![a] = "rollback"]
       \/ /\ driver = NoApplication /\ ~plateTaken
          /\ driver' = a
          /\ application' = [application EXCEPT ![a] = "rollbackStored"]
    /\ UNCHANGED <<accountVars, codeVars, handler, plateTaken, uploading, images>>

\* Mutant of RollbackUploads: the error is answered first, and nothing is deleted.
AnswerWithoutRollback(a) ==
    /\ application[a] \in {"rollback", "rollbackStored"}
    /\ application' = [application EXCEPT ![a] = IF @ = "rollback" THEN "refused" ELSE "undone"]
    /\ UNCHANGED <<accountVars, codeVars, handler, driver, plateTaken, uploading, images>>

\* Some of the images are deleted.
DeleteImages(a, undeleted) ==
    /\ undeleted \subseteq images[a]
    /\ images' = [images EXCEPT ![a] = undeleted]
    /\ UNCHANGED <<accountVars, codeVars, handler, driver, plateTaken, uploading>>

\* rollbackUploads, then the error is answered.  A deletion may fail; that is
\* logged and the others go on.
RollbackUploads(a) ==
    /\ application[a] \in {"rollback", "rollbackStored"}
    /\ \E undeleted \in SUBSET images[a] :
        /\ DeleteImages(a, undeleted)
        /\ application' = [application EXCEPT ![a] =
                             IF @ = "rollbackStored" THEN "undone"
                             ELSE IF undeleted = {} THEN "refused" ELSE "leftover"]

\* The process dies; uploads and deletions already sent arrive or fail.
ApplicationDies(a) ==
    /\ application[a] \in {"upload", "rollback", "rollbackStored"}
    /\ \E undeleted \in SUBSET images[a] :
        /\ application[a] = "upload" => undeleted = images[a]
        /\ DeleteImages(a, undeleted)
    /\ application' = [application EXCEPT ![a] = IF @ = "rollbackStored" THEN "undone" ELSE "died"]

\* External: somebody else registers the vehicle.
PlateTaken ==
    /\ driver = NoApplication /\ ~plateTaken
    /\ plateTaken' = TRUE
    /\ UNCHANGED <<accountVars, codeVars, handler, driver, application, uploading, images>>

-----------------------------------------------------------------------------
AccountStep(h) ==
    \/ UserRegistration(h) \/ ResendVerificationEmail(h) \/ StoreLink(h)
    \/ \E link \in liveLinks : VerifyEmail(h, link)
    \/ CreateAccount(h) \/ DropLink(h)
    \/ GoogleAuth(h) \/ CreateGoogleAccount(h) \/ LinkGoogle(h)
    \/ ResetPassword(h) \/ UpdatePassword(h) \/ DropReset(h)
    \/ Login(h) \/ StoreCode(h) \/ MailCode(h) \/ VerifyOTP(h) \/ DeleteCode(h)
    \/ RequestFails(h)

ApplicationStep(a) ==
    \/ SubmitApplication(a)
    \/ \E i \in Images : UploadImage(a, i) \/ UploadFails(a, i)
    \/ CreateDriver(a) \/ CreateDriverThrows(a) \/ RollbackUploads(a) \/ ApplicationDies(a)

Next ==
    \/ \E h \in Handlers : AccountStep(h)
    \/ ForgotPassword
    \/ KeyExpires
    \/ \E a \in Applications : ApplicationStep(a)
    \/ PlateTaken

Spec == Init /\ [][Next]_vars

-----------------------------------------------------------------------------
(* Properties.                                                             *)

TypeOK ==
    /\ account \subseteq {"password", "google"}
    /\ links \in 0 .. MaxLinks /\ liveLinks \subseteq 1 .. links
    /\ pending \in BOOLEAN /\ resetToken \in BOOLEAN
    /\ codes \in 0 .. MaxCodes /\ code \in 0 .. codes /\ mailed \in 0 .. codes
    /\ unclear \in BOOLEAN /\ plateTaken \in BOOLEAN
    /\ \A h \in Handlers : handler[h].pc = "createAccount" => handler[h].of \in 1 .. links
    /\ driver \in Applications \cup {NoApplication}
    /\ application \in [Applications -> {"idle", "upload", "uploadFailed", "created", "rollback",
                                         "rollbackStored", "undone", "refused", "leftover", "died"}]
    /\ uploading \in [Applications -> SUBSET Images]
    /\ images \in [Applications -> SUBSET Images]
    /\ \A a \in Applications : images[a] \cap uploading[a] = {}

\* The code in the newest mail is the one the server compares with, whatever
\* requests, expiries and verifications came before, unless requests about
\* codes overlapped or a mail failed since a login last ran alone: then the
\* newest mail may carry a code that was overwritten (userLogin, resendOtp).
MailedCodeWorks == ~unclear /\ Alone /\ code # 0 => code = mailed

\* No request takes a way to sign in from an account: signing up, Google and a
\* password reset overlap on one e-mail address, and each decides on an account
\* it read before it writes.
SignInsAreKept == [][account \subseteq account']_vars

\* The application the Driver document was created from has all its images,
\* unless create() threw although it had stored the document: then the rollback
\* deletes images the document refers to.  An application that is not the Driver
\* document's has images only while it is under way, or if the process died, a
\* deletion failed, or an upload failed: what the other uploads stored before
\* and after is never deleted.  Only an application that was stored is answered
\* "created".
ImagesFollowDriver ==
    \A a \in Applications :
        /\ driver = a => images[a] = Images \/ application[a] = "undone"
        /\ driver # a /\ images[a] # {} =>
              application[a] \in {"upload", "rollback", "uploadFailed", "leftover", "died"}
        /\ application[a] = "created" => driver = a

\* rollbackUploads deletes what was uploaded, "Failed to rollback uploaded images"
\* (driver.controller.ts) excepted: of an application whose upload failed nothing
\* is left.  False: uploadedPublicIds is filled after the last upload.
FailedUploadsAreRolledBack ==
    \A a \in Applications :
        application[a] = "uploadFailed" /\ uploading[a] = {} => images[a] = {}
=============================================================================
