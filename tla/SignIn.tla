-------------------------------- MODULE SignIn --------------------------------
(***************************************************************************)
(* One visitor signs in: the shell of App.tsx with its redirects, the      *)
(* session it learns from AuthContext.tsx, the setup and login pages, and  *)
(* the hub's side of them (authroutes.go, authroutes_mfa.go, policy.go).   *)
(* A page sends one request at a time and then asks for the session; the   *)
(* hub, its administrator and the network move in between.  The visitor    *)
(* knows the password and has the second factor at hand: refused guesses   *)
(* change nothing here and are left out, and so are their budgets.         *)
(***************************************************************************)
EXTENDS FiniteSets

Factors == {"totp", "webauthn"}
Pages == {"home", "login", "setup", "account"}   \* account stands for admin too

VARIABLES
  account,       \* the visitor's account exists; before, the hub has none
  admin,         \* its role is admin
  required,      \* its role must have a second factor
  policyChosen,
  factors,       \* the second factors it has
  requireAuth,   \* the site is for signed-in visitors only
  session,       \* the hub's row for the visitor's cookie: "none", "password" or "mfa"
  enrolling,     \* PendingTotp holds a secret for that session
  trusted,       \* the device is remembered
  me, meLoading, \* AuthContext
  page,          \* the route
  mode,          \* the state of LoginPage: its mode, and the methods it offers
  csrf,          \* LoginPage holds the token of the session
  request,       \* what the page waits for
  refused,       \* the last thing the visitor tried came back as an error
  meddled        \* history: an administrator changed what is asked of the account, or
                 \* the choice of the policy was cut short

accountVars == <<account, admin, required, policyChosen, factors, requireAuth>>
hubSessionVars == <<session, enrolling, trusted>>
browserVars == <<me, meLoading, page, mode, csrf, request, refused>>
signInVars == <<accountVars, hubSessionVars, browserVars, meddled>>

\* DecideLoginNext.
LoginNext ==
  IF factors # {} THEN "mfa" ELSE IF required THEN "enroll" ELSE "ok"

\* What the session route answers; EmptyMe is what a failed request leaves.
HubMe ==
  [needsSetup |-> ~account,
   requireAuth |-> requireAuth,
   level |-> session,
   needsPolicy |-> session # "none" /\ admin /\ ~policyChosen,
   enroll |-> session = "password" /\ LoginNext = "enroll",
   methods |-> IF session = "password" THEN factors ELSE {}]

EmptyMe ==
  [needsSetup |-> FALSE, requireAuth |-> FALSE, level |-> "none", needsPolicy |-> FALSE,
   enroll |-> FALSE, methods |-> {}]

Idle == [for |-> "nothing"]
AskMe(next) == [for |-> "me", next |-> next, methods |-> IF next = "mfa" THEN factors ELSE {}]

\* Mutant: a visitor between two factors is sent home from the login page.
RedirectOnLevel(m, p) ==
  IF m.needsSetup THEN "setup"
  ELSE IF p = "setup" THEN IF m.level = "mfa" THEN "home" ELSE "login"
  ELSE IF p = "login" THEN IF m.level # "none" THEN "home" ELSE p
  ELSE IF m.level = "password" THEN "login"
  ELSE IF (p = "account" \/ m.requireAuth) /\ m.level # "mfa" THEN "login"
  ELSE p

\* redirectFor: where a visitor of page p belongs.
Redirect(m, p) ==
  IF m.needsSetup THEN "setup"
  ELSE IF p = "setup" THEN IF m.level = "mfa" THEN "home" ELSE "login"
  ELSE IF m.level = "password" THEN "login"
  ELSE IF p = "login" THEN IF m.level = "mfa" THEN "home" ELSE p
  ELSE IF (p = "account" \/ m.requireAuth) /\ m.level # "mfa" THEN "login"
  ELSE p

Astray == ~meLoading /\ Redirect(me, page) # page

LoginShown(m, l, p) == ~l /\ p = "login" /\ Redirect(m, p) = p

\* How LoginPage begins: it resumes a session whose second factor is pending.
ModeOf(m) ==
  [name |-> IF m.level # "password" THEN "password" ELSE IF m.enroll THEN "enroll" ELSE "mfa",
   methods |-> m.methods,
   secret |-> FALSE]

SignInInit ==
  /\ account \in BOOLEAN /\ admin \in BOOLEAN /\ required \in BOOLEAN
  /\ policyChosen \in BOOLEAN
  /\ ~account => admin /\ required /\ ~policyChosen
  /\ ~admin => policyChosen
  /\ factors \in IF account THEN {{}, {"totp"}, Factors} ELSE {{}}
  /\ requireAuth \in BOOLEAN
  /\ session = "none" /\ enrolling = FALSE /\ trusted = FALSE
  /\ me = EmptyMe /\ meLoading = TRUE
  /\ page \in Pages
  /\ mode = ModeOf(EmptyMe)
  /\ csrf = FALSE
  /\ request = AskMe("mount")
  /\ refused = FALSE
  /\ meddled = FALSE

-----------------------------------------------------------------------------
\* The page renders with the session m: LoginPage is mounted when it was not shown.
Render(m, l, p) ==
  /\ me' = m /\ meLoading' = l /\ page' = p
  /\ IF LoginShown(m, l, p) /\ ~LoginShown(me, meLoading, page)
       THEN mode' = ModeOf(m) /\ csrf' = (m.level # "none")
       ELSE UNCHANGED <<mode, csrf>>

\* The effect of AppRoutes.
FollowRedirect ==
  /\ Astray
  /\ Render(me, meLoading, Redirect(me, page))
  /\ UNCHANGED <<accountVars, hubSessionVars, request, refused, meddled>>

\* A form of the page is sent: LoginPage and SetupPage while they are shown.
Send(what) ==
  /\ request = Idle
  /\ ~Astray /\ ~meLoading
  /\ request' = [for |-> what]
  /\ UNCHANGED <<accountVars, hubSessionVars, me, meLoading, page, mode, csrf, refused,
                 meddled>>

OnLogin(name) == LoginShown(me, meLoading, page) /\ mode.name = name

SendSetup == page = "setup" /\ Send("setup")
SendPassword == OnLogin("password") /\ Send("login")
SendFactor == OnLogin("mfa") /\ mode.methods # {} /\ Send("factor")
ChoosesPolicy == OnLogin("enroll") /\ me.needsPolicy
SendPolicy == ChoosesPolicy /\ Send("policy")
BeginTotp == OnLogin("enroll") /\ ~ChoosesPolicy /\ ~mode.secret /\ Send("begin")
SendCode == OnLogin("enroll") /\ ~ChoosesPolicy /\ mode.secret /\ Send("activate")
SendPasskey == OnLogin("enroll") /\ ~ChoosesPolicy /\ ~mode.secret /\ Send("passkey")

\* The hub's answer to a form comes back, and the page asks for the session.
Answer(next) ==
  /\ request' = AskMe(next)
  /\ UNCHANGED <<me, meLoading, page, mode, csrf, refused, meddled>>

\* The page shows an error, except that the menu signs out whatever the hub says.
Refuse ==
  /\ IF request.for = "logout"
       THEN request' = AskMe("logout") /\ UNCHANGED refused
       ELSE request' = Idle /\ refused' = TRUE
  /\ UNCHANGED <<me, meLoading, page, mode, csrf>>

\* mwSession and mwCSRF.
InSession == session # "none" /\ csrf

\* setup: the first account, an administrator's.
HubSetup ==
  /\ request.for = "setup"
  /\ ~account
  /\ account' = TRUE
  /\ session' = "password"
  /\ Answer("setup")
  /\ UNCHANGED <<admin, required, policyChosen, factors, requireAuth, enrolling, trusted>>

\* login: a new session, complete when no second factor is due or the device is trusted.
HubLogin ==
  LET next == IF LoginNext = "mfa" /\ trusted THEN "ok" ELSE LoginNext IN
  /\ request.for = "login"
  /\ account
  /\ session' = IF next = "ok" THEN "mfa" ELSE "password"
  /\ enrolling' = FALSE
  /\ Answer(next)
  /\ UNCHANGED <<accountVars, trusted>>

\* The second factor: the code, or the passkey, of a method the page offers.  A passkey's
\* two requests are one here, and so are those of its registration; where the second finds
\* no challenge any more the hub turns it down, which is Unreached.
HubFactor ==
  /\ request.for = "factor"
  /\ InSession
  /\ mode.methods \cap factors # {}
  /\ session' = "mfa"
  /\ trusted' \in BOOLEAN
  /\ Answer("factor")
  /\ UNCHANGED <<accountVars, enrolling>>

\* Mutant: whatever the policy, choosing it completes the session.
HubPolicyCompletes ==
  /\ request.for = "policy"
  /\ InSession /\ admin /\ ~policyChosen
  /\ policyChosen' = TRUE
  /\ required' \in BOOLEAN
  /\ UNCHANGED <<account, admin, factors, requireAuth, enrolling, trusted>>
  /\ session' = "mfa"
  /\ Answer("policy")

\* auth-mfa-policy: chosen once; it completes the session when no factor is due.
HubPolicy ==
  /\ request.for = "policy"
  /\ InSession /\ admin /\ ~policyChosen
  /\ policyChosen' = TRUE
  /\ required' \in BOOLEAN
  /\ UNCHANGED <<account, admin, factors, requireAuth, enrolling, trusted>>
  /\ session' = IF LoginNext' = "ok" THEN "mfa" ELSE session
  /\ Answer("policy")

\* auth-mfa-totp-enroll; the page then shows the secret.
HubBegin ==
  /\ request.for = "begin"
  /\ InSession
  /\ enrolling' = TRUE
  /\ request' = [for |-> "secret"]
  /\ UNCHANGED <<accountVars, session, trusted, me, meLoading, page, mode, csrf, refused,
                 meddled>>

SecretShown ==
  /\ request.for = "secret"
  /\ request' = Idle
  /\ mode' = [mode EXCEPT !.secret = TRUE]
  /\ UNCHANGED <<accountVars, hubSessionVars, me, meLoading, page, csrf, refused, meddled>>

\* auth-mfa-totp-activate.
HubActivate ==
  /\ request.for = "activate"
  /\ InSession /\ enrolling
  /\ factors' = factors \cup {"totp"}
  /\ session' = "mfa"
  /\ Answer("activate")
  /\ UNCHANGED <<account, admin, required, policyChosen, requireAuth, enrolling, trusted>>

\* The registration of a passkey.
HubPasskey ==
  /\ request.for = "passkey"
  /\ InSession
  /\ factors' = factors \cup {"webauthn"}
  /\ session' = "mfa"
  /\ Answer("passkey")
  /\ UNCHANGED <<account, admin, required, policyChosen, requireAuth, enrolling, trusted>>

HubSignOut ==
  /\ request.for = "logout"
  /\ session # "none"
  /\ session' = "none"
  /\ Answer("logout")
  /\ UNCHANGED <<accountVars, enrolling, trusted>>

\* What the hub's guards turn down.
HubRefuses ==
  /\ \/ request.for = "setup" /\ account
     \/ request.for = "login" /\ ~account
     \/ request.for \in {"factor", "policy", "begin", "activate", "passkey"} /\ ~InSession
     \/ request.for = "factor" /\ mode.methods \cap factors = {}
     \/ request.for = "policy" /\ policyChosen
     \/ request.for = "activate" /\ ~enrolling
     \/ request.for = "logout" /\ session = "none"
  /\ Refuse
  /\ UNCHANGED <<accountVars, hubSessionVars, meddled>>

\* AuthContext's refresh gets m: LoginPage takes the token and, after the password, the
\* step the hub named; the menu goes home.
MeIs(m) ==
  /\ request.for = "me"
  /\ request' = Idle
  /\ refused' = FALSE
  /\ IF request.next \in {"mfa", "enroll", "ok"}
       THEN /\ me' = m /\ meLoading' = FALSE
            /\ csrf' = (m.level # "none")
            /\ mode' = IF request.next = "ok" THEN mode ELSE
                 [name |-> request.next, methods |-> request.methods, secret |-> FALSE]
            /\ UNCHANGED page
       ELSE Render(m, FALSE, IF request.next = "logout" THEN "home" ELSE page)
  /\ UNCHANGED <<accountVars, hubSessionVars, meddled>>

MeAnswered == MeIs(HubMe)

-----------------------------------------------------------------------------
\* What goes wrong on the way: a form does not reach the hub, its answer is lost, or the
\* session cannot be asked for.
Unreached ==
  /\ request.for \notin {"nothing", "me", "secret"}
  /\ Refuse
  /\ UNCHANGED <<accountVars, hubSessionVars, meddled>>

AnswerLost ==
  /\ request.for = "secret" \/ (request.for = "me" /\ request.next \notin {"mount", "logout"})
  /\ Refuse
  /\ UNCHANGED <<accountVars, hubSessionVars, meddled>>

MeFails == MeIs(EmptyMe)

\* The factor is stored, or found right, and the session is not completed: UpgradeToMfa
\* fails, which the hub ignores, or the hub stops before it.
UpgradeFails ==
  /\ InSession
  /\ \/ request.for = "activate" /\ enrolling /\ factors' = factors \cup {"totp"}
     \/ request.for = "passkey" /\ factors' = factors \cup {"webauthn"}
     \/ request.for = "factor" /\ mode.methods \cap factors # {} /\ UNCHANGED factors
  /\ \/ /\ Answer(request.for)
        /\ trusted' \in IF request.for = "factor" THEN BOOLEAN ELSE {trusted}
     \/ Refuse /\ UNCHANGED <<trusted, meddled>>
  /\ UNCHANGED <<account, admin, required, policyChosen, requireAuth, session, enrolling>>

\* The session expires, the device is no longer remembered, or the hub restarts and
\* forgets the secret being enrolled.
HubForgets ==
  /\ session' \in {session, "none"}
  /\ trusted' \in {trusted, FALSE}
  /\ enrolling' = FALSE
  /\ UNCHANGED <<accountVars, browserVars, meddled>>

\* Another administrator resets the account's factors, or changes the policy.
AdminActs ==
  /\ account /\ policyChosen
  /\ \/ factors' = {} /\ UNCHANGED required
     \/ required' \in BOOLEAN /\ UNCHANGED factors
  /\ meddled' = TRUE
  /\ UNCHANGED <<account, admin, policyChosen, requireAuth, hubSessionVars, browserVars>>

\* The hub stops between the statements of the policy, or before the session it completes,
\* or fails to complete it and answers all the same.
PolicyCutShort ==
  /\ request.for = "policy"
  /\ InSession /\ admin /\ ~policyChosen
  /\ required' \in BOOLEAN
  /\ policyChosen' \in BOOLEAN
  /\ meddled' = TRUE
  /\ UNCHANGED <<account, admin, factors, requireAuth, hubSessionVars>>
  /\ \/ Refuse
     \/ /\ policyChosen' /\ LoginNext' = "ok"
        /\ request' = AskMe("policy")
        /\ UNCHANGED <<me, meLoading, page, mode, csrf, refused>>

-----------------------------------------------------------------------------
\* The visitor: another page, the back button of the enrollment, signing out.
Wander ==
  /\ request = Idle /\ ~meLoading /\ ~Astray
  /\ \/ \E p \in Pages \ {page} :
          Render(me, meLoading, p) /\ UNCHANGED <<request, refused>>
     \/ /\ OnLogin("enroll") /\ mode.secret
        /\ mode' = [mode EXCEPT !.secret = FALSE]
        /\ UNCHANGED <<me, meLoading, page, csrf, request, refused>>
     \/ /\ page = "account" /\ me.level = "mfa"
        /\ request' = [for |-> "logout"]
        /\ UNCHANGED <<me, meLoading, page, mode, csrf, refused>>
  /\ UNCHANGED <<accountVars, hubSessionVars, meddled>>

\* The page is loaded again, at any time.
Reload ==
  /\ me' = EmptyMe /\ meLoading' = TRUE
  /\ mode' = ModeOf(EmptyMe) /\ csrf' = FALSE
  /\ request' = AskMe("mount")
  /\ refused' = FALSE
  /\ UNCHANGED <<accountVars, hubSessionVars, page, meddled>>

\* To sign in, the visitor goes to the login page.
GoSignIn ==
  /\ request = Idle /\ ~meLoading /\ ~Astray
  /\ me.level = "none"
  /\ page # "login"
  /\ Render(me, meLoading, "login")
  /\ UNCHANGED <<accountVars, hubSessionVars, request, refused, meddled>>

Submits ==
  \/ SendSetup \/ SendPassword \/ SendFactor \/ SendPolicy
  \/ BeginTotp \/ SendCode \/ SendPasskey

HubHandles ==
  \/ HubSetup \/ HubLogin \/ HubFactor \/ HubPolicy \/ HubBegin \/ HubActivate
  \/ HubPasskey \/ HubSignOut \/ HubRefuses

Mishap == Unreached \/ AnswerLost \/ MeFails \/ UpgradeFails \/ HubForgets

SignInNext ==
  \/ FollowRedirect \/ Submits \/ HubHandles \/ SecretShown \/ MeAnswered
  \/ Mishap \/ AdminActs \/ PolicyCutShort
  \/ Wander \/ Reload \/ GoSignIn

\* A visitor who gets nowhere loads the page again: after an error, on a page that offers
\* nothing, or on one that no longer matches the session.
GivesUp ==
  /\ request = Idle
  /\ refused \/ me.level # session \/ (OnLogin("mfa") /\ mode.methods = {})

\* The browser and the hub do their part, and the visitor tries.
SignInFairness ==
  /\ WF_signInVars(FollowRedirect)
  /\ WF_signInVars(HubHandles)
  /\ WF_signInVars(SecretShown)
  /\ WF_signInVars(MeAnswered)
  /\ WF_signInVars(Submits)
  /\ WF_signInVars(GoSignIn)
  /\ WF_signInVars(GivesUp /\ Reload)

SignInSpec == SignInInit /\ [][SignInNext]_signInVars /\ SignInFairness

-----------------------------------------------------------------------------
In == me.level = "mfa" /\ session = "mfa"

\* What keeps a visitor from signing in.
Distracted == Wander \/ Mishap \/ (~GivesUp /\ Reload)

\* A visitor who keeps trying gets in, from any page, over any lost request, expired
\* session or interrupted enrollment, as long as nobody changes what is asked of the
\* account.
SignInCompletes ==
  <>[][~Distracted]_signInVars => <>[]In \/ <>meddled

\* "A policy decides which roles must have a second factor": no session of an account that
\* must have one is complete before it has one, although the policy may be chosen and the
\* factor enrolled in the middle of a sign-in, and devices are remembered; unless an
\* administrator changes what is asked while the session lasts.
CompleteHasFactor == session = "mfa" /\ required /\ ~meddled => factors # {}

\* "Resume a mid-login session (password factor done, second factor pending) after a
\* reload": the login page asks for a second factor only when there is one to give.
ResumesWhatIsPending == OnLogin("mfa") => mode.methods # {}

=============================================================================
