------------------------------ MODULE AccountPage ------------------------------
(***************************************************************************)
(* The page on which an account looks after itself, AccountPage.tsx and    *)
(* passkey.tsx, over the hub's routes for its factors, devices and         *)
(* password (authroutes_mfa.go, authroutes_passkey.go,                     *)
(* authroutes_apikey.go).  One flag, busy, disables the buttons of a page  *)
(* while a request is under way; two pages of one session, two tabs or one *)
(* left in the middle of a request, know nothing of each other.  The lists *)
(* are loaded apart from the buttons and are left out: a passkey removed   *)
(* is there or gone.  A refused or lost request changes the page alike.    *)
(***************************************************************************)
EXTENDS Naturals

CONSTANTS
  Tabs,
  MaxSecrets,    \* bound on the secrets made
  MaxPasskeys    \* bound on the passkeys at once

VARIABLES
  required,     \* RoleRequiresMfa of the account
  totp,         \* the secret stored, or 0
  passkeys,     \* how many there are
  pending,      \* PendingTotp of the session, or 0: in memory, for ten minutes
  challenge,    \* Challenges of the session: the page whose registration it is for, or Nobody
  trusted,      \* devices are remembered
  secretsMade,  \* how many there have been
  opened,       \* of every page: the dialog, and the secret it shows
  request,      \* of every page: what it waits for; busy is that it does
  scanned,      \* history: the secrets the visitor's phone has
  overlapped    \* history: two removals were between their checks and their writes

factorVars == <<totp, passkeys, pending, challenge, secretsMade>>
hubAccountVars == <<required, factorVars, trusted>>
tabVars == <<opened, request>>
accountPageVars == <<hubAccountVars, tabVars, scanned, overlapped>>

Nobody == "nobody"
Idle == [kind |-> "nothing", stage |-> "none", secret |-> 0]
Closed == [name |-> "none", secret |-> 0]

\* The buttons of the page, and those that open a dialog with a form.
ClickKinds == {"begin", "disable", "remove", "password", "forget", "key"}
AccountForms == {"register", "createKey"}

Removals == {"disable", "remove"}

AccountPageInit ==
  /\ required \in BOOLEAN
  /\ totp = 0 /\ passkeys = 0 /\ pending = 0 /\ challenge = Nobody /\ secretsMade = 0
  /\ trusted = FALSE
  /\ opened = [p \in Tabs |-> Closed]
  /\ request = [p \in Tabs |-> Idle]
  /\ scanned = {}
  /\ overlapped = FALSE

Busy(p) == request[p] # Idle

-----------------------------------------------------------------------------
Starts(p, kind, secret) ==
  /\ ~Busy(p)
  /\ request' = [request EXCEPT ![p] = [kind |-> kind, stage |-> "sent", secret |-> secret]]
  /\ UNCHANGED <<hubAccountVars, opened, overlapped>>

Click(p, kind) ==
  /\ opened[p] = Closed
  /\ Starts(p, kind, 0)
  /\ UNCHANGED scanned

OpenForm(p, form) ==
  /\ opened[p] = Closed /\ ~Busy(p)
  /\ opened' = [opened EXCEPT ![p] = [name |-> form, secret |-> 0]]
  /\ UNCHANGED <<hubAccountVars, request, scanned, overlapped>>

SubmitForm(p) ==
  /\ opened[p].name \in AccountForms
  /\ Starts(p, opened[p].name, 0)
  /\ UNCHANGED scanned

\* The code of the secret the dialog shows, which the visitor has scanned.
SubmitCode(p) ==
  /\ opened[p].name = "totp"
  /\ Starts(p, "activate", opened[p].secret)
  /\ scanned' = scanned \cup {opened[p].secret}

\* A form stays while its request is under way; the other dialogs close at any time.
CloseIt(p) ==
  /\ opened[p] # Closed
  /\ opened[p].name \in AccountForms => ~Busy(p)
  /\ opened' = [opened EXCEPT ![p] = Closed]
  /\ UNCHANGED <<hubAccountVars, request, scanned, overlapped>>

-----------------------------------------------------------------------------
Stage(p, kind, stage) == request[p].kind = kind /\ request[p].stage = stage

Goes(p, stage) ==
  /\ request' = [request EXCEPT ![p].stage = stage]
  /\ UNCHANGED <<required, opened, scanned>>

\* Mutant: the secret begun is stored at once.
HubEnrollsAtOnce(p) ==
  /\ Stage(p, "begin", "sent")
  /\ secretsMade < MaxSecrets
  /\ secretsMade' = secretsMade + 1
  /\ pending' = secretsMade' /\ totp' = secretsMade'
  /\ request' = [request EXCEPT ![p].stage = "done", ![p].secret = secretsMade']
  /\ UNCHANGED <<required, passkeys, challenge, trusted, opened, scanned, overlapped>>

\* auth-mfa-totp-enroll.
HubEnrolls(p) ==
  /\ Stage(p, "begin", "sent")
  /\ secretsMade < MaxSecrets
  /\ secretsMade' = secretsMade + 1
  /\ pending' = secretsMade'
  /\ request' = [request EXCEPT ![p].stage = "done", ![p].secret = secretsMade']
  /\ UNCHANGED <<required, totp, passkeys, challenge, trusted, opened, scanned, overlapped>>

\* auth-mfa-totp-activate: the code must be of the secret that is pending now.
HubActivates(p) ==
  /\ Stage(p, "activate", "sent")
  /\ pending # 0 /\ request[p].secret = pending
  /\ totp' = pending
  /\ Goes(p, "done")
  /\ UNCHANGED <<passkeys, pending, challenge, secretsMade, trusted, overlapped>>

\* auth-mfa-passkey-register-options, and then the browser asks the visitor.
HubOffers(p) ==
  /\ Stage(p, "register", "sent")
  /\ challenge' = p
  /\ Goes(p, "prompt")
  /\ UNCHANGED <<totp, passkeys, pending, secretsMade, trusted, overlapped>>

Prompted(p) ==
  /\ Stage(p, "register", "prompt")
  /\ Goes(p, "verify")
  /\ UNCHANGED <<factorVars, trusted, overlapped>>

\* auth-mfa-passkey-register: the response must be to the challenge kept for the session.
HubRegisters(p) ==
  /\ Stage(p, "register", "verify")
  /\ challenge = p
  /\ passkeys < MaxPasskeys
  /\ passkeys' = passkeys + 1
  /\ Goes(p, "done")
  /\ UNCHANGED <<totp, pending, challenge, secretsMade, trusted, overlapped>>

\* Mutant: the last passkey counts for two.
OnlyFactorButOne(kind) ==
  IF kind = "disable" THEN passkeys = 0 ELSE totp = 0 /\ passkeys < 1

\* What auth-mfa-totp-disable and auth-mfa-passkey-delete call the only factor.
OnlyFactor(kind) ==
  IF kind = "disable" THEN passkeys = 0 ELSE totp = 0 /\ passkeys <= 1

\* Their first half reads, with what the middleware has read of the account.
HubChecks(p) ==
  /\ \E kind \in Removals : Stage(p, kind, "sent") /\ ~(OnlyFactor(kind) /\ required)
  /\ Goes(p, "checked")
  /\ UNCHANGED <<factorVars, trusted, overlapped>>

\* The second half writes.
HubRemoves(p) ==
  /\ request[p].stage = "checked"
  /\ IF request[p].kind = "disable" THEN totp' = 0 /\ passkeys' = passkeys
     ELSE totp' = totp /\ passkeys' \in {passkeys, IF passkeys > 0 THEN passkeys - 1 ELSE 0}
  /\ overlapped' = (overlapped \/ \E q \in Tabs \ {p} : request[q].stage = "checked")
  /\ Goes(p, "done")
  /\ UNCHANGED <<pending, challenge, secretsMade, trusted>>

\* auth-password-change: the password, and then the devices, whose error is ignored.
HubSetsPassword(p) ==
  /\ Stage(p, "password", "sent")
  /\ Goes(p, "written")
  /\ UNCHANGED <<factorVars, trusted, overlapped>>

HubForgetsThen(p) ==
  /\ Stage(p, "password", "written")
  /\ trusted' \in {FALSE, trusted}
  /\ Goes(p, "done")
  /\ UNCHANGED <<factorVars, overlapped>>

\* auth-forget-devices, and the api-keys, whose rows nothing else depends on.
HubDoesRest(p) ==
  /\ request[p].kind \in {"forget", "key", "createKey"} /\ request[p].stage = "sent"
  /\ trusted' = (trusted /\ request[p].kind # "forget")
  /\ Goes(p, "done")
  /\ UNCHANGED <<factorVars, overlapped>>

\* Elsewhere: a device is remembered; what is in memory expires, or the hub restarts.
DeviceRemembered ==
  /\ trusted' = TRUE
  /\ UNCHANGED <<required, factorVars, tabVars, scanned, overlapped>>

Forgotten ==
  /\ pending' = 0 /\ challenge' = Nobody
  /\ UNCHANGED <<required, totp, passkeys, secretsMade, trusted, tabVars, scanned, overlapped>>

-----------------------------------------------------------------------------
\* What an answer opens or closes.
DialogThen(p) ==
  IF request[p].kind = "begin" THEN [name |-> "totp", secret |-> request[p].secret]
  ELSE IF request[p].kind = "createKey" THEN [name |-> "newKey", secret |-> 0]
  ELSE IF request[p].kind \in {"activate", "register"} THEN Closed
  ELSE opened[p]

\* These ask for the session again before the buttons are back; refresh never fails.
Refreshing == {"activate", "register", "disable", "remove", "password", "forget"}

Answered(p) ==
  /\ request[p].stage = "done"
  /\ opened' = [opened EXCEPT ![p] = DialogThen(p)]
  /\ request' = IF request[p].kind \in Refreshing
                  THEN [request EXCEPT ![p].stage = "refresh"]
                  ELSE [request EXCEPT ![p] = Idle]
  /\ UNCHANGED <<hubAccountVars, scanned, overlapped>>

Refreshed(p) ==
  /\ request[p].stage = "refresh"
  /\ request' = [request EXCEPT ![p] = Idle]
  /\ UNCHANGED <<hubAccountVars, opened, scanned, overlapped>>

\* The hub refuses or dies, the prompt is dismissed, the answer is lost: the dialog stays.
Fails(p) ==
  /\ Busy(p) /\ request[p].stage # "refresh"
  /\ request' = [request EXCEPT ![p] = Idle]
  /\ UNCHANGED <<hubAccountVars, opened, scanned, overlapped>>

HubDoesIt(p) ==
  \/ HubEnrolls(p) \/ HubActivates(p)
  \/ HubOffers(p) \/ HubRegisters(p)
  \/ HubChecks(p) \/ HubRemoves(p)
  \/ HubSetsPassword(p) \/ HubForgetsThen(p)
  \/ HubDoesRest(p)

AccountPageNext ==
  \/ \E p \in Tabs :
       \/ \E kind \in ClickKinds : Click(p, kind)
       \/ \E form \in AccountForms : OpenForm(p, form)
       \/ SubmitForm(p) \/ SubmitCode(p) \/ CloseIt(p)
       \/ HubDoesIt(p) \/ Prompted(p)
       \/ Answered(p) \/ Refreshed(p) \/ Fails(p)
  \/ DeviceRemembered
  \/ Forgotten

AccountPageSpec == AccountPageInit /\ [][AccountPageNext]_accountPageVars

-----------------------------------------------------------------------------
\* "cannot remove your only MFA method while MFA is required": an account that must have
\* a second factor and has one keeps one, unless two removals overlap between what they
\* check and what they write.
LastFactorStays ==
  [][required /\ (totp # 0 \/ passkeys > 0) /\ totp' = 0 /\ passkeys' = 0
       => overlapped']_accountPageVars

\* The secret asked for at the next sign-in is one the visitor has scanned: a replacement
\* given up, expired or overtaken by another page's leaves the old one.
PhoneHasSecret == totp # 0 => totp \in scanned

=============================================================================
