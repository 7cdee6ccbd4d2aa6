-------------------------- MODULE AccountPagesProofs ---------------------------
(***************************************************************************)
(* The two pages that act on accounts, proved: the one on which an account *)
(* looks after itself, and the administrators'.                            *)
(***************************************************************************)
EXTENDS AdminPage, AccountPage, TLAPS

(* The page of one account *)

Kinds == ClickKinds \cup AccountForms \cup {"activate", "nothing"}

Stages == {"none", "sent", "done", "prompt", "verify", "checked", "written", "refresh"}

Requests == [kind : Kinds, stage : Stages, secret : Nat]

DialogNames == AccountForms \cup {"none", "totp", "newKey"}

PageIsTyped ==
  /\ required \in BOOLEAN
  /\ passkeys \in Nat
  /\ opened \in [Tabs -> [name : DialogNames, secret : Nat]]
  /\ request \in [Tabs -> Requests]
  /\ secretsMade \in Nat

\* A code on its way is of a secret the visitor has scanned.
CodesAreScanned ==
  \A p \in Tabs : request[p].kind = "activate" => request[p].secret \in scanned

\* A removal between its check and its write takes no last factor that must be there,
\* or another may have come between.
CheckedStillHolds ==
  \/ overlapped
  \/ \A p \in Tabs :
       request[p].stage = "checked" =>
         /\ request[p].kind \in Removals
         /\ ~(OnlyFactor(request[p].kind) /\ required)

AccountPageIInv == PageIsTyped /\ CodesAreScanned /\ PhoneHasSecret /\ CheckedStillHolds

\* A step that changes nothing but the stage of the page's request, or ends it, or begins
\* one, leaves the requests typed and the codes scanned.
LEMMA RequestGoesOn ==
  ASSUME AccountPageIInv, NEW p \in Tabs, NEW q \in Requests,
         request' = [request EXCEPT ![p] = q],
         scanned \subseteq scanned',
         q.kind = "activate" => q.secret \in scanned'
  PROVE  /\ request' \in [Tabs -> Requests]
         /\ CodesAreScanned'
         /\ request'[p] = q
         /\ \A o \in Tabs \ {p} : request'[o] = request[o]
BY DEF AccountPageIInv, PageIsTyped, CodesAreScanned

\* So do the checks of the removals, when no factor goes and p's request is no removal.
LEMMA ChecksStay ==
  ASSUME AccountPageIInv, NEW p \in Tabs, NEW q,
         request'[p] = q, \A o \in Tabs \ {p} : request'[o] = request[o],
         q.stage # "checked",
         passkeys' \in Nat, passkeys <= passkeys', totp' = 0 => totp = 0,
         UNCHANGED <<required, overlapped>>
  PROVE  CheckedStillHolds'
<1> SUFFICES ASSUME ~overlapped', NEW o \in Tabs, request'[o].stage = "checked"
             PROVE  /\ request'[o].kind \in Removals
                    /\ ~(OnlyFactor(request[o].kind)' /\ required')
  BY DEF CheckedStillHolds, OnlyFactor
<1>1. o # p /\ request'[o] = request[o]
  OBVIOUS
<1>2. /\ request[o].kind \in Removals
      /\ ~(OnlyFactor(request[o].kind) /\ required)
  BY <1>1 DEF AccountPageIInv, CheckedStillHolds
<1>3. OnlyFactor(request[o].kind)' => OnlyFactor(request[o].kind)
  BY <1>1, <1>2 DEF OnlyFactor, AccountPageIInv, PageIsTyped
<1> QED
  BY <1>1, <1>2, <1>3

\* The request of the page goes to another stage, with what it is for.
LEMMA StageIs ==
  ASSUME AccountPageIInv, NEW p \in Tabs, NEW stage \in Stages,
         request' = [request EXCEPT ![p].stage = stage], scanned' = scanned
  PROVE  /\ request' \in [Tabs -> Requests] /\ CodesAreScanned'
         /\ request'[p].kind = request[p].kind /\ request'[p].stage = stage
         /\ \A o \in Tabs \ {p} : request'[o] = request[o]
<1> DEFINE q == [request[p] EXCEPT !.stage = stage]
<1>1. request[p] \in Requests
  BY DEF AccountPageIInv, PageIsTyped
<1>2. q \in Requests /\ q.kind = request[p].kind /\ q.secret = request[p].secret
      /\ q.stage = stage
  BY <1>1 DEF Requests
<1>3. request' = [request EXCEPT ![p] = q]
  OBVIOUS
<1>4. q.kind = "activate" => q.secret \in scanned'
  BY <1>2 DEF AccountPageIInv, CodesAreScanned
<1> HIDE DEF q
<1> QED
  BY <1>2, <1>3, <1>4, RequestGoesOn

LEMMA StartsInv ==
  ASSUME AccountPageIInv, NEW p \in Tabs, NEW kind \in Kinds, NEW secret \in Nat,
         Starts(p, kind, secret), scanned \subseteq scanned',
         kind = "activate" => secret \in scanned'
  PROVE  AccountPageIInv'
<1> DEFINE q == [kind |-> kind, stage |-> "sent", secret |-> secret]
<1>1. request' = [request EXCEPT ![p] = q] /\ UNCHANGED <<hubAccountVars, opened, overlapped>>
  BY DEF Starts
<1>2. q \in Requests /\ q.kind = kind /\ q.secret = secret /\ q.stage # "checked"
  BY DEF Requests, Stages
<1> HIDE DEF q
<1>3. /\ request' \in [Tabs -> Requests] /\ CodesAreScanned' /\ request'[p] = q
      /\ \A o \in Tabs \ {p} : request'[o] = request[o]
  BY <1>1, <1>2, RequestGoesOn
<1>4. UNCHANGED <<required, totp, passkeys, secretsMade>>
  BY <1>1 DEF hubAccountVars, factorVars
<1>5. CheckedStillHolds'
  <2>1. passkeys' \in Nat /\ passkeys <= passkeys'
    BY <1>4 DEF AccountPageIInv, PageIsTyped
  <2> QED
    BY <1>1, <1>2, <1>3, <1>4, <2>1, ChecksStay
<1> QED
  BY <1>1, <1>3, <1>4, <1>5 DEF AccountPageIInv, PageIsTyped, PhoneHasSecret

LEMMA EndsInv ==
  ASSUME AccountPageIInv, NEW p \in Tabs, request' = [request EXCEPT ![p] = Idle],
         opened' \in [Tabs -> [name : DialogNames, secret : Nat]],
         UNCHANGED <<hubAccountVars, scanned, overlapped>>
  PROVE  AccountPageIInv'
<1>1. Idle \in Requests /\ Idle.kind # "activate" /\ Idle.stage # "checked"
  BY DEF Idle, Requests, Stages, Kinds
<1>2. /\ request' \in [Tabs -> Requests] /\ CodesAreScanned' /\ request'[p] = Idle
      /\ \A o \in Tabs \ {p} : request'[o] = request[o]
  BY <1>1, RequestGoesOn
<1>3. UNCHANGED <<required, totp, passkeys, secretsMade>>
  BY DEF hubAccountVars, factorVars
<1>4. CheckedStillHolds'
  <2>1. passkeys' \in Nat /\ passkeys <= passkeys'
    BY <1>3 DEF AccountPageIInv, PageIsTyped
  <2> QED
    BY <1>1, <1>2, <1>3, <2>1, ChecksStay
<1> QED
  BY <1>2, <1>3, <1>4 DEF AccountPageIInv, PageIsTyped, PhoneHasSecret

\* The hub answers what no removal asked, taking no factor away and storing no secret
\* but a scanned one.
LEMMA HubGoesInv ==
  ASSUME AccountPageIInv, NEW p \in Tabs, NEW stage \in Stages \ {"checked"},
         request' = [request EXCEPT ![p].stage = stage],
         UNCHANGED <<required, opened, scanned, overlapped>>,
         secretsMade' \in Nat, passkeys' \in Nat, passkeys <= passkeys',
         totp' = totp \/ (totp' # 0 /\ totp' \in scanned)
  PROVE  AccountPageIInv'
<1>1. /\ request' \in [Tabs -> Requests] /\ CodesAreScanned'
      /\ request'[p].stage = stage
      /\ \A o \in Tabs \ {p} : request'[o] = request[o]
  BY StageIs
<1>2. CheckedStillHolds'
  BY <1>1, ChecksStay
<1> QED
  BY <1>1, <1>2 DEF AccountPageIInv, PageIsTyped, PhoneHasSecret

\* While the hub has checked one removal and no other, what it checked still holds when
\* it writes.
LEMMA HubChecksInv ==
  ASSUME AccountPageIInv, NEW p \in Tabs, HubChecks(p)
  PROVE  AccountPageIInv'
<1>1. PICK kind \in Removals : Stage(p, kind, "sent") /\ ~(OnlyFactor(kind) /\ required)
  BY DEF HubChecks
<1>2. /\ request' = [request EXCEPT ![p].stage = "checked"]
      /\ UNCHANGED <<required, totp, passkeys, secretsMade, opened, scanned, overlapped>>
  BY DEF HubChecks, Goes, factorVars
<1>3. "checked" \in Stages
  BY DEF Stages
<1>4. /\ request' \in [Tabs -> Requests] /\ CodesAreScanned'
      /\ request'[p].kind = kind
      /\ \A o \in Tabs \ {p} : request'[o] = request[o]
  BY <1>1, <1>2, <1>3, StageIs DEF Stage
<1>5. CheckedStillHolds'
  <2>1. \A o \in Tabs \ {p} : OnlyFactor(request[o].kind)' = OnlyFactor(request[o].kind)
    BY <1>2, <1>4 DEF OnlyFactor
  <2>2. OnlyFactor(request[p].kind)' = OnlyFactor(kind)
    BY <1>2, <1>4 DEF OnlyFactor
  <2> QED
    BY <1>1, <1>2, <1>4, <2>1, <2>2 DEF AccountPageIInv, CheckedStillHolds
<1> QED
  BY <1>2, <1>4, <1>5 DEF AccountPageIInv, PageIsTyped, PhoneHasSecret

LEMMA HubRemovesInv ==
  ASSUME AccountPageIInv, NEW p \in Tabs, HubRemoves(p)
  PROVE  AccountPageIInv'
<1>1. /\ request[p].stage = "checked"
      /\ request' = [request EXCEPT ![p].stage = "done"]
      /\ totp' \in {0, totp}
      /\ overlapped' = (overlapped \/ \E q \in Tabs \ {p} : request[q].stage = "checked")
      /\ UNCHANGED <<required, secretsMade, opened, scanned>>
  BY DEF HubRemoves, Goes
<1>2. passkeys' \in Nat
  BY DEF HubRemoves, AccountPageIInv, PageIsTyped
<1>3. "done" \in Stages
  BY DEF Stages
<1>4. /\ request' \in [Tabs -> Requests] /\ CodesAreScanned'
      /\ request'[p].stage = "done"
      /\ \A o \in Tabs \ {p} : request'[o] = request[o]
  BY <1>1, <1>3, StageIs
<1>5. CheckedStillHolds'
  BY <1>1, <1>4 DEF CheckedStillHolds
<1> QED
  BY <1>1, <1>2, <1>4, <1>5 DEF AccountPageIInv, PageIsTyped, PhoneHasSecret

LEMMA HubEnrollsInv ==
  ASSUME AccountPageIInv, NEW p \in Tabs, HubEnrolls(p)
  PROVE  AccountPageIInv'
<1> DEFINE q == [request[p] EXCEPT !.stage = "done", !.secret = secretsMade']
<1>1. /\ request[p].kind = "begin"
      /\ secretsMade' \in Nat
      /\ UNCHANGED <<required, totp, passkeys, opened, scanned, overlapped>>
  BY DEF HubEnrolls, Stage, AccountPageIInv, PageIsTyped
<1>2. request' = [request EXCEPT ![p] = q]
  BY DEF HubEnrolls
<1>3. q \in Requests /\ q.kind = "begin" /\ q.stage = "done"
  <2>1. request[p] \in Requests
    BY DEF AccountPageIInv, PageIsTyped
  <2> QED
    BY <1>1, <2>1 DEF Requests, Stages
<1> HIDE DEF q
<1>4. /\ request' \in [Tabs -> Requests] /\ CodesAreScanned' /\ request'[p] = q
      /\ \A o \in Tabs \ {p} : request'[o] = request[o]
  BY <1>1, <1>2, <1>3, RequestGoesOn
<1>5. CheckedStillHolds'
  <2>1. passkeys' \in Nat /\ passkeys <= passkeys'
    BY <1>1 DEF AccountPageIInv, PageIsTyped
  <2> QED
    BY <1>1, <1>3, <1>4, <2>1, ChecksStay
<1> QED
  BY <1>1, <1>4, <1>5 DEF AccountPageIInv, PageIsTyped, PhoneHasSecret

\* The other requests of the hub, and the prompt of a passkey.
LEMMA HubDoesInv ==
  ASSUME AccountPageIInv, NEW p \in Tabs,
         \/ HubActivates(p) \/ HubOffers(p) \/ Prompted(p) \/ HubRegisters(p)
         \/ HubSetsPassword(p) \/ HubForgetsThen(p) \/ HubDoesRest(p)
  PROVE  AccountPageIInv'
<1>1. PICK stage \in {"done", "prompt", "verify", "written"} : Goes(p, stage)
  BY DEF HubActivates, HubOffers, Prompted, HubRegisters, HubSetsPassword, HubForgetsThen,
         HubDoesRest
<1>2. /\ request' = [request EXCEPT ![p].stage = stage]
      /\ UNCHANGED <<required, opened, scanned, overlapped, secretsMade>>
  BY <1>1 DEF Goes, HubActivates, HubOffers, Prompted, HubRegisters, HubSetsPassword,
              HubForgetsThen, HubDoesRest, factorVars
<1>3. stage \in Stages \ {"checked"}
  BY DEF Stages
<1>4. passkeys' \in Nat /\ passkeys <= passkeys'
  <2>1. passkeys' \in {passkeys, passkeys + 1}
    BY DEF HubActivates, HubOffers, Prompted, HubRegisters, HubSetsPassword, HubForgetsThen,
           HubDoesRest, factorVars
  <2> QED
    BY <2>1 DEF AccountPageIInv, PageIsTyped
<1>5. totp' = totp \/ (totp' # 0 /\ totp' \in scanned)
  <2>1. CASE HubActivates(p)
    <3>1. request[p].kind = "activate" /\ totp' = pending /\ pending # 0
          /\ request[p].secret = pending
      BY <2>1 DEF HubActivates, Stage
    <3> QED
      BY <3>1 DEF AccountPageIInv, CodesAreScanned
  <2>2. CASE ~HubActivates(p)
    BY <2>2 DEF HubOffers, Prompted, HubRegisters, HubSetsPassword, HubForgetsThen,
                HubDoesRest, factorVars
  <2> QED
    BY <2>1, <2>2
<1>6. secretsMade' \in Nat
  BY <1>2 DEF AccountPageIInv, PageIsTyped
<1> QED
  BY <1>2, <1>3, <1>4, <1>5, <1>6, HubGoesInv

\* What the visitor presses.
LEMMA VisitorInv ==
  ASSUME AccountPageIInv, NEW p \in Tabs,
         \/ \E kind \in ClickKinds : Click(p, kind)
         \/ \E form \in AccountForms : OpenForm(p, form)
         \/ SubmitForm(p) \/ SubmitCode(p) \/ CloseIt(p)
  PROVE  AccountPageIInv'
<1>1. CASE \E kind \in ClickKinds : Click(p, kind)
  <2>1. PICK kind \in ClickKinds : Starts(p, kind, 0) /\ scanned' = scanned
    BY <1>1 DEF Click
  <2>2. kind \in Kinds /\ kind # "activate" /\ 0 \in Nat
    BY DEF Kinds, ClickKinds
  <2> QED
    BY <2>1, <2>2, StartsInv
<1>2. CASE SubmitForm(p)
  <2>1. Starts(p, opened[p].name, 0) /\ scanned' = scanned
        /\ opened[p].name \in AccountForms
    BY <1>2 DEF SubmitForm
  <2>2. opened[p].name \in Kinds /\ opened[p].name # "activate" /\ 0 \in Nat
    BY <2>1 DEF Kinds, AccountForms
  <2> QED
    BY <2>1, <2>2, StartsInv
<1>3. CASE SubmitCode(p)
  <2>1. Starts(p, "activate", opened[p].secret)
        /\ scanned' = scanned \cup {opened[p].secret}
    BY <1>3 DEF SubmitCode
  <2>2. "activate" \in Kinds /\ opened[p].secret \in Nat
    BY DEF Kinds, AccountPageIInv, PageIsTyped
  <2> QED
    BY <2>1, <2>2, StartsInv
<1>4. CASE CloseIt(p) \/ \E form \in AccountForms : OpenForm(p, form)
  <2>1. UNCHANGED <<required, totp, passkeys, secretsMade, request, scanned, overlapped>>
    BY <1>4 DEF CloseIt, OpenForm, hubAccountVars, factorVars
  <2>2. opened' \in [Tabs -> [name : DialogNames, secret : Nat]]
    BY <1>4 DEF CloseIt, OpenForm, Closed, DialogNames, AccountPageIInv, PageIsTyped
  <2> QED
    BY <2>1, <2>2 DEF AccountPageIInv, PageIsTyped, CodesAreScanned, PhoneHasSecret,
                      CheckedStillHolds, OnlyFactor
<1> QED
  BY <1>1, <1>2, <1>3, <1>4

\* What the page does with an answer, or without one.
LEMMA AnswerInv ==
  ASSUME AccountPageIInv, NEW p \in Tabs, Answered(p) \/ Refreshed(p) \/ Fails(p)
  PROVE  AccountPageIInv'
<1>1. opened' \in [Tabs -> [name : DialogNames, secret : Nat]]
  <2>1. CASE Answered(p)
    <3>1. opened' = [opened EXCEPT ![p] = DialogThen(p)]
      BY <2>1 DEF Answered
    <3>2. DialogThen(p) \in [name : DialogNames, secret : Nat]
      <4>1. request[p].secret \in Nat /\ opened[p] \in [name : DialogNames, secret : Nat]
        BY DEF AccountPageIInv, PageIsTyped, Requests
      <4> QED
        BY <4>1 DEF DialogThen, DialogNames, Closed
    <3> QED
      BY <3>1, <3>2 DEF AccountPageIInv, PageIsTyped
  <2>2. CASE Refreshed(p) \/ Fails(p)
    BY <2>2 DEF Refreshed, Fails, AccountPageIInv, PageIsTyped
  <2> QED
    BY <2>1, <2>2
<1>2. UNCHANGED <<hubAccountVars, scanned, overlapped>>
  BY DEF Answered, Refreshed, Fails
<1>3. CASE request' = [request EXCEPT ![p] = Idle]
  BY <1>1, <1>2, <1>3, EndsInv
<1>4. CASE request' = [request EXCEPT ![p].stage = "refresh"]
  <2>1. "refresh" \in Stages \ {"checked"}
    BY DEF Stages
  <2>2. /\ request' \in [Tabs -> Requests] /\ CodesAreScanned'
        /\ request'[p].stage = "refresh"
        /\ \A o \in Tabs \ {p} : request'[o] = request[o]
    BY <1>2, <1>4, <2>1, StageIs
  <2>3. UNCHANGED <<required, totp, passkeys, secretsMade>>
    BY <1>2 DEF hubAccountVars, factorVars
  <2>4. passkeys' \in Nat /\ passkeys <= passkeys'
    BY <2>3 DEF AccountPageIInv, PageIsTyped
  <2>5. CheckedStillHolds'
    BY <1>2, <2>2, <2>3, <2>4, ChecksStay
  <2> QED
    BY <1>1, <1>2, <2>2, <2>3, <2>5 DEF AccountPageIInv, PageIsTyped, PhoneHasSecret
<1> QED
  BY <1>3, <1>4 DEF Answered, Refreshed, Fails

LEMMA AccountPageInitInv == ASSUME AccountPageInit PROVE AccountPageIInv
<1>1. Closed \in [name : DialogNames, secret : Nat] /\ Idle \in Requests
      /\ Idle.kind = "nothing" /\ Idle.stage = "none"
  BY DEF Closed, DialogNames, Idle, Requests, Kinds, Stages
<1> QED
  BY <1>1 DEF AccountPageInit, AccountPageIInv, PageIsTyped, CodesAreScanned, PhoneHasSecret,
              CheckedStillHolds

LEMMA AccountPageStep ==
  ASSUME AccountPageIInv, [AccountPageNext]_accountPageVars
  PROVE  AccountPageIInv'
<1>1. ASSUME NEW p \in Tabs, HubDoesIt(p) \/ Prompted(p)
      PROVE  AccountPageIInv'
  BY <1>1, HubEnrollsInv, HubDoesInv, HubChecksInv, HubRemovesInv DEF HubDoesIt
<1>2. CASE DeviceRemembered \/ Forgotten \/ UNCHANGED accountPageVars
  <2>1. UNCHANGED <<required, totp, passkeys, secretsMade, opened, request, scanned, overlapped>>
    BY <1>2 DEF DeviceRemembered, Forgotten, accountPageVars, hubAccountVars, factorVars, tabVars
  <2> QED
    BY <2>1 DEF AccountPageIInv, PageIsTyped, CodesAreScanned, PhoneHasSecret,
                CheckedStillHolds, OnlyFactor
<1> QED
  BY <1>1, <1>2, VisitorInv, AnswerInv DEF AccountPageNext

\* The secret of the next sign-in is one the visitor's phone has, in any number of tabs,
\* however enrollments are given up, overtaken or lost.
THEOREM AccountPhoneHasSecret == AccountPageSpec => []PhoneHasSecret
<1>1. AccountPageIInv => PhoneHasSecret
  BY DEF AccountPageIInv
<1> QED
  BY <1>1, AccountPageInitInv, AccountPageStep, PTL DEF AccountPageSpec

\* An account that must have a second factor keeps its last one, unless two removals
\* overlap: a removal takes it only if its check no longer holds, and only another
\* removal between check and write can make it so.
THEOREM AccountLastFactorStays == AccountPageSpec => LastFactorStays
<1>1. ASSUME AccountPageIInv, AccountPageNext, required, totp # 0 \/ passkeys > 0,
             totp' = 0, passkeys' = 0
      PROVE  overlapped'
  <2>1. PICK p \in Tabs : HubRemoves(p)
    <3>1. ASSUME \A p \in Tabs : ~HubRemoves(p)
          PROVE  (totp' = totp \/ totp' # 0) /\ passkeys' \in {passkeys, passkeys + 1}
      BY <1>1, <3>1
         DEF AccountPageNext, HubDoesIt, Click, OpenForm, SubmitForm, SubmitCode, CloseIt, Starts,
             HubEnrolls, HubActivates, HubOffers, Prompted, HubRegisters, HubChecks,
             HubSetsPassword, HubForgetsThen, HubDoesRest, Answered, Refreshed, Fails,
             DeviceRemembered, Forgotten, hubAccountVars, factorVars
    <3>2. passkeys \in Nat
      BY <1>1 DEF AccountPageIInv, PageIsTyped
    <3> QED
      BY <1>1, <3>1, <3>2
  <2>2. SUFFICES ASSUME ~overlapped'
                 PROVE  FALSE
    OBVIOUS
  <2>3. request[p].stage = "checked" /\ ~overlapped
    BY <2>1, <2>2 DEF HubRemoves
  <2>4. request[p].kind \in Removals /\ ~OnlyFactor(request[p].kind)
    BY <1>1, <2>3 DEF AccountPageIInv, CheckedStillHolds
  <2>5. passkeys \in Nat
    BY <1>1 DEF AccountPageIInv, PageIsTyped
  <2>6. CASE request[p].kind = "disable"
    BY <1>1, <2>1, <2>4, <2>6 DEF HubRemoves, OnlyFactor
  <2>7. CASE request[p].kind = "remove"
    <3>1. totp' = totp /\ passkeys' \in {passkeys, IF passkeys > 0 THEN passkeys - 1 ELSE 0}
      BY <2>1, <2>7 DEF HubRemoves
    <3>2. totp # 0 \/ passkeys > 1
      BY <2>4, <2>5, <2>7 DEF OnlyFactor
    <3> QED
      BY <1>1, <2>5, <3>1, <3>2
  <2> QED
    BY <2>4, <2>6, <2>7 DEF Removals
<1>2. AccountPageIInv /\ [AccountPageNext]_accountPageVars
        => [required /\ (totp # 0 \/ passkeys > 0) /\ totp' = 0 /\ passkeys' = 0
              => overlapped']_accountPageVars
  BY <1>1
<1> QED
  BY <1>2, AccountPageInitInv, AccountPageStep, PTL DEF AccountPageSpec, LastFactorStays

-----------------------------------------------------------------------------
(* The administrators' page *)

Does == {"agent", "user", "roles", "retoken"} \cup Forms

Asks == [button : Buttons, does : Does, role : MfaRoles \cup {"none"},
         sends : SUBSET MfaRoles, stage : {"sent", "done"}]

\* A request whose dialog stays until the answer.
Kept(c) == c.does \in Forms \cup {"retoken"}

Versions == [Lists -> Nat]

AdminIsTyped ==
  /\ onHub \in Versions /\ screen \in Versions /\ told \in Versions
  /\ asks \subseteq Asks
  /\ loads \subseteq [nr : Nat, since : Versions]
  /\ begun \in Nat /\ shown \in Nat
  /\ rolesAt \in [0 .. onHub["settings"] -> SUBSET MfaRoles]

\* Versions only grow, and the newest load began after everything that was told.
LoadsFollow ==
  /\ \A l \in Lists : told[l] <= onHub[l] /\ screen[l] <= onHub[l]
  /\ \A d \in loads, l \in Lists :
       d.nr <= begun /\ d.since[l] <= onHub[l] /\ (d.nr = begun => told[l] <= d.since[l])
  /\ shown <= begun

\* While the administrator waits for answers, a dialog that stays is that of the one
\* request it waits for.
DialogWaits ==
  ~hurried =>
    /\ \A c \in asks : Kept(c) =>
         dialog.kind = c.does /\ (c.does \in Forms => dialog.waits = c.button)
    /\ \A c, d \in asks : Kept(c) /\ Kept(d) => c = d

\* Among clicks on lists up to date there is one request for the roles at a time, made
\* from the roles there are; once it is carried out, the answer will tell of them.
RolesFollow ==
  ~blind =>
    /\ \A c, d \in asks : c.does = "roles" /\ d.does = "roles" => c = d
    /\ \A c \in asks :
         c.does = "roles" /\ c.stage = "sent" => c.sends = Toggled(chosen, c.role)
    /\ (\A c \in asks : c.does = "roles" => c.stage # "done")
         => told["settings"] = onHub["settings"]

DialogIsTyped ==
  dialog \in [kind : Dialogs \cup {"none", "token"}, waits : Buttons \cup {"nothing"}]

AdminIInv ==
  /\ AdminIsTyped /\ LoadsFollow /\ ListsShowOwnActions
  /\ DialogIsTyped /\ DialogWaits
  /\ RolesFollow /\ RolesAsClicked

\* The roles of the new version are the new ones; those of the others stay.
LEMMA NewRolesIs ==
  ASSUME NEW v \in Nat, v = onHub["settings"], rolesAt \in [0 .. v -> SUBSET MfaRoles],
         NEW roles \in SUBSET MfaRoles, NewRoles(roles)
  PROVE  rolesAt' \in [0 .. v + 1 -> SUBSET MfaRoles] /\ rolesAt'[v + 1] = roles
BY DEF NewRoles

\* A request that is sent: nothing else changes with it but the dialog and the histories.
LEMMA SendIs ==
  ASSUME AdminIInv, NEW b \in Buttons, NEW does \in Does, NEW role \in MfaRoles \cup {"none"},
         does = "roles" => role \in MfaRoles, Send(b, does, role)
  PROVE  \E c \in Asks :
           /\ asks' = asks \cup {c}
           /\ c.button = b /\ c.does = does /\ c.role = role /\ c.stage = "sent"
           /\ does = "roles" => c.sends = Toggled(screenRoles, role)
           /\ UNCHANGED <<onHub, rolesAt, loads, begun, shown, screen, told, chosen>>
<1> DEFINE sends == IF does = "roles" THEN Toggled(screenRoles, role) ELSE {}
           c == [button |-> b, does |-> does, role |-> role, sends |-> sends, stage |-> "sent"]
<1>1. asks' = asks \cup {c}
  BY DEF Send
<1>2. UNCHANGED <<onHub, rolesAt, loads, begun, shown, screen, told, chosen>>
  BY DEF Send, hubAll, loadVars
<1>3. sends \in SUBSET MfaRoles
  <2>1. screenRoles \in SUBSET MfaRoles
    <3>1. screen["settings"] \in 0 .. onHub["settings"]
      BY DEF AdminIInv, AdminIsTyped, LoadsFollow, Versions, Lists
    <3> QED
      BY <3>1 DEF screenRoles, AdminIInv, AdminIsTyped
  <2> QED
    BY <2>1 DEF Toggled
<1> HIDE DEF sends
<1>4. c \in Asks
  BY <1>3 DEF Asks
<1>5. does = "roles" => c.sends = Toggled(screenRoles, role)
  BY DEF sends
<1> QED
  BY <1>1, <1>2, <1>4, <1>5

\* A request the hub carries out.
LEMMA HubDoesIs ==
  ASSUME AdminIInv, NEW c \in asks, HubDoes(c)
  PROVE  \E d \in Asks :
           /\ c.stage = "sent" /\ asks' = (asks \ {c}) \cup {d}
           /\ d.button = c.button /\ d.does = c.does /\ d.role = c.role /\ d.sends = c.sends
           /\ d.stage = "done"
<1> DEFINE d == [c EXCEPT !.stage = "done"]
<1>1. c \in Asks
  BY DEF AdminIInv, AdminIsTyped
<1>2. d \in Asks /\ d.button = c.button /\ d.does = c.does /\ d.role = c.role
      /\ d.sends = c.sends /\ d.stage = "done"
  BY <1>1 DEF Asks
<1>3. c.stage = "sent" /\ asks' = (asks \ {c}) \cup {d}
  BY DEF HubDoes, At
<1> QED
  BY <1>2, <1>3

\* What a request changes is one of the lists, and only one for the roles their own.
LEMMA ChangesAre ==
  ASSUME NEW does \in Does
  PROVE  Changes[does] \in Lists /\ (Changes[does] = "settings" <=> does = "roles")
BY DEF Does, Forms, Changes, Lists

\* The buttons of the page and of its dialogs, by what they send.
LEMMA ButtonsSend ==
  ASSUME NEW b \in Buttons,
         \/ \E does \in {"agent", "user"} : Press(b, does) \/ Confirm(b, does)
         \/ \E role \in MfaRoles : ClickRole(b, role)
         \/ ConfirmRetoken(b)
         \/ Submit(b)
  PROVE  \E does \in Does, role \in MfaRoles \cup {"none"} :
           /\ Send(b, does, role)
           /\ does = "roles" => role \in MfaRoles /\ blind' = (blind \/ ~UpToDate)
           /\ does # "roles" => blind' = blind
           /\ \/ does \notin Forms \cup {"retoken"} /\ hurried' = hurried
                 /\ dialog.kind \in {"none", "confirm"}
              \/ does = "retoken" /\ dialog' = dialog /\ dialog.kind = "retoken"
                 /\ hurried' = (hurried \/ Waiting("retoken"))
              \/ does \in Forms /\ dialog.kind = does /\ dialog.waits = "nothing"
                 /\ dialog' = [dialog EXCEPT !.waits = b] /\ hurried' = hurried
<1>1. ASSUME NEW does \in {"agent", "user"}, Press(b, does) \/ Confirm(b, does)
      PROVE  /\ does \in Does /\ does \notin Forms \cup {"retoken"} /\ does # "roles"
             /\ Send(b, does, "none") /\ blind' = blind /\ hurried' = hurried
             /\ dialog.kind \in {"none", "confirm"}
  BY <1>1 DEF Press, Confirm, Does, Forms, NoDialog
<1>2. ASSUME NEW role \in MfaRoles, ClickRole(b, role)
      PROVE  /\ "roles" \in Does /\ "roles" \notin Forms \cup {"retoken"}
             /\ Send(b, "roles", role) /\ blind' = (blind \/ ~UpToDate) /\ hurried' = hurried
             /\ dialog.kind \in {"none", "confirm"}
  BY <1>2 DEF ClickRole, Does, Forms, NoDialog
<1>3. CASE ConfirmRetoken(b)
  BY <1>3 DEF ConfirmRetoken, Does
<1>4. CASE Submit(b)
  BY <1>4 DEF Submit, Does, Forms
<1> QED
  BY <1>1, <1>2, <1>3, <1>4

-----------------------------------------------------------------------------
\* The lists: what is typed, and what the loads bring.
ListsInv == AdminIsTyped /\ LoadsFollow /\ ListsShowOwnActions

LEMMA SendLists ==
  ASSUME AdminIInv, NEW c \in Asks, asks' = asks \cup {c},
         UNCHANGED <<onHub, rolesAt, loads, begun, shown, screen, told>>
  PROVE  ListsInv'
BY DEF AdminIInv, ListsInv, AdminIsTyped, LoadsFollow, ListsShowOwnActions

LEMMA RestLists ==
  ASSUME AdminIInv, asks' \subseteq asks,
         UNCHANGED <<onHub, rolesAt, loads, begun, shown, screen, told>>
  PROVE  ListsInv'
BY DEF AdminIInv, ListsInv, AdminIsTyped, LoadsFollow, ListsShowOwnActions

\* A version more of one list.
LEMMA ChangeLists ==
  ASSUME AdminIInv, NEW l \in Lists, onHub' = [onHub EXCEPT ![l] = @ + 1],
         IF l = "settings" THEN \E roles \in SUBSET MfaRoles : NewRoles(roles)
                           ELSE rolesAt' = rolesAt,
         asks' \subseteq Asks, UNCHANGED <<loads, begun, shown, screen, told>>
  PROVE  ListsInv'
<1>1. /\ onHub' \in Versions
      /\ \A k \in Lists : onHub[k] \in Nat /\ onHub[k] <= onHub'[k]
      /\ onHub'["settings"] = IF l = "settings" THEN onHub["settings"] + 1 ELSE onHub["settings"]
  BY DEF AdminIInv, AdminIsTyped, Versions, Lists
<1>2. rolesAt' \in [0 .. onHub'["settings"] -> SUBSET MfaRoles]
  <2>1. "settings" \in Lists
    BY DEF Lists
  <2> QED
    BY <1>1, <2>1, NewRolesIs DEF AdminIInv, AdminIsTyped
<1>3. AdminIsTyped'
  BY <1>1, <1>2 DEF AdminIInv, AdminIsTyped
<1>4. \A k \in Lists : told[k] \in Nat /\ screen[k] \in Nat /\ onHub'[k] \in Nat
  BY <1>1 DEF AdminIInv, AdminIsTyped, Versions
<1>5. ASSUME NEW d \in loads, NEW k \in Lists
      PROVE  d.since[k] \in Nat
  BY DEF AdminIInv, AdminIsTyped, Versions
<1>6. LoadsFollow'
  BY <1>1, <1>4, <1>5 DEF AdminIInv, LoadsFollow
<1> QED
  BY <1>3, <1>6 DEF AdminIInv, ListsInv, ListsShowOwnActions

\* The answer of a request, and the load it asks for.
LEMMA SucceededLists ==
  ASSUME AdminIInv, NEW c \in asks, Succeeded(c)
  PROVE  ListsInv'
<1> DEFINE k == Changes[c.does]
           new == NewLoad(begun')
<1>1. /\ asks' = asks \ {c}
      /\ told' = [told EXCEPT ![k] = onHub[k]]
      /\ begun' = begun + 1 /\ loads' = loads \cup {new}
      /\ UNCHANGED <<onHub, rolesAt, shown, screen>>
  BY DEF Succeeded, BeginLoad, hubAll
<1>2. k \in Lists
  BY ChangesAre DEF AdminIInv, AdminIsTyped, Asks
<1>3. begun \in Nat /\ begun' \in Nat /\ onHub \in Versions
  BY <1>1 DEF AdminIInv, AdminIsTyped
<1>4. new \in [nr : Nat, since : Versions] /\ new.nr = begun + 1 /\ new.since = onHub
  BY <1>1, <1>3 DEF NewLoad
<1> HIDE DEF k, new
<1>5. told' \in Versions /\ \A l \in Lists : told'[l] = IF l = k THEN onHub[l] ELSE told[l]
  BY <1>1, <1>2, <1>3 DEF AdminIInv, AdminIsTyped, Versions
<1>6. AdminIsTyped'
  BY <1>1, <1>3, <1>4, <1>5 DEF AdminIInv, AdminIsTyped
<1>7. \A l \in Lists : onHub[l] \in Nat /\ told'[l] <= onHub[l]
  BY <1>3, <1>5 DEF AdminIInv, LoadsFollow, Versions
<1>8. \A d \in loads : d.nr \in Nat /\ d.nr <= begun
  <2>1. "users" \in Lists
    BY DEF Lists
  <2> QED
    BY <2>1 DEF AdminIInv, AdminIsTyped, LoadsFollow
<1>9. ASSUME NEW d \in loads', NEW l \in Lists
      PROVE  d.nr <= begun' /\ d.since[l] <= onHub[l] /\ (d.nr = begun' => told'[l] <= d.since[l])
  <2>1. CASE d \in loads
    <3>1. d.nr <= begun' /\ d.nr # begun'
      BY <1>1, <1>3, <1>8, <2>1
    <3> QED
      BY <2>1, <3>1 DEF AdminIInv, LoadsFollow
  <2>2. CASE d = new
    BY <1>1, <1>3, <1>4, <1>7, <2>2
  <2> QED
    BY <1>1, <2>1, <2>2
<1>10. shown <= begun' /\ shown # begun'
  BY <1>1, <1>3 DEF AdminIInv, AdminIsTyped, LoadsFollow
<1>11. LoadsFollow'
  BY <1>1, <1>7, <1>9, <1>10 DEF AdminIInv, LoadsFollow
<1> QED
  BY <1>1, <1>6, <1>10, <1>11 DEF ListsInv, ListsShowOwnActions

LEMMA LoadDoneLists ==
  ASSUME AdminIInv, NEW d \in loads, LoadDone(d)
  PROVE  ListsInv'
<1>1. /\ screen' \in [Lists -> 0 .. Total]
      /\ \A l \in Lists : d.since[l] <= screen'[l] /\ screen'[l] <= onHub[l]
      /\ loads' = loads \ {d} /\ shown' = d.nr
      /\ UNCHANGED <<onHub, rolesAt, begun, asks, told>>
  BY DEF LoadDone, hubAll
<1>2. Total \in Nat
  BY DEF Total, AdminIInv, AdminIsTyped, Versions, Lists
<1>3. screen' \in Versions
  BY <1>1, <1>2 DEF Versions
<1>4. d.nr \in Nat
  BY DEF AdminIInv, AdminIsTyped
<1>5. AdminIsTyped'
  BY <1>1, <1>3, <1>4 DEF AdminIInv, AdminIsTyped
<1>6. d.nr <= begun
  <2>1. "users" \in Lists
    BY DEF Lists
  <2> QED
    BY <2>1 DEF AdminIInv, LoadsFollow
<1>7. LoadsFollow'
  BY <1>1, <1>6 DEF AdminIInv, LoadsFollow
<1>8. ASSUME d.nr = begun, NEW l \in Lists
      PROVE  told[l] <= screen'[l]
  <2>1. told[l] <= d.since[l] /\ d.since[l] <= screen'[l]
    BY <1>1, <1>8 DEF AdminIInv, LoadsFollow
  <2>2. told[l] \in Nat /\ d.since[l] \in Nat /\ screen'[l] \in Nat
    BY <1>3 DEF AdminIInv, AdminIsTyped, Versions
  <2> QED
    BY <2>1, <2>2
<1>9. \A l \in Lists : told[l] \in Nat /\ screen'[l] \in Nat
  BY <1>3 DEF AdminIInv, AdminIsTyped, Versions
<1>10. ListsShowOwnActions'
  BY <1>1, <1>8, <1>9 DEF ListsShowOwnActions
<1> QED
  BY <1>5, <1>7, <1>10 DEF ListsInv

LEMMA LoadFailsLists ==
  ASSUME AdminIInv, NEW d \in loads, LoadFails(d)
  PROVE  ListsInv'
BY DEF LoadFails, hubAll, AdminIInv, ListsInv, AdminIsTyped, LoadsFollow, ListsShowOwnActions

-----------------------------------------------------------------------------
(* The dialogs *)

LEMMA SendDialog ==
  ASSUME AdminIInv, NEW c \in Asks, asks' = asks \cup {c},
         \/ ~Kept(c) /\ hurried' = hurried /\ dialog.kind \in {"none", "confirm"}
         \/ c.does = "retoken" /\ dialog' = dialog /\ dialog.kind = "retoken"
            /\ hurried' = (hurried \/ Waiting("retoken"))
         \/ c.does \in Forms /\ dialog.kind = c.does /\ dialog.waits = "nothing"
            /\ dialog' = [dialog EXCEPT !.waits = c.button] /\ hurried' = hurried
            /\ dialog'.kind = dialog.kind /\ dialog'.waits = c.button
  PROVE  DialogWaits'
<1> SUFFICES ASSUME ~hurried'
             PROVE  /\ \A d \in asks' : Kept(d) =>
                         dialog'.kind = d.does /\ (d.does \in Forms => dialog'.waits = d.button)
                    /\ \A d, e \in asks' : Kept(d) /\ Kept(e) => d = e
  BY DEF DialogWaits, Kept
<1>1. ~hurried
  OBVIOUS
<1>2. \A d \in asks : Kept(d) =>
        dialog.kind = d.does /\ (d.does \in Forms => dialog.waits = d.button)
  BY <1>1 DEF AdminIInv, DialogWaits
<1>3. \A d \in asks : d.button \in Buttons
  BY DEF AdminIInv, AdminIsTyped, Asks
<1>4. CASE ~Kept(c) /\ dialog.kind \in {"none", "confirm"}
  <2>1. \A d \in asks' : ~Kept(d)
    BY <1>2, <1>4 DEF Kept, Forms
  <2> QED
    BY <2>1
<1>5. CASE c.does = "retoken" /\ dialog' = dialog /\ dialog.kind = "retoken"
           /\ hurried' = (hurried \/ Waiting("retoken"))
  <2>1. \A d \in asks : ~Kept(d)
    BY <1>2, <1>5 DEF Waiting
  <2> QED
    BY <1>5, <2>1 DEF Forms
<1>6. CASE c.does \in Forms /\ dialog.kind = c.does /\ dialog.waits = "nothing"
           /\ dialog'.kind = dialog.kind /\ dialog'.waits = c.button
  <2>1. \A d \in asks : ~Kept(d)
    BY <1>2, <1>3, <1>6, ButtonsAssumption
  <2> QED
    BY <1>6, <2>1
<1> QED
  BY <1>4, <1>5, <1>6

LEMMA HubDoesDialog ==
  ASSUME AdminIInv, NEW c \in asks, HubDoes(c)
  PROVE  DialogWaits'
<1>1. PICK d \in Asks :
        /\ asks' = (asks \ {c}) \cup {d} /\ d.button = c.button /\ d.does = c.does
  BY HubDoesIs
<1>2. UNCHANGED <<dialog, hurried>>
  BY DEF HubDoes
<1> QED
  BY <1>1, <1>2 DEF AdminIInv, DialogWaits, Kept

\* Nothing waits in a dialog that opens, or in one that is closed unhurried.
LEMMA OpenCloseDialog ==
  ASSUME AdminIInv, CloseDialog \/ \E kind \in Dialogs : OpenDialog(kind)
  PROVE  DialogWaits'
<1> SUFFICES ASSUME ~hurried'
             PROVE  \A c \in asks : ~Kept(c)
  BY DEF CloseDialog, OpenDialog, DialogWaits, Kept
<1>1. CASE CloseDialog
  BY <1>1 DEF CloseDialog, Waiting, AdminIInv, DialogWaits
<1>2. CASE \E kind \in Dialogs : OpenDialog(kind)
  BY <1>2 DEF OpenDialog, NoDialog, AdminIInv, DialogWaits, Kept, Forms
<1> QED
  BY <1>1, <1>2

LEMMA AnswerDialog ==
  ASSUME AdminIInv, NEW c \in asks, Succeeded(c) \/ Failed(c)
  PROVE  DialogWaits'
<1> SUFFICES ASSUME ~hurried'
             PROVE  DialogWaits'
  BY DEF DialogWaits
<1>1. ~hurried /\ asks' = asks \ {c}
  BY DEF Succeeded, Failed
<1>2. c.does \in Does
  BY DEF AdminIInv, AdminIsTyped, Asks
<1>3. CASE Kept(c)
  <2>1. \A d \in asks' : ~Kept(d)
    BY <1>1, <1>3 DEF AdminIInv, DialogWaits
  <2> QED
    BY <2>1 DEF DialogWaits, Kept
<1>4. CASE ~Kept(c)
  <2>1. ASSUME NEW d \in asks, Kept(d)
        PROVE  dialog' = dialog
    <3>1. dialog.kind = d.does /\ d.does \in Forms \cup {"retoken"} /\ c.does \notin Forms \cup {"retoken"}
      BY <1>1, <1>4, <2>1 DEF AdminIInv, DialogWaits, Kept
    <3> QED
      BY <3>1 DEF Succeeded, Failed, DialogAfter, Forms
  <2> QED
    BY <1>1, <2>1 DEF AdminIInv, DialogWaits, Kept
<1> QED
  BY <1>3, <1>4

-----------------------------------------------------------------------------
(* The roles *)

RolesInv == RolesFollow /\ RolesAsClicked

\* A role is clicked on lists up to date: they show the roles there are.
LEMMA UpToDateShowsRoles ==
  ASSUME AdminIInv, UpToDate, ~blind
  PROVE  screenRoles = hubRoles /\ told["settings"] = onHub["settings"]
<1>1. asks = {} /\ shown = begun
  BY DEF UpToDate
<1>2. told["settings"] = onHub["settings"]
  BY <1>1 DEF AdminIInv, RolesFollow
<1>3. "settings" \in Lists
  BY DEF Lists
<1>4. screen["settings"] \in Nat /\ onHub["settings"] \in Nat
      /\ told["settings"] <= screen["settings"] /\ screen["settings"] <= onHub["settings"]
  BY <1>1, <1>3 DEF AdminIInv, AdminIsTyped, Versions, LoadsFollow, ListsShowOwnActions
<1> QED
  BY <1>2, <1>4 DEF screenRoles, hubRoles

LEMMA SendRoles ==
  ASSUME AdminIInv, NEW c \in Asks, asks' = asks \cup {c}, c.stage = "sent",
         c.does = "roles" =>
           c.sends = Toggled(screenRoles, c.role) /\ blind' = (blind \/ ~UpToDate),
         c.does # "roles" => blind' = blind,
         UNCHANGED <<onHub, rolesAt, told, chosen>>
  PROVE  RolesInv'
<1> SUFFICES ASSUME ~blind'
             PROVE  RolesInv'
  BY DEF RolesInv, RolesFollow, RolesAsClicked
<1>1. ~blind
  OBVIOUS
<1>2. hubRoles = chosen /\ hubRoles' = hubRoles
  BY <1>1 DEF AdminIInv, RolesAsClicked, hubRoles
<1>3. CASE c.does = "roles"
  <2>1. UpToDate /\ asks = {}
    BY <1>3 DEF UpToDate
  <2>2. c.sends = Toggled(chosen, c.role) /\ told["settings"] = onHub["settings"]
    BY <1>1, <1>2, <1>3, <2>1, UpToDateShowsRoles
  <2>3. RolesFollow'
    BY <2>1, <2>2 DEF RolesFollow, Toggled
  <2> QED
    BY <1>2, <2>3 DEF RolesInv, RolesAsClicked
<1>4. CASE c.does # "roles"
  <2>1. RolesFollow'
    BY <1>1, <1>4 DEF AdminIInv, RolesFollow, Toggled
  <2> QED
    BY <1>2, <2>1 DEF RolesInv, RolesAsClicked
<1> QED
  BY <1>3, <1>4

LEMMA HubDoesRoles ==
  ASSUME AdminIInv, NEW c \in asks, HubDoes(c)
  PROVE  RolesInv'
<1> SUFFICES ASSUME ~blind'
             PROVE  RolesInv'
  BY DEF RolesInv, RolesFollow, RolesAsClicked
<1>1. PICK d \in Asks :
        /\ c.stage = "sent" /\ asks' = (asks \ {c}) \cup {d}
        /\ d.does = c.does /\ d.role = c.role /\ d.sends = c.sends /\ d.stage = "done"
  BY HubDoesIs
<1>2. ~blind /\ hubRoles = chosen /\ told' = told
  BY DEF HubDoes, AdminIInv, RolesAsClicked
<1>3. onHub' = [onHub EXCEPT ![Changes[c.does]] = @ + 1]
  BY DEF HubDoes
<1>4. Changes[c.does] \in Lists /\ (Changes[c.does] = "settings" <=> c.does = "roles")
      /\ c \in Asks /\ "settings" \in Lists
  BY ChangesAre DEF AdminIInv, AdminIsTyped, Asks, Lists
<1>5. onHub \in Versions
  BY DEF AdminIInv, AdminIsTyped
<1>6. CASE c.does = "roles"
  <2>1. NewRoles(c.sends) /\ chosen' = Toggled(chosen, c.role)
    BY <1>6 DEF HubDoes
  <2>2. c.sends = Toggled(chosen, c.role)
    BY <1>1, <1>2, <1>6 DEF AdminIInv, RolesFollow
  <2>3. onHub'["settings"] = onHub["settings"] + 1 /\ onHub["settings"] \in Nat
    BY <1>3, <1>4, <1>5, <1>6 DEF Versions
  <2>4. c.sends \in SUBSET MfaRoles
    BY <1>4 DEF Asks
  <2>5. hubRoles' = c.sends
    BY <2>1, <2>3, <2>4, NewRolesIs DEF hubRoles, AdminIInv, AdminIsTyped
  <2>6. \A e \in asks' : e.does = "roles" => e = d
    BY <1>1, <1>2, <1>6 DEF AdminIInv, RolesFollow
  <2>7. d \in asks' /\ d.does = "roles" /\ d.stage = "done"
    BY <1>1, <1>6
  <2>8. RolesFollow'
    BY <2>6, <2>7 DEF RolesFollow
  <2> QED
    BY <2>1, <2>2, <2>5, <2>8 DEF RolesInv, RolesAsClicked
<1>7. CASE c.does # "roles"
  <2>1. UNCHANGED <<rolesAt, chosen>>
    BY <1>7 DEF HubDoes
  <2>2. onHub'["settings"] = onHub["settings"]
    BY <1>3, <1>4, <1>5, <1>7 DEF Versions
  <2>3. \A e \in asks' : e.does = "roles" => e \in asks
    BY <1>1, <1>7
  <2>4. \A e \in asks : e.does = "roles" => e \in asks'
    BY <1>1, <1>7
  <2>5. RolesFollow'
    BY <1>2, <2>1, <2>2, <2>3, <2>4 DEF AdminIInv, RolesFollow, Toggled
  <2> QED
    BY <1>2, <2>1, <2>2, <2>5 DEF RolesInv, RolesAsClicked, hubRoles
<1> QED
  BY <1>6, <1>7

LEMMA AnswerRoles ==
  ASSUME AdminIInv, NEW c \in asks, Succeeded(c) \/ Failed(c)
  PROVE  RolesInv'
<1> SUFFICES ASSUME ~blind'
             PROVE  RolesInv'
  BY DEF RolesInv, RolesFollow, RolesAsClicked
<1>1. asks' = asks \ {c} /\ UNCHANGED <<onHub, rolesAt, chosen>>
  BY DEF Succeeded, Failed, hubAll
<1>2. ~blind
  BY DEF Succeeded, Failed
<1>3. hubRoles' = hubRoles /\ hubRoles = chosen
  BY <1>1, <1>2 DEF hubRoles, AdminIInv, RolesAsClicked
<1>4. ASSUME \A e \in asks' : e.does = "roles" => e.stage # "done"
      PROVE  told'["settings"] = onHub["settings"]
  <2>1. Changes[c.does] \in Lists /\ (Changes[c.does] = "settings" <=> c.does = "roles")
        /\ "settings" \in Lists /\ c \in Asks
    BY ChangesAre DEF AdminIInv, AdminIsTyped, Asks, Lists
  <2>2. told \in Versions
    BY DEF AdminIInv, AdminIsTyped
  <2>3. CASE Succeeded(c) /\ c.does = "roles"
    BY <2>1, <2>2, <2>3 DEF Succeeded, Versions
  <2>4. CASE ~(Succeeded(c) /\ c.does = "roles")
    <3>1. told'["settings"] = told["settings"]
      BY <2>1, <2>2, <2>4 DEF Succeeded, Failed, Versions
    <3>2. \A e \in asks : e.does = "roles" => e.stage # "done"
      BY <1>1, <1>4, <2>4 DEF Failed
    <3> QED
      BY <1>1, <1>2, <3>1, <3>2 DEF AdminIInv, RolesFollow
  <2> QED
    BY <2>3, <2>4
<1>5. RolesFollow'
  BY <1>1, <1>2, <1>4 DEF AdminIInv, RolesFollow, Toggled
<1> QED
  BY <1>1, <1>3, <1>5 DEF RolesInv, RolesAsClicked

-----------------------------------------------------------------------------
\* What a step has to keep, but for what a dialog is.
AdminParts == ListsInv /\ DialogWaits /\ RolesInv

\* Whoever else changes a list changes what no request or dialog of the page is about,
\* but the roles.
LEMMA ElseChangesInv ==
  ASSUME AdminIInv, NEW l \in Lists, ElseChanges(l)
  PROVE  AdminParts'
<1>1. /\ onHub' = [onHub EXCEPT ![l] = @ + 1]
      /\ IF l = "settings" THEN \E roles \in SUBSET MfaRoles : NewRoles(roles)
                           ELSE rolesAt' = rolesAt
      /\ UNCHANGED <<loads, begun, shown, screen, dialog, asks, told, hurried>>
  BY DEF ElseChanges, loadVars
<1>2. ListsInv'
  BY <1>1, ChangeLists DEF AdminIInv, AdminIsTyped
<1>3. DialogWaits'
  BY <1>1 DEF AdminIInv, DialogWaits, Kept
<1>4. RolesInv'
  <2>1. CASE l = "settings"
    <3>1. blind'
      BY <2>1 DEF ElseChanges
    <3> QED
      BY <3>1 DEF RolesInv, RolesFollow, RolesAsClicked
  <2>2. CASE l # "settings"
    <3>1. UNCHANGED <<rolesAt, chosen, blind>>
      BY <2>2 DEF ElseChanges
    <3>2. onHub'["settings"] = onHub["settings"]
      BY <1>1, <2>2 DEF AdminIInv, AdminIsTyped, Versions, Lists
    <3> QED
      BY <1>1, <3>1, <3>2 DEF AdminIInv, RolesInv, RolesFollow, RolesAsClicked, hubRoles, Toggled
  <2> QED
    BY <2>1, <2>2
<1> QED
  BY <1>2, <1>3, <1>4 DEF AdminParts

LEMMA SendInv ==
  ASSUME AdminIInv, NEW b \in Buttons,
         \/ \E does \in {"agent", "user"} : Press(b, does) \/ Confirm(b, does)
         \/ \E role \in MfaRoles : ClickRole(b, role)
         \/ ConfirmRetoken(b)
         \/ Submit(b)
  PROVE  AdminParts'
<1>1. PICK does \in Does, role \in MfaRoles \cup {"none"} :
        /\ Send(b, does, role)
        /\ does = "roles" => role \in MfaRoles /\ blind' = (blind \/ ~UpToDate)
        /\ does # "roles" => blind' = blind
        /\ \/ does \notin Forms \cup {"retoken"} /\ hurried' = hurried
              /\ dialog.kind \in {"none", "confirm"}
           \/ does = "retoken" /\ dialog' = dialog /\ dialog.kind = "retoken"
              /\ hurried' = (hurried \/ Waiting("retoken"))
           \/ does \in Forms /\ dialog.kind = does /\ dialog.waits = "nothing"
              /\ dialog' = [dialog EXCEPT !.waits = b] /\ hurried' = hurried
  BY ButtonsSend
<1>2. PICK c \in Asks :
        /\ asks' = asks \cup {c}
        /\ c.button = b /\ c.does = does /\ c.role = role /\ c.stage = "sent"
        /\ does = "roles" => c.sends = Toggled(screenRoles, role)
        /\ UNCHANGED <<onHub, rolesAt, loads, begun, shown, screen, told, chosen>>
  BY <1>1, SendIs
<1>3. ListsInv'
  BY <1>2, SendLists
<1>4. dialog' = [dialog EXCEPT !.waits = b] => dialog'.kind = dialog.kind /\ dialog'.waits = b
  BY DEF AdminIInv, DialogIsTyped
<1>5. DialogWaits'
  BY <1>1, <1>2, <1>4, SendDialog DEF Kept
<1>6. RolesInv'
  BY <1>1, <1>2, SendRoles
<1> QED
  BY <1>3, <1>5, <1>6 DEF AdminParts

LEMMA HubDoesAdmin ==
  ASSUME AdminIInv, NEW c \in asks, HubDoes(c)
  PROVE  AdminParts'
<1>1. ListsInv'
  <2>1. asks' \subseteq Asks
    BY HubDoesIs DEF AdminIInv, AdminIsTyped
  <2>2. /\ onHub' = [onHub EXCEPT ![Changes[c.does]] = @ + 1]
        /\ UNCHANGED <<loads, begun, shown, screen, told>>
    BY DEF HubDoes, loadVars
  <2>3. Changes[c.does] \in Lists /\ (Changes[c.does] = "settings" <=> c.does = "roles")
        /\ c.sends \in SUBSET MfaRoles
    BY ChangesAre DEF AdminIInv, AdminIsTyped, Asks
  <2>4. IF c.does = "roles" THEN NewRoles(c.sends) ELSE rolesAt' = rolesAt
    BY DEF HubDoes
  <2> QED
    BY <2>1, <2>2, <2>3, <2>4, ChangeLists
<1> QED
  BY <1>1, HubDoesDialog, HubDoesRoles DEF AdminParts

LEMMA AnswerAdmin ==
  ASSUME AdminIInv, NEW c \in asks, Succeeded(c) \/ Failed(c)
  PROVE  AdminParts'
<1>1. ListsInv'
  <2>1. CASE Failed(c)
    BY <2>1, RestLists DEF Failed, hubAll, loadVars
  <2> QED
    BY <2>1, SucceededLists
<1> QED
  BY <1>1, AnswerDialog, AnswerRoles DEF AdminParts

\* Dialogs that open and close, loads that end, and steps of others than the page.
LEMMA OtherAdmin ==
  ASSUME AdminIInv,
         \/ CloseDialog \/ \E kind \in Dialogs : OpenDialog(kind)
         \/ \E d \in loads : LoadDone(d) \/ LoadFails(d)
         \/ UNCHANGED adminVars
  PROVE  AdminParts'
<1>1. UNCHANGED <<onHub, rolesAt, asks, told, chosen, blind>>
  BY DEF CloseDialog, OpenDialog, LoadDone, LoadFails, adminVars, hubAll
<1>2. RolesInv'
  BY <1>1 DEF AdminIInv, RolesInv, RolesFollow, RolesAsClicked, hubRoles, Toggled
<1>3. CASE CloseDialog \/ \E kind \in Dialogs : OpenDialog(kind)
  <2>1. ListsInv'
    BY <1>1, <1>3, RestLists DEF CloseDialog, OpenDialog, loadVars
  <2> QED
    BY <1>2, <1>3, <2>1, OpenCloseDialog DEF AdminParts
<1>4. CASE \E d \in loads : LoadDone(d) \/ LoadFails(d)
  <2>1. UNCHANGED <<dialog, asks, hurried>>
    BY <1>4 DEF LoadDone, LoadFails
  <2>2. DialogWaits'
    BY <2>1 DEF AdminIInv, DialogWaits, Kept
  <2> QED
    BY <1>2, <1>4, <2>2, LoadDoneLists, LoadFailsLists DEF AdminParts
<1>5. CASE UNCHANGED adminVars
  <2>1. UNCHANGED <<loads, begun, shown, screen, dialog, hurried>>
    BY <1>5 DEF adminVars, loadVars
  <2>2. ListsInv' /\ DialogWaits'
    BY <1>1, <2>1, RestLists DEF AdminIInv, DialogWaits, Kept
  <2> QED
    BY <1>2, <2>2 DEF AdminParts
<1> QED
  BY <1>3, <1>4, <1>5

LEMMA AdminInitInv == ASSUME AdminInit PROVE AdminIInv
<1>1. /\ onHub = [l \in Lists |-> 0] /\ screen = onHub /\ told = onHub
      /\ asks = {} /\ begun = 1 /\ shown = 0 /\ chosen = hubRoles
  BY DEF AdminInit
<1>2. onHub \in Versions /\ \A l \in Lists : onHub[l] = 0
  BY <1>1 DEF Versions
<1>3. "settings" \in Lists
  BY DEF Lists
<1>4. rolesAt \in [0 .. onHub["settings"] -> SUBSET MfaRoles]
  BY <1>2, <1>3 DEF AdminInit
<1>5. loads = {[nr |-> 1, since |-> onHub]}
  BY DEF AdminInit, NewLoad
<1>6. AdminIsTyped
  BY <1>1, <1>2, <1>4, <1>5 DEF AdminIsTyped
<1>7. LoadsFollow
  BY <1>1, <1>2, <1>5 DEF LoadsFollow
<1>8. ListsShowOwnActions
  BY <1>1 DEF ListsShowOwnActions
<1>9. DialogIsTyped
  BY DEF AdminInit, DialogIsTyped, NoDialog
<1> QED
  BY <1>1, <1>6, <1>7, <1>8, <1>9 DEF AdminIInv, DialogWaits, RolesFollow, RolesAsClicked

LEMMA DialogStaysTyped == ASSUME AdminIInv, [AdminNext]_adminVars PROVE DialogIsTyped'
<1>1. /\ dialog \in [kind : Dialogs \cup {"none", "token"}, waits : Buttons \cup {"nothing"}]
      /\ \A c \in asks : c.button \in Buttons /\ c.does \in Does
  BY DEF AdminIInv, DialogIsTyped, AdminIsTyped, Asks
<1>2. /\ NoDialog \in [kind : Dialogs \cup {"none", "token"}, waits : Buttons \cup {"nothing"}]
      /\ \A kind \in Dialogs :
           Dialog(kind) \in [kind : Dialogs \cup {"none", "token"}, waits : Buttons \cup {"nothing"}]
  BY DEF NoDialog, Dialog
<1>3. ASSUME NEW b \in Buttons, Submit(b)
      PROVE  DialogIsTyped'
  <2>1. dialog' = [dialog EXCEPT !.waits = b]
    BY <1>3 DEF Submit
  <2> QED
    BY <1>1, <2>1 DEF DialogIsTyped
<1>4. ASSUME NEW c \in asks, Succeeded(c)
      PROVE  DialogIsTyped'
  <2>1. dialog' = DialogAfter(c)
    BY <1>4 DEF Succeeded
  <2>2. [kind |-> "token", waits |-> c.button] \in
          [kind : Dialogs \cup {"none", "token"}, waits : Buttons \cup {"nothing"}]
    BY <1>1
  <2> QED
    BY <1>1, <1>2, <2>1, <2>2 DEF DialogIsTyped, DialogAfter
<1>5. ASSUME NEW c \in asks, Failed(c)
      PROVE  DialogIsTyped'
  <2>1. dialog' = IF c.does = "retoken" THEN NoDialog
                  ELSE IF dialog.waits = c.button /\ dialog.kind = c.does THEN Dialog(c.does)
                  ELSE dialog
    BY <1>5 DEF Failed
  <2>2. dialog.kind = c.does => c.does \in Dialogs
    BY <1>1 DEF Does, Forms
  <2> QED
    BY <1>1, <1>2, <2>1, <2>2 DEF DialogIsTyped
<1>6. ASSUME NEW kind \in Dialogs, OpenDialog(kind)
      PROVE  DialogIsTyped'
  BY <1>2, <1>6 DEF OpenDialog, DialogIsTyped
<1>7. CASE dialog' \in {dialog, NoDialog}
  BY <1>1, <1>2, <1>7 DEF DialogIsTyped
<1>8. \/ \E b \in Buttons : Submit(b)
      \/ \E c \in asks : Succeeded(c) \/ Failed(c)
      \/ \E kind \in Dialogs : OpenDialog(kind)
      \/ dialog' \in {dialog, NoDialog}
  BY DEF AdminNext, Press, Confirm, ClickRole, ConfirmRetoken, CloseDialog, HubDoes, ElseChanges,
         LoadDone, LoadFails, adminVars
<1> QED
  BY <1>3, <1>4, <1>5, <1>6, <1>7, <1>8

LEMMA AdminStep == ASSUME AdminIInv, [AdminNext]_adminVars PROVE AdminIInv'
<1>1. AdminParts'
  BY SendInv, OtherAdmin, HubDoesAdmin, AnswerAdmin, ElseChangesInv DEF AdminNext
<1> QED
  BY <1>1, DialogStaysTyped DEF AdminParts, AdminIInv, ListsInv, RolesInv

\* Whatever order the answers and the loads come in, the newest load shows everything
\* the administrator was told had been done.
THEOREM AdminListsShowOwnActions == AdminSpec => []ListsShowOwnActions
<1>1. AdminIInv => ListsShowOwnActions
  BY DEF AdminIInv
<1> QED
  BY <1>1, AdminInitInv, AdminStep, PTL DEF AdminSpec

\* No click on a role is lost, for any set of roles and any number of requests under way,
\* though the page sends the whole set: unless one is made on a list not up to date.
THEOREM AdminRolesAsClicked == AdminSpec => []RolesAsClicked
<1>1. AdminIInv => RolesAsClicked
  BY DEF AdminIInv
<1> QED
  BY <1>1, AdminInitInv, AdminStep, PTL DEF AdminSpec

\* A token on screen is replaced by no late answer: the only request whose answer changes
\* the dialog is the one the dialog waits for, if nobody hurried.
THEOREM AdminTokenStaysUntilRead == AdminSpec => TokenStaysUntilRead
<1>1. ASSUME AdminIInv, AdminNext, TokenShown, dialog' # dialog, ~hurried
      PROVE  CloseDialog
  <2>1. dialog.kind = "token"
    BY <1>1 DEF TokenShown
  <2>2. \A c \in asks : ~Kept(c)
    BY <1>1, <2>1 DEF AdminIInv, DialogWaits, Kept, Forms
  <2>3. ASSUME NEW c \in asks, Succeeded(c) \/ Failed(c)
        PROVE  FALSE
    <3>1. c.does \in Does /\ c.does \notin Forms \cup {"retoken"}
      BY <1>1, <2>2 DEF AdminIInv, AdminIsTyped, Asks, Kept
    <3> QED
      BY <1>1, <2>1, <2>3, <3>1 DEF Succeeded, Failed, DialogAfter, Forms, Does
  <2>4. ASSUME NEW b \in Buttons,
               \/ \E does \in {"agent", "user"} : Press(b, does) \/ Confirm(b, does)
               \/ \E role \in MfaRoles : ClickRole(b, role)
               \/ ConfirmRetoken(b)
               \/ Submit(b)
        PROVE  FALSE
    BY <1>1, <2>1, <2>4 DEF Press, Confirm, ClickRole, ConfirmRetoken, Submit, Forms
  <2> QED
    BY <1>1, <2>1, <2>3, <2>4
       DEF AdminNext, OpenDialog, NoDialog, HubDoes, ElseChanges, LoadDone, LoadFails
<1>2. AdminIInv /\ [AdminNext]_adminVars
        => [TokenShown /\ dialog' # dialog => CloseDialog \/ hurried]_adminVars
  BY <1>1
<1> QED
  BY <1>2, AdminInitInv, AdminStep, PTL DEF AdminSpec, TokenStaysUntilRead

=============================================================================
