------------------------------- MODULE AdminPage -------------------------------
(***************************************************************************)
(* The administrators' page, AdminPage.tsx, and its client, authApi.ts:    *)
(* three lists loaded together, dialogs, and the requests their buttons    *)
(* send.  Nothing keeps a button from being pressed while a request is     *)
(* under way, but the forms that create something; answers come in any     *)
(* order.  What the lists hold is a version, save the roles that must have *)
(* a second factor: the page sends the whole set, made from what it shows. *)
(***************************************************************************)
EXTENDS Naturals, FiniteSets

CONSTANTS
  MfaRoles,    \* roles a second factor can be required of
  Buttons,     \* requests under way at once
  MaxChanges,  \* bound on what changes on the hub
  MaxLoads     \* bound on the loads under way at once

\* A dialog that waits for "nothing" waits for no request.
ASSUME ButtonsAssumption == "nothing" \notin Buttons

Lists == {"agents", "settings", "users"}

\* What a request changes; "agent" and "user" stand for all that act sends.
Changes ==
  [agent |-> "agents", user |-> "users", roles |-> "settings",
   retoken |-> "agents", createAgent |-> "agents", createUser |-> "users"]

Forms == {"createAgent", "createUser"}
Dialogs == {"confirm", "retoken"} \cup Forms

VARIABLES
  onHub,       \* the version of each list on the hub
  rolesAt,     \* the roles a second factor is required of, in each version
  screen,      \* the versions on screen
  dialog,      \* the state modal, and busy of its form: the request it waits for
  asks,        \* requests under way
  loads,       \* runs of load under way, with the versions each began at
  begun,       \* how many began
  shown,       \* the one whose result is on screen, or 0
  told,        \* history: the version when a change of this page was last answered
  chosen,      \* history: the roles as the clicks the hub carried out make them
  hurried,     \* history: a dialog was closed, or confirmed again, before the answer
  blind        \* history: a role was clicked on a list that need not be up to date

hubAll == <<onHub, rolesAt>>
loadVars == <<loads, begun, shown, screen>>
adminVars == <<hubAll, loadVars, dialog, asks, told, chosen, hurried, blind>>

NoDialog == [kind |-> "none", waits |-> "nothing"]
Dialog(kind) == [kind |-> kind, waits |-> "nothing"]

Toggled(set, x) == IF x \in set THEN set \ {x} ELSE set \cup {x}

NewLoad(nr) == [nr |-> nr, since |-> onHub]

hubRoles == rolesAt[onHub["settings"]]
screenRoles == rolesAt[screen["settings"]]

AdminInit ==
  /\ onHub = [l \in Lists |-> 0]
  /\ \E roles \in SUBSET MfaRoles : rolesAt = [v \in 0 .. 0 |-> roles]
  /\ screen = [l \in Lists |-> 0]
  /\ dialog = NoDialog
  /\ asks = {}
  /\ loads = {NewLoad(1)}
  /\ begun = 1
  /\ shown = 0
  /\ told = [l \in Lists |-> 0]
  /\ chosen = hubRoles
  /\ hurried = FALSE
  /\ blind = FALSE

-----------------------------------------------------------------------------
Send(b, does, role) ==
  /\ \A c \in asks : c.button # b
  /\ asks' = asks \cup
       {[button |-> b, does |-> does, role |-> role,
         sends |-> IF does = "roles" THEN Toggled(screenRoles, role) ELSE {},
         stage |-> "sent"]}
  /\ UNCHANGED <<hubAll, loadVars, told, chosen>>

\* The toggles, the role and the file of the page itself, which a dialog covers.  Without
\* the lists there are no rows to act on: only a file can be sent, and orphans deleted.
Press(b, does) ==
  /\ dialog = NoDialog
  /\ does = "user" => shown # 0
  /\ Send(b, does, "none")
  /\ UNCHANGED <<dialog, hurried, blind>>

UpToDate == asks = {} /\ loads = {} /\ shown = begun

ClickRole(b, role) ==
  /\ dialog = NoDialog /\ shown # 0
  /\ Send(b, "roles", role)
  /\ blind' = (blind \/ ~UpToDate)
  /\ UNCHANGED <<dialog, hurried>>

OpenDialog(kind) ==
  /\ dialog = NoDialog
  /\ kind = "retoken" => shown # 0
  /\ dialog' = Dialog(kind)
  /\ UNCHANGED <<hubAll, loadVars, asks, told, chosen, hurried, blind>>

Waiting(kind) == \E c \in asks : c.does = kind

\* Of a new agent, or a regenerated one.
TokenShown == dialog.kind = "token"

\* The button, Escape, or a click beside the dialog.
CloseDialog ==
  /\ dialog # NoDialog
  /\ dialog' = NoDialog
  /\ hurried' = (hurried \/ Waiting(dialog.kind))
  /\ UNCHANGED <<hubAll, loadVars, asks, told, chosen, blind>>

\* The dialogs whose button sends a request and closes them.
Confirm(b, does) ==
  /\ dialog.kind = "confirm"
  /\ does = "user" => shown # 0
  /\ Send(b, does, "none")
  /\ dialog' = NoDialog
  /\ UNCHANGED <<hurried, blind>>

\* The dialog stays until the answer, and its button enabled.
ConfirmRetoken(b) ==
  /\ dialog.kind = "retoken"
  /\ Send(b, "retoken", "none")
  /\ hurried' = (hurried \/ Waiting("retoken"))
  /\ UNCHANGED <<dialog, blind>>

\* Mutant: the form of an agent does not disable its button.
SubmitAlways(b) ==
  /\ dialog.kind \in Forms
  /\ Send(b, dialog.kind, "none")
  /\ UNCHANGED <<dialog, hurried, blind>>

Submit(b) ==
  /\ dialog.kind \in Forms
  /\ dialog.waits = "nothing"
  /\ Send(b, dialog.kind, "none")
  /\ dialog' = [dialog EXCEPT !.waits = b]
  /\ UNCHANGED <<hurried, blind>>

-----------------------------------------------------------------------------
Total == onHub["agents"] + onHub["settings"] + onHub["users"]

At(c, stage) == asks' = (asks \ {c}) \cup {[c EXCEPT !.stage = stage]}

NewRoles(roles) ==
  rolesAt' = [v \in 0 .. onHub["settings"] + 1 |->
                IF v \in DOMAIN rolesAt THEN rolesAt[v] ELSE roles]

HubDoes(c) ==
  /\ c.stage = "sent"
  /\ Total < MaxChanges
  /\ onHub' = [onHub EXCEPT ![Changes[c.does]] = @ + 1]
  /\ IF c.does = "roles"
       THEN NewRoles(c.sends) /\ chosen' = Toggled(chosen, c.role)
       ELSE UNCHANGED <<rolesAt, chosen>>
  /\ At(c, "done")
  /\ UNCHANGED <<loadVars, dialog, told, hurried, blind>>

\* Somebody else changes a list.
ElseChanges(l) ==
  /\ Total < MaxChanges
  /\ onHub' = [onHub EXCEPT ![l] = @ + 1]
  /\ IF l = "settings"
       THEN /\ \E roles \in SUBSET MfaRoles : NewRoles(roles) /\ chosen' = roles
            /\ blind' = TRUE
       ELSE UNCHANGED <<rolesAt, chosen, blind>>
  /\ UNCHANGED <<loadVars, dialog, asks, told, hurried>>

BeginLoad ==
  /\ Cardinality(loads) < MaxLoads
  /\ begun' = begun + 1
  /\ loads' = loads \cup {NewLoad(begun')}
  /\ UNCHANGED <<shown, screen>>

\* What the page does with the answer of a request, besides loading again.
DialogAfter(c) ==
  IF c.does \in {"retoken", "createAgent"} THEN [kind |-> "token", waits |-> c.button]
  ELSE IF c.does = "createUser" THEN NoDialog
  ELSE dialog

\* Mutants: a new user, or a click on a role, is not followed by a load.
SucceededUnlessUser(c) ==
  /\ c.stage = "done"
  /\ asks' = asks \ {c}
  /\ told' = [told EXCEPT ![Changes[c.does]] = onHub[Changes[c.does]]]
  /\ dialog' = DialogAfter(c)
  /\ IF c.does = "createUser" THEN UNCHANGED loadVars ELSE BeginLoad
  /\ UNCHANGED <<hubAll, chosen, hurried, blind>>

SucceededUnlessRoles(c) ==
  /\ c.stage = "done"
  /\ asks' = asks \ {c}
  /\ told' = [told EXCEPT ![Changes[c.does]] = onHub[Changes[c.does]]]
  /\ dialog' = DialogAfter(c)
  /\ IF c.does = "roles" THEN UNCHANGED loadVars ELSE BeginLoad
  /\ UNCHANGED <<hubAll, chosen, hurried, blind>>

Succeeded(c) ==
  /\ c.stage = "done"
  /\ asks' = asks \ {c}
  /\ told' = [told EXCEPT ![Changes[c.does]] = onHub[Changes[c.does]]]
  /\ dialog' = DialogAfter(c)
  /\ BeginLoad
  /\ UNCHANGED <<hubAll, chosen, hurried, blind>>

\* The hub refuses, or the request or its answer is lost: nothing is loaded.
Failed(c) ==
  /\ asks' = asks \ {c}
  /\ dialog' = IF c.does = "retoken" THEN NoDialog
               ELSE IF dialog.waits = c.button /\ dialog.kind = c.does THEN Dialog(c.does)
               ELSE dialog
  /\ blind' = (blind \/ (c.does = "roles" /\ c.stage = "done"))
  /\ UNCHANGED <<hubAll, loadVars, told, chosen, hurried>>

-----------------------------------------------------------------------------
\* All three requests of a load are answered: each with the list as it was when the hub
\* came to it.
LoadDone(d) ==
  /\ screen' \in [Lists -> 0 .. Total]
  /\ \A l \in Lists : d.since[l] <= screen'[l] /\ screen'[l] <= onHub[l]
  /\ loads' = loads \ {d}
  /\ shown' = d.nr
  /\ UNCHANGED <<hubAll, begun, dialog, asks, told, chosen, hurried, blind>>

\* Promise.all: one failure is a failure of all.
LoadFails(d) ==
  /\ loads' = loads \ {d}
  /\ UNCHANGED <<hubAll, begun, shown, screen, dialog, asks, told, chosen, hurried, blind>>

AdminNext ==
  \/ \E b \in Buttons :
       \/ \E does \in {"agent", "user"} : Press(b, does) \/ Confirm(b, does)
       \/ \E role \in MfaRoles : ClickRole(b, role)
       \/ ConfirmRetoken(b)
       \/ Submit(b)
  \/ \E kind \in Dialogs : OpenDialog(kind)
  \/ CloseDialog
  \/ \E c \in asks : HubDoes(c) \/ Succeeded(c) \/ Failed(c)
  \/ \E l \in Lists : ElseChanges(l)
  \/ \E d \in loads : LoadDone(d) \/ LoadFails(d)

AdminSpec == AdminInit /\ [][AdminNext]_adminVars

-----------------------------------------------------------------------------
\* A load after every request: once the newest is on screen, the lists hold everything
\* the administrator was told had been done.
ListsShowOwnActions ==
  shown = begun => \A l \in Lists : screen[l] >= told[l]

\* "One-time token reveal (the only place the raw token appears)": a token on screen goes
\* only when it is closed, if the administrator waited for every answer in its dialog.
TokenStaysUntilRead ==
  [][TokenShown /\ dialog' # dialog => CloseDialog \/ hurried]_adminVars

\* Every click on a role counts: what the hub requires is what the clicks it carried out
\* amount to, unless one was made on a list that need not have been up to date.
RolesAsClicked == ~blind => hubRoles = chosen

=============================================================================
