--------------------------- MODULE MCAdministration ---------------------------
(***************************************************************************)
(* Four parts of the administration: the roster of agents as in            *)
(* MCAgentRoster, the users, the administrators' page, and the page of one *)
(* account.  They share no variable: every behaviour runs one of them and  *)
(* leaves the others where they began.  The account runs in two halves,    *)
(* its factors and the rest, whose requests have only the busy flag of     *)
(* their page in common.                                                   *)
(***************************************************************************)
EXTENDS MCAgentRoster, UserAccounts, AdminPage, AccountPage

CONSTANT admin

\* Demote; promote and disable; promote; enable.
MCBodies ==
  {[role |-> "user", enabled |-> "none"],
   [role |-> "admin", enabled |-> "off"],
   [role |-> "admin", enabled |-> "none"],
   [role |-> "none", enabled |-> "on"]}

MCFactorKinds == {"begin", "activate", "disable", "remove", "register"}

VARIABLE part

MCVars == <<part, vars, userVars, adminVars, accountPageVars>>

MCInit ==
  /\ part \in {"roster", "users", "page", "factors", "devices"}
  /\ Init
  /\ UsersInit /\ (part # "users" => bootstrap)
  /\ AdminInit
  /\ hubRoles = {}   \* other roles to begin with would only change places
  /\ AccountPageInit /\ (part # "factors" => required)

MCNext ==
  \/ part = "roster" /\ Next /\ UNCHANGED <<part, userVars, adminVars, accountPageVars>>
  \/ part = "users" /\ UsersNext /\ UNCHANGED <<part, vars, adminVars, accountPageVars>>
  \/ part = "page" /\ AdminNext /\ UNCHANGED <<part, vars, userVars, accountPageVars>>
  \/ /\ part \in {"factors", "devices"}
     /\ AccountPageNext
     /\ \A p \in Tabs :
          \/ request'[p].kind = "nothing"
          \/ request'[p].kind \in MCFactorKinds <=> part = "factors"
     /\ UNCHANGED <<part, vars, userVars, adminVars>>

MCSpec == MCInit /\ [][MCNext]_MCVars

=============================================================================
