--------------------------- MODULE MCAgentPoller ---------------------------
(***************************************************************************)
(* The loop of one agent over an old build, the one that replaces it and   *)
(* one that comes after; the way one agent is let into Steam; and the      *)
(* bound it reads from its environment.  The three share no variable, so a *)
(* run of one says what a run of all would: every behaviour runs one of    *)
(* them and leaves the others where they began.                            *)
(***************************************************************************)
EXTENDS AgentPoller, SteamSession, CadenceExpression

\* All bounds of up to five characters, with one operator of each precedence ...
Short == UNION {[1 .. n -> {"1", ".", "-", "/", "(", ")", "%"}] : n \in 1 .. 5}

\* ... those of up to three, with every character there is; and some longer ones.
Shorter == UNION {[1 .. n -> {"1", "0", ".", "+", "-", "*", "/", "(", ")", "%", " ", ";"}] :
                    n \in 0 .. 3}

Longer == {
  <<"%", "-", "(", "1", "-", "1", ")">>,
  <<"1", "-", "1", "*", "%", "-", "1">>,
  <<"(", "%", "+", "1", ")", "/", "2">>,
  <<" ", "%", " ", "*", " ", "1", ".", "2", " ">>,
  <<"1", "/", "(", "%", "-", "1", ")">>}

SomeWordings == Short \cup Shorter \cup Longer \cup {Disabled}
SomeRefreshTexts == {<<"1">>, <<"2", ".", "5">>}

VARIABLE part

MCVars == <<part, vars, steamVars, boundVars>>

MCInit ==
  /\ part \in {"loop", "steam", "bound"}
  /\ Init /\ SteamInit /\ BoundInit
  /\ part # "steam" => mode = "steam" /\ secret

MCNext ==
  \/ part = "loop" /\ Next /\ UNCHANGED <<part, steamVars, boundVars>>
  \/ part = "steam" /\ SteamNext /\ UNCHANGED <<part, vars, boundVars>>
  \/ part = "bound" /\ BoundNext /\ UNCHANGED <<part, vars, steamVars>>
  \/ pc = "ended" /\ UNCHANGED MCVars   \* where the session may rest

\* FairSpec and SteamFairSpec, each for the part that runs.
MCSpec ==
  /\ MCInit /\ [][MCNext]_MCVars
  /\ WF_vars(part = "loop" /\ Poll)
  /\ WF_vars(part = "loop" /\ Exit)
  /\ WF_vars(part = "loop" /\ RefreshDue)
  /\ SF_steamVars(part = "steam" /\ Fetch)
  /\ WF_steamVars(part = "steam" /\ PassGate)
  /\ WF_steamVars(part = "steam" /\ Answer)
  /\ SF_steamVars(part = "steam" /\ Cycle)

=============================================================================
