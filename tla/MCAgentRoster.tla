--------------------------- MODULE MCAgentRoster ---------------------------
(***************************************************************************)
(* A manifest of one agent, tokens for two more, an import file whose      *)
(* second entry may meet its provision id, and patches that disable, move  *)
(* or both.                                                                *)
(***************************************************************************)
EXTENDS AgentRoster, TLC

CONSTANTS h1, h2, t1, t2, tf, tm, ra, rb, win, c0, c1, p1

NoPatch == [region |-> None, platform |-> None, cadence |-> None,
            enabled |-> None]

MCPatches == {[NoPatch EXCEPT !.enabled = "off"],
              [NoPatch EXCEPT !.region = UnknownRegion, !.enabled = "off"],
              [NoPatch EXCEPT !.region = rb, !.cadence = c1, !.enabled = "on"]}

\* For the run that looks at overtaken reloads: only disabling.
MCDisable == {[NoPatch EXCEPT !.enabled = "off"]}

MCNoManifest == <<>>

MCEntry(token, region, provision) ==
  [token |-> token, region |-> region, platform |-> win, cadence |-> c0,
   enabled |-> "on", provision |-> provision]

MCFiles == {<<MCEntry(tf, ra, None), MCEntry(t1, rb, p1)>>}

MCManifest == <<MCEntry(tm, ra, p1)>>

HandlerSymmetry == Permutations(RequestIds)

=============================================================================
