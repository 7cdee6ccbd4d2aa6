---------------------------- MODULE MCAgentCadence ----------------------------
(***************************************************************************)
(* The agent's range and the hub's cadence are the same expressions, or    *)
(* the agent accepts any cadence.  Of the two agents' refresh times one is *)
(* a whole number of seconds above the hard minimum; the other has a       *)
(* fraction, and even its ceiling is below the hard minimum.               *)
(***************************************************************************)
EXTENDS AgentCadence

RefreshTime == [factor |-> 100, plus |-> 0]
RefreshTimeAndAFifth == [factor |-> 120, plus |-> 0]
RefreshTimeAndAThird == [factor |-> 133, plus |-> 0]
RefreshTimesOfTwo == {800, 160}
RefreshTimesOfOne == {1200, 350}

=============================================================================
