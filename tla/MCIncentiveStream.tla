-------------------------- MODULE MCIncentiveStream --------------------------
(***************************************************************************)
(* One slot and two changes.  A behaviour shows either one connection      *)
(* whose payload is read from two groups, with a writer that changes them  *)
(* and a group of the other platform; or two connections that compete for  *)
(* the slot, and two writers that change the one group both watch.         *)
(***************************************************************************)
EXTENDS IncentiveStream

CONSTANTS c1, c2, c3, w1, w2, g1, g2, g3, p1, p2

MCPlatformOf == [g \in Groups |-> IF g = g3 THEN p2 ELSE p1]

MCWatched == [c \in Clients |-> IF c = c1 THEN p1 ELSE p2]

VARIABLE part

MCInit ==
  /\ part \in {"torn", "slots"}
  /\ Init
  /\ about = [w \in Writers |-> p1]   \* of no account before the first write

MCNext ==
  /\ Next
  /\ part = "torn" => phase'[w2] = "idle" /\ \A c \in {c2, c3} : stage'[c] = "closed"
  /\ part = "slots" => stage'[c1] = "closed" /\ \A g \in {g1, g2} : shown'[g] = 0
  /\ UNCHANGED part

MCSpec == MCInit /\ [][MCNext]_<<part, vars>> /\ SchedulerFairness

=============================================================================
