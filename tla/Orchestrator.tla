----------------------------- MODULE Orchestrator -----------------------------
(***************************************************************************)
(* internal/orchestrator and internal/cadence: the assignment of an agent, *)
(* a function of the cadence configured and of the refresh time the hub    *)
(* knows, for a group of Count agents without overrides of their own.      *)
(*                                                                         *)
(* A refresh time is in hundredths of a second.  A cadence expression is   *)
(* what its evaluator makes of the forms the documents give: a factor of   *)
(* the refresh time (in hundredths) plus a number of hundredths, a factor  *)
(* of 0 being a plain number.  Intervals and phases are in whole seconds.  *)
(***************************************************************************)
EXTENDS Integers

CONSTANTS
  RefreshTimes,   \* the refresh times the game service may show
  HubMin,         \* POLL_MIN_SECONDS
  HubMax,         \* POLL_MAX_SECONDS
  HardMin,        \* hardMinSeconds
  Bootstrap,      \* bootstrapMinSeconds
  Count           \* the agents of the group, in slots 0 .. Count - 1

Expressions == [factor : Nat, plus : Nat]

ASSUME OrchestratorAssumptions ==
  /\ RefreshTimes \subseteq Nat \ {0}
  /\ {HubMin, HubMax} \subseteq Expressions
  /\ HardMin \in Nat \ {0}
  /\ Bootstrap \in Nat
  /\ Count \in Nat \ {0}

\* nil: no refresh time is known.
NoRefresh == 0

Least(m, n) == IF m < n THEN m ELSE n
Greatest(m, n) == IF m < n THEN n ELSE m

\* ResolveCadence: an expression of an unknown refresh time does not resolve.
Resolves(expr, refreshTime) == expr.factor = 0 \/ refreshTime # NoRefresh

\* What it resolves to, in ten-thousandths of a second ...
Resolved(expr, refreshTime) == expr.factor * refreshTime + 100 * expr.plus

Second == 10000

\* ... and rounded to seconds, half up.
Round(value) == (value + Second \div 2) \div Second

\* resolveMin.
PollMin(refreshTime) ==
  Greatest(HardMin, IF Resolves(HubMin, refreshTime)
                      THEN Round(Resolved(HubMin, refreshTime))
                      ELSE Bootstrap)

\* The widest interval resolveMax gives: half an agent's share of the minimum.
CappedMax(min) == min + min \div (2 * Count)

\* resolveMax, with DefaultMaxRatio where the maximum does not resolve.
PollMax(refreshTime) ==
  LET min == PollMin(refreshTime)
      raw == IF Resolves(HubMax, refreshTime)
               THEN Round(Resolved(HubMax, refreshTime))
               ELSE (133 * min + 50) \div 100
  IN  Greatest(min, Least(raw, CappedMax(min)))

\* ComputePhaseOffsets of Count equal midpoints: each rounded, and so is its share.
PhaseOffset(slot, refreshTime) ==
  LET period == (PollMin(refreshTime) + PollMax(refreshTime) + 1) \div 2
  IN  (2 * slot * period + Count) \div (2 * Count)

=============================================================================
