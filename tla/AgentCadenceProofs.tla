-------------------------- MODULE AgentCadenceProofs --------------------------
(***************************************************************************)
(* Proofs about AgentCadence, for any cadence, range, refresh times and    *)
(* number of agents.                                                       *)
(***************************************************************************)
EXTENDS AgentCadence, TLAPS

\* The hub may know no refresh time.
LEMMA NoRefreshKnown == NoRefresh \in Known
<1>1. Learnt(NoRefresh) = NoRefresh
  BY DEF Learnt, NoRefresh
<1> QED
  BY <1>1 DEF Known, Shown

\* Resolving, rounding and bounding give natural numbers (resolveMin and resolveMax of
\* internal/orchestrator), the maximum no smaller than the minimum.
LEMMA IntervalType ==
  ASSUME NEW b \in Known
  PROVE  /\ PollMin(b) \in Nat /\ PollMax(b) \in Nat
         /\ HardMin <= PollMin(b)
         /\ PollMin(b) <= PollMax(b)
<1>1. ASSUME NEW expr \in Expressions
      PROVE  Round(Resolved(expr, b)) \in Nat
  <2>1. expr.factor \in Nat /\ expr.plus \in Nat
    BY DEF Expressions
  <2>2. b \in Nat
    BY OrchestratorAssumptions DEF Known, Shown, Learnt, NoRefresh
  <2>3. expr.factor * b \in Nat
    BY <2>1, <2>2
  <2>4. Resolved(expr, b) \in Nat
    BY <2>1, <2>3 DEF Resolved
  <2> QED
    BY <2>4 DEF Round, Second
<1>2. Round(Resolved(HubMin, b)) \in Nat /\ Round(Resolved(HubMax, b)) \in Nat
  BY <1>1, OrchestratorAssumptions
<1>3. PollMin(b) \in Nat /\ HardMin <= PollMin(b)
  BY <1>2, OrchestratorAssumptions DEF PollMin, Greatest
<1>4. CappedMax(PollMin(b)) \in Nat
  <2>1. PollMin(b) \div (2 * Count) \in Nat
    BY <1>3, OrchestratorAssumptions
  <2> QED
    BY <1>3, <2>1 DEF CappedMax
<1>5. (133 * PollMin(b) + 50) \div 100 \in Nat
  BY <1>3
<1>6. PollMax(b) \in Nat /\ PollMin(b) <= PollMax(b)
  BY <1>2, <1>3, <1>4, <1>5 DEF PollMax, Greatest, Least
<1> QED
  BY <1>3, <1>6

\* The period of Schedule.fromAssignment is positive, and what is left of it until the
\* next slot a positive number of ticks.
LEMMA WaitType ==
  ASSUME NEW a \in Agents, NEW b \in Known, clock \in 0 .. Day - 1
  PROVE  NextWaits(a, b) \subseteq Nat
<1>1. Period(b) \in Nat \ {0}
  <2>1. PollMin(b) + PollMax(b) \in Nat /\ PollMin(b) + PollMax(b) >= 2
    BY IntervalType, OrchestratorAssumptions
  <2>2. ASSUME NEW m \in Nat, NEW n \in Nat, m >= 1, n >= 2
        PROVE  m * n \in Nat /\ m * n >= 2
    BY <2>2
  <2>3. PerSecond * (PollMin(b) + PollMax(b)) \in Nat
        /\ PerSecond * (PollMin(b) + PollMax(b)) >= 2
    BY <2>1, <2>2, CadenceAssumptions
  <2> QED
    BY <2>3 DEF Period
<1>2. Jitter(b) \in Nat
  <2>1. PollMax(b) - PollMin(b) \in Nat
    BY IntervalType
  <2>2. PerSecond * (PollMax(b) - PollMin(b)) \in Nat
    BY <2>1, CadenceAssumptions
  <2> QED
    BY <2>2 DEF Jitter
<1>3. PhaseOffset(a, b) \in Nat
  <2> DEFINE period == (PollMin(b) + PollMax(b) + 1) \div 2
  <2>1. period \in Nat
    BY IntervalType
  <2>2. a \in Nat /\ Count \in Nat \ {0}
    BY OrchestratorAssumptions DEF Agents
  <2>3. 2 * a * period + Count \in Nat
    BY <2>1, <2>2
  <2> QED
    BY <2>2, <2>3 DEF PhaseOffset
<1>4. Phase(a, b) \in Nat
  BY <1>1, <1>3, CadenceAssumptions DEF Phase
<1>5. UntilNext(a, b) \in Nat
  BY <1>1, <1>4, CadenceAssumptions DEF UntilNext
<1> QED
  BY <1>2, <1>5 DEF NextWaits

-----------------------------------------------------------------------------
\* A poll's sleep keeps the types: Poller.nextWaitMs caps it.
LEMMA SleepType ==
  ASSUME TypeOK, NEW a \in Agents, NEW b \in Known, NEW n \in Nat, Sleep(a, b, n)
  PROVE  /\ wait' \in [Agents -> 0 .. MaxSleep]
         /\ basis' \in [Agents -> Known]
         /\ regular' \in [Agents -> 0 .. 2]
<1>1. PICK next \in NextWaits(a, b) :
        /\ wait' = [wait EXCEPT ![a] = Least(next * n, MaxSleep)]
        /\ regular' = [regular EXCEPT ![a] =
             IF n > 1 \/ next > MaxSleep THEN 0
             ELSE IF b = basis[a] THEN Least(regular[a] + 1, 2)
             ELSE 1]
        /\ basis' = [basis EXCEPT ![a] = b]
  BY DEF Sleep
<1>2. next * n \in Nat
  BY WaitType DEF TypeOK
<1>3. Least(next * n, MaxSleep) \in 0 .. MaxSleep
  BY <1>2, CadenceAssumptions DEF Least
<1>4. Least(regular[a] + 1, 2) \in 0 .. 2
  BY DEF TypeOK, Least
<1> QED
  BY <1>1, <1>3, <1>4 DEF TypeOK

\* Agents and hub keep their variables' types, in particular no agent sleeps longer
\* than the cap.
THEOREM CadenceTypes == Spec => []TypeOK
<1>1. Init => TypeOK
  BY NoRefreshKnown, CadenceAssumptions DEF Init, TypeOK
<1>2. TypeOK /\ [Next]_vars => TypeOK'
  <2> SUFFICES ASSUME TypeOK, [Next]_vars PROVE TypeOK'
    OBVIOUS
  <2>1. CASE Tick
    <3>1. (clock + 1) % Day \in 0 .. Day - 1
      BY CadenceAssumptions DEF TypeOK
    <3>2. \A a \in Agents : Least(accepted[a] + 1, LongAgo) \in 0 .. LongAgo
      BY CadenceAssumptions DEF TypeOK, Least
    <3>3. \A a \in Agents :
            (IF state[a] = "polling" THEN wait[a] - 1 ELSE wait[a]) \in 0 .. MaxSleep
      BY <2>1, CadenceAssumptions DEF TypeOK, Tick, Due
    <3> QED
      BY <2>1, <3>1, <3>2, <3>3 DEF Tick, TypeOK
  <2>2. CASE ChangeRefresh
    BY <2>2 DEF ChangeRefresh, TypeOK, agentVars
  <2>3. CASE RestartHub
    BY <2>3, NoRefreshKnown, CadenceAssumptions DEF RestartHub, TypeOK, agentVars
  <2>4. ASSUME NEW a \in Agents, Start(a) PROVE TypeOK'
    <3>1. CASE a = 0 /\ refresh = NoRefresh
      BY <2>4, <3>1, CadenceAssumptions DEF Start, TypeOK
    <3>2. CASE ~(a = 0 /\ refresh = NoRefresh)
      <4>1. Sleep(a, refresh, 1)
        BY <2>4, <3>2 DEF Start
      <4>2. /\ wait' \in [Agents -> 0 .. MaxSleep]
            /\ basis' \in [Agents -> Known]
            /\ regular' \in [Agents -> 0 .. 2]
        BY <4>1, SleepType DEF TypeOK
      <4> QED
        BY <2>4, <4>2 DEF Start, TypeOK
    <3> QED
      BY <3>1, <3>2
  <2>5. ASSUME NEW a \in Agents, Stop(a) PROVE TypeOK'
    BY <2>5, NoRefreshKnown, CadenceAssumptions DEF Stop, TypeOK
  <2>6. ASSUME NEW a \in Agents, PollWithout(a) PROVE TypeOK'
    <3>1. PICK n \in 2 .. MaxBackoff : Sleep(a, basis[a], n)
      BY <2>6 DEF PollWithout
    <3>2. n \in Nat /\ basis[a] \in Known
      BY CadenceAssumptions DEF TypeOK
    <3> QED
      BY <2>6, <3>1, <3>2, SleepType DEF PollWithout, TypeOK
  <2>7. ASSUME NEW a \in Agents, Refused(a) PROVE TypeOK'
    <3>1. basis[a] \in Known
      BY DEF TypeOK
    <3> QED
      BY <2>7, <3>1, SleepType DEF Refused, TypeOK
  <2>8. ASSUME NEW a \in Agents, Take(a)
        PROVE  accepted' \in [Agents -> 0 .. LongAgo] /\ refresh' \in Known
    BY <2>8, CadenceAssumptions DEF Take, TypeOK, Known
  <2>9. ASSUME NEW a \in Agents, ReportLost(a) PROVE TypeOK'
    <3>1. basis[a] \in Known
      BY DEF TypeOK
    <3>2. accepted' \in [Agents -> 0 .. LongAgo] /\ refresh' \in Known
      BY <2>8, <2>9 DEF ReportLost, TypeOK
    <3> QED
      BY <2>9, <3>1, <3>2, SleepType DEF ReportLost, TypeOK
  <2>10. ASSUME NEW a \in Agents, Reported(a) PROVE TypeOK'
    <3>1. accepted' \in [Agents -> 0 .. LongAgo] /\ refresh' \in Known
      BY <2>8, <2>10 DEF Reported
    <3>2. refresh \in Known
      BY DEF TypeOK
    <3> QED
      BY <2>10, <3>1, <3>2, SleepType DEF Reported, TypeOK
  <2>11. ASSUME NEW a \in Agents, Rejected(a) PROVE TypeOK'
    <3>1. accepted' \in [Agents -> 0 .. LongAgo] /\ refresh' \in Known
      BY <2>8, <2>11 DEF Rejected
    <3>2. state' \in [Agents -> {"off", "polling", "rejected"}]
      BY <2>11 DEF Rejected, TypeOK
    <3>3. basis' \in [Agents -> Known] /\ regular' \in [Agents -> 0 .. 2]
      BY <2>11 DEF Rejected, TypeOK
    <3> QED
      BY <2>11, <3>1, <3>2, <3>3 DEF Rejected, TypeOK
  <2>12. CASE UNCHANGED vars
    BY <2>12 DEF vars, agentVars, TypeOK
  <2> QED
    BY <2>1, <2>2, <2>3, <2>4, <2>5, <2>6, <2>7, <2>9, <2>10, <2>11, <2>12 DEF Next
<1> QED
  BY <1>1, <1>2, PTL DEF Spec

-----------------------------------------------------------------------------
\* The agent's range is the hub's cadence, as by default, and ordered.
SameExpressions ==
  /\ Floor = HubMin /\ Ceiling = HubMax
  /\ HubMin.factor <= HubMax.factor
  /\ HubMin.plus <= HubMax.plus

\* An assignment computed from the refresh time just observed is in range, unless the
\* hub's hard minimum is above the ceiling: rounding is the same on both sides.
LEMMA SameInRange ==
  ASSUME SameExpressions, service \in Known,
         Second * HardMin <= Resolved(Ceiling, service)
  PROVE  InRange(service)
<1> DEFINE low == Resolved(HubMin, service)
           high == Resolved(HubMax, service)
<1>1. /\ HubMin.factor \in Nat /\ HubMin.plus \in Nat
      /\ HubMax.factor \in Nat /\ HubMax.plus \in Nat
      /\ service \in Nat /\ HardMin \in Nat
  BY OrchestratorAssumptions DEF Expressions, Known, Shown, Learnt, NoRefresh
<1>2. /\ HubMin.factor * service \in Nat /\ HubMax.factor * service \in Nat
      /\ HubMin.factor * service <= HubMax.factor * service
  <2>1. ASSUME NEW k \in Nat, NEW m \in Nat, NEW n \in Nat, m <= n
        PROVE  m * k \in Nat /\ n * k \in Nat /\ m * k <= n * k
    BY <2>1
  <2> QED
    BY <1>1, <2>1 DEF SameExpressions
<1>3. low \in Nat /\ high \in Nat /\ low <= high
  BY <1>1, <1>2 DEF Resolved, SameExpressions
<1>4. Round(low) \in Nat /\ Round(high) \in Nat /\ Round(low) <= Round(high)
  BY <1>3 DEF Round, Second
<1>5. HardMin <= Round(high)
  BY <1>1, <1>3 DEF SameExpressions, Round, Second
<1>6. PollMin(service) \in Nat /\ PollMax(service) \in Nat
  BY IntervalType
<1>7. Resolves(Floor, service) => PollMin(service) >= Round(Resolved(Floor, service))
  BY <1>1, <1>4 DEF SameExpressions, PollMin, Greatest
<1>8. ASSUME Resolves(Ceiling, service)
      PROVE  PollMax(service) <= Round(Resolved(Ceiling, service))
  <2>1. Resolves(HubMin, service) /\ Resolves(HubMax, service)
    BY <1>1, <1>8 DEF SameExpressions, Resolves
  <2>2. PollMin(service) <= Round(high)
    BY <1>1, <1>4, <1>5, <2>1 DEF PollMin, Greatest
  <2>3. PollMax(service) =
          Greatest(PollMin(service), Least(Round(high), CappedMax(PollMin(service))))
    BY <2>1 DEF PollMax
  <2>4. PollMax(service) = PollMin(service) \/ PollMax(service) <= Round(high)
    BY <1>4, <1>6, <2>3 DEF Greatest, Least
  <2> QED
    BY <2>2, <2>4 DEF SameExpressions
<1> QED
  BY <1>7, <1>8 DEF InRange

\* Where the range is the hub's cadence, CadenceRejectedError (reporter.ts) is thrown
\* only for a reply computed from another refresh time, or under the hard minimum.
THEOREM RejectionHasCause ==
  ASSUME SameExpressions
  PROVE  Spec => RejectedOnlyWithCause
<1>1. ASSUME TypeOK, [Next]_vars, NEW a \in Agents,
             state[a] = "polling", state'[a] = "rejected"
      PROVE  \/ refresh # service
             \/ Resolved(Ceiling, service) < Second * HardMin
  <2>1. state' # state
    BY <1>1
  <2>2. ASSUME NEW b \in Agents, Rejected(b)
        PROVE  refresh # service \/ Resolved(Ceiling, service) < Second * HardMin
    <3>1. ~InRange(refresh) /\ service \in Shown /\ refresh \in Known
      BY <1>1, <2>2 DEF Rejected, TypeOK
    <3>2. Resolved(Ceiling, service) \in Int /\ Second * HardMin \in Int
      <4>1. /\ Ceiling.factor \in Nat /\ Ceiling.plus \in Nat
            /\ service \in Nat /\ HardMin \in Nat
        BY <3>1, OrchestratorAssumptions, CadenceAssumptions
           DEF Expressions, Known, Shown, Learnt, NoRefresh
      <4>2. Ceiling.factor * service \in Int
        BY <4>1
      <4> QED
        BY <4>1, <4>2 DEF Resolved, Second
    <3> QED
      BY <3>1, <3>2, SameInRange
  <2>3. ASSUME NEW b \in Agents, Start(b) \/ Stop(b) PROVE state'[a] # "rejected"
    BY <1>1, <2>3 DEF Start, Stop, TypeOK
  <2>4. ASSUME NEW b \in Agents,
               PollWithout(b) \/ Refused(b) \/ ReportLost(b) \/ Reported(b)
        PROVE  state' = state
    BY <2>4 DEF PollWithout, Refused, ReportLost, Reported
  <2> QED
    BY <1>1, <2>1, <2>2, <2>3, <2>4
       DEF Next, Tick, ChangeRefresh, RestartHub, agentVars, vars
<1>2. TypeOK /\ [Next]_vars =>
        [\A a \in Agents :
           state[a] = "polling" /\ state'[a] = "rejected" =>
             \/ refresh # service
             \/ Resolved(Ceiling, service) < Second * HardMin]_vars
  BY <1>1
<1> QED
  BY <1>2, CadenceTypes, PTL DEF Spec, RejectedOnlyWithCause

-----------------------------------------------------------------------------
(* The slots of a group. *)

LEMMA DivMod ==
  ASSUME NEW n \in Int, NEW p \in Nat \ {0}
  PROVE  n \div p \in Int /\ n % p \in 0 .. p - 1 /\ n = p * (n \div p) + (n % p)
OBVIOUS

LEMMA Scale ==
  ASSUME NEW s \in Nat, NEW m \in Int, NEW n \in Int, m <= n
  PROVE  s * m \in Int /\ s * n \in Int /\ s * m <= s * n
OBVIOUS

\* What is left of a multiple of the period and a little more is the little more.
LEMMA ModOf ==
  ASSUME NEW j \in Nat, NEW k \in Int, NEW p \in Nat \ {0}, j < p
  PROVE  (j + k * p) % p = j
<1> DEFINE q == (j + k * p) \div p
           r == (j + k * p) % p
<1>1. j + k * p \in Int
  OBVIOUS
<1>2. q \in Int /\ r \in 0 .. p - 1 /\ j + k * p = p * q + r
  BY <1>1, DivMod
<1> HIDE DEF q, r
<1>3. p * (k - q) = r - j /\ k - q \in Int
  BY <1>2
<1>4. k - q = 0
  <2>1. CASE k - q >= 1
    <3>1. p * (k - q) >= p * 1
      BY <1>3, <2>1, Scale
    <3> QED
      BY <1>2, <1>3, <3>1
  <2>2. CASE k - q <= -1
    <3>1. p * (k - q) <= p * (-1)
      BY <1>3, <2>2, Scale
    <3> QED
      BY <1>2, <1>3, <3>1
  <2> QED
    BY <1>3, <2>1, <2>2
<1> QED
  BY <1>2, <1>3, <1>4 DEF r

\* The period is the middle of the interval, and the jitter reaches neither end of it.
LEMMA PeriodIs ==
  ASSUME NEW b \in Known
  PROVE  /\ Period(b) \in Nat \ {0} /\ Jitter(b) \in Nat /\ Jitter(b) < Period(b)
         /\ 2 * Period(b) = PerSecond * (PollMin(b) + PollMax(b))
         /\ 2 * Jitter(b) <= PerSecond * (PollMax(b) - PollMin(b))
<1>1. /\ PollMin(b) \in Nat \ {0} /\ PollMax(b) \in Nat /\ PollMin(b) <= PollMax(b)
      /\ PerSecond \in Nat \ {0}
  BY IntervalType, OrchestratorAssumptions, CadenceAssumptions
<1> DEFINE sum == PerSecond * (PollMin(b) + PollMax(b))
           width == PerSecond * (PollMax(b) - PollMin(b))
<1>2. sum \in Nat /\ width \in Nat /\ width + 2 <= sum
  <2>1. ASSUME NEW s \in Nat \ {0}, NEW m \in Nat \ {0}, NEW n \in Nat, m <= n
        PROVE  s * (m + n) \in Nat /\ s * (n - m) \in Nat /\ s * (n - m) + 2 <= s * (m + n)
    <3>1. s * 1 <= s * m
      BY <2>1, Scale
    <3> QED
      BY <2>1, <3>1
  <2> QED
    BY <1>1, <2>1
<1>3. sum % 2 = 0
  BY CadenceAssumptions
<1>4. Period(b) = sum \div 2 /\ Jitter(b) = width \div 2
  BY DEF Period, Jitter
<1> HIDE DEF sum, width
<1>5. 2 * Period(b) = sum /\ 2 * Jitter(b) <= width /\ Jitter(b) \in Nat /\ Period(b) \in Nat
  BY <1>2, <1>3, <1>4
<1> QED
  BY <1>2, <1>5 DEF sum, width

\* The interval is no wider than half an agent's share of the minimum (resolveMax).
LEMMA WidthIs ==
  ASSUME NEW b \in Known
  PROVE  2 * Count * (PollMax(b) - PollMin(b)) <= PollMin(b)
<1>1. PollMin(b) \in Nat /\ PollMax(b) \in Nat /\ PollMin(b) <= PollMax(b)
      /\ Count \in Nat \ {0}
  BY IntervalType, OrchestratorAssumptions
<1> DEFINE agents == 2 * Count
           half == PollMin(b) \div agents
<1>2. agents \in Nat \ {0}
  BY <1>1
<1> HIDE DEF agents
<1>3. half \in Nat /\ agents * half <= PollMin(b)
  <2>1. ASSUME NEW m \in Nat, NEW n \in Nat \ {0}
        PROVE  m \div n \in Nat /\ n * (m \div n) <= m
    <3>1. m \div n \in Nat /\ m % n \in 0 .. n - 1 /\ m = n * (m \div n) + (m % n)
      OBVIOUS
    <3> QED
      BY <3>1
  <2> QED
    BY <1>1, <1>2, <2>1
<1>4. PollMax(b) <= PollMin(b) + half
  <2>1. PICK raw : PollMax(b) = Greatest(PollMin(b), Least(raw, PollMin(b) + half))
    BY DEF PollMax, CappedMax, agents
  <2>2. \/ PollMax(b) = PollMin(b)
        \/ PollMax(b) = PollMin(b) + half
        \/ PollMax(b) = raw /\ raw < PollMin(b) + half
    BY <2>1 DEF Greatest, Least
  <2> QED
    BY <1>1, <1>3, <2>2
<1> HIDE DEF half
<1>5. PollMax(b) - PollMin(b) <= half /\ PollMax(b) - PollMin(b) \in Nat
  BY <1>1, <1>3, <1>4
<1>6. agents * (PollMax(b) - PollMin(b)) <= agents * half
      /\ agents * (PollMax(b) - PollMin(b)) \in Int /\ agents * half \in Int
  BY <1>3, <1>5, <1>2, Scale
<1>7. agents * (PollMax(b) - PollMin(b)) <= PollMin(b)
  BY <1>1, <1>3, <1>6
<1> QED
  BY <1>7 DEF agents

\* Twice Count times a phase offset is twice the agent's share of the period, up to the
\* rounding (ComputePhaseOffsets).
LEMMA OffsetIs ==
  ASSUME NEW a \in Agents, NEW b \in Known
  PROVE  /\ PhaseOffset(a, b) \in Nat
         /\ \E q \in Nat, r \in 0 .. 2 * Count - 1 :
              /\ 2 * q \in {PollMin(b) + PollMax(b), PollMin(b) + PollMax(b) + 1}
              /\ q = (PollMin(b) + PollMax(b) + 1) \div 2
              /\ 2 * Count * PhaseOffset(a, b) = 2 * a * q + Count - r
<1>1. PollMin(b) + PollMax(b) \in Nat /\ Count \in Nat \ {0} /\ a \in Nat
  BY IntervalType, OrchestratorAssumptions DEF Agents
<1> DEFINE q == (PollMin(b) + PollMax(b) + 1) \div 2
           all == 2 * a * q + Count
           agents == 2 * Count
           r == all % agents
<1>2. q \in Nat /\ 2 * q \in {PollMin(b) + PollMax(b), PollMin(b) + PollMax(b) + 1}
  BY <1>1
<1>3. PhaseOffset(a, b) = all \div agents
  BY DEF PhaseOffset
<1> HIDE DEF q
<1>4. all \in Nat /\ agents \in Nat \ {0}
  BY <1>1, <1>2
<1> HIDE DEF all, agents
<1>5. PhaseOffset(a, b) \in Nat
  BY <1>3, <1>4
<1>6. r \in 0 .. agents - 1 /\ all = agents * PhaseOffset(a, b) + r
  BY <1>3, <1>4, DivMod
<1> HIDE DEF r
<1>7. agents * PhaseOffset(a, b) \in Nat /\ r \in Int
  BY <1>4, <1>5, <1>6
<1>8. agents * PhaseOffset(a, b) = all - r
  BY <1>4, <1>6, <1>7
<1>9. r \in 0 .. 2 * Count - 1
  BY <1>6 DEF agents
<1>10. 2 * Count * PhaseOffset(a, b) = 2 * a * q + Count - r
  BY <1>1, <1>2, <1>5, <1>7, <1>8 DEF agents, all
<1> QED
  BY <1>2, <1>5, <1>9, <1>10 DEF q

\* The phase is the offset in ticks, but for whole periods.
LEMMA PhaseIs ==
  ASSUME NEW a \in Agents, NEW b \in Known
  PROVE  /\ Phase(a, b) \in Nat
         /\ \E k \in Int : Phase(a, b) = PerSecond * PhaseOffset(a, b) + k * Period(b)
<1> DEFINE offset == PerSecond * PhaseOffset(a, b)
           p == Period(b)
<1>1. offset \in Nat /\ p \in Nat \ {0}
  BY OffsetIs, PeriodIs, CadenceAssumptions
<1>2. Phase(a, b) = offset % p
  BY DEF Phase
<1> HIDE DEF offset, p
<1>3. offset \div p \in Int /\ offset % p \in 0 .. p - 1 /\ offset = p * (offset \div p) + (offset % p)
  BY <1>1, DivMod
<1>4. -(offset \div p) \in Int /\ Phase(a, b) = offset + (-(offset \div p)) * p
  BY <1>1, <1>2, <1>3
<1>5. Phase(a, b) \in Nat
  BY <1>1, <1>2, <1>3
<1> QED
  BY <1>4, <1>5 DEF offset, p

\* What is left of an agent's share of the period when it is cut to whole seconds, the
\* share being f of q: enough for the jitter on both sides, twice over.
LEMMA ShareIsEnough ==
  ASSUME NEW c \in Nat \ {0}, NEW f \in Nat, NEW w \in Nat, NEW min \in Nat, NEW q \in Nat,
         c * f <= q, q < c * f + c, 2 * (c * w) <= min,
         c <= min, w > 0 => 3 * c <= min
  PROVE  /\ 2 * q = 2 * min + w => 4 * (c * f) - 2 * (c * w) >= 2 * min + w
         /\ 2 * q = 2 * min + w + 1 => 4 * (c * f) - 2 * c - 2 * (c * w) >= 2 * min + w
<1> DEFINE share == c * f
           width == c * w
<1>1. share \in Nat /\ width \in Nat
  OBVIOUS
<1>2. q >= c => share >= c
  <2>1. f >= 1 => share >= c
    <3>1. f >= 1 => c * 1 <= c * f
      BY Scale
    <3> QED
      BY <3>1
  <2>2. f = 0 => share = 0
    OBVIOUS
  <2> QED
    BY <1>1, <2>1, <2>2
<1>3. q >= 3 * c => share >= 3 * c
  <2>1. f >= 3 => c * 3 <= c * f
    BY Scale
  <2>2. f <= 2 => c * f <= c * 2
    BY Scale
  <2> QED
    BY <1>1, <2>1, <2>2
<1>4. /\ w = 0 => width = 0
      /\ w = 1 => width = c
  OBVIOUS
<1>5. /\ w >= 2 => width >= 2 * c
      /\ w >= 3 => width >= 3 * c
  <2>1. /\ w >= 2 => c * 2 <= c * w
        /\ w >= 3 => c * 3 <= c * w
    BY Scale
  <2> QED
    BY <2>1
<1>6. share <= q /\ q < share + c /\ 2 * width <= min
  OBVIOUS
<1> HIDE DEF share, width
<1>7. ASSUME 2 * q = 2 * min + w
      PROVE  4 * share - 2 * width >= 2 * min + w
  <2>1. w = 0 \/ w >= 2
    BY <1>7
  <2> QED
    BY <1>1, <1>2, <1>4, <1>5, <1>6, <1>7, <2>1
<1>8. ASSUME 2 * q = 2 * min + w + 1
      PROVE  4 * share - 2 * c - 2 * width >= 2 * min + w
  <2>1. w = 1 \/ w >= 3
    BY <1>8
  <2> QED
    BY <1>1, <1>3, <1>4, <1>5, <1>6, <1>8, <2>1
<1> QED
  BY <1>7, <1>8 DEF share, width

\* Slots of one period are apart, d being the seconds between them: forwards, and
\* backwards from the next period, each reached by the jitter.
LEMMA SlotsApart ==
  ASSUME NEW s \in Nat \ {0}, NEW c \in Nat \ {0}, NEW d \in Int,
         NEW min \in Nat, NEW max \in Nat, NEW p \in Nat, NEW j \in Nat,
         NEW q \in Nat, NEW f \in Nat,
         c * f <= q, q < c * f + c, f <= d, f <= q - d,
         min <= max, 2 * (c * (max - min)) <= min,
         c <= min, min < max => 3 * c <= min,
         2 * q \in {min + max, min + max + 1},
         2 * p = s * (min + max), 2 * j <= s * (max - min)
  PROVE  2 * c * (s * d - j) >= p /\ 2 * c * (p - s * d - j) >= p
<1> DEFINE sum == min + max
           w == max - min
<1>1. sum \in Nat /\ w \in Nat /\ sum = 2 * min + w /\ (w > 0 => 3 * c <= min)
  OBVIOUS
<1>2. /\ 2 * q = sum => 4 * (c * f) - 2 * (c * w) >= sum
      /\ 2 * q = sum + 1 => 4 * (c * f) - 2 * c - 2 * (c * w) >= sum
  <2>1. 2 * (c * w) <= min
    OBVIOUS
  <2> HIDE DEF sum, w
  <2> QED
    BY <1>1, <2>1, ShareIsEnough
<1>3. c * f <= c * d /\ c * f <= c * (q - d)
  BY Scale
<1>4. 2 * (2 * c * j) <= 2 * (s * (c * w))
  <2>1. 2 * c * (2 * j) <= 2 * c * (s * w)
    BY <1>1, Scale
  <2> QED
    BY <1>1, <2>1
<1>5. 2 * p = s * sum /\ 2 * q \in {sum, sum + 1}
  OBVIOUS
<1> HIDE DEF sum, w
<1>6. 4 * (c * d) - 2 * (c * w) >= sum
  BY <1>1, <1>2, <1>3, <1>5
<1>7. 2 * (c * sum) - 4 * (c * d) - 2 * (c * w) >= sum
  <2>1. 2 * (c * sum) >= 4 * (c * q) - 2 * c
        /\ (2 * q = sum => 2 * (c * sum) = 4 * (c * q))
    <3>1. CASE 2 * q = sum
      BY <3>1
    <3>2. CASE 2 * q = sum + 1
      <4>1. sum = 2 * q - 1 /\ 2 * (c * (2 * q - 1)) = 4 * (c * q) - 2 * c
        BY <1>1, <3>2
      <4> QED
        BY <1>1, <3>2, <4>1
    <3> QED
      BY <1>5, <3>1, <3>2
  <2>2. c * (q - d) = c * q - c * d
    OBVIOUS
  <2> QED
    BY <1>1, <1>2, <1>3, <1>5, <2>1, <2>2
<1>8. s * (4 * (c * d) - 2 * (c * w)) >= s * sum
  BY <1>1, <1>6, Scale
<1>9. s * (2 * (c * sum) - 4 * (c * d) - 2 * (c * w)) >= s * sum
  BY <1>1, <1>7, Scale
<1>10. 2 * (2 * c * (s * d - j)) >= 2 * p
  <2>1. s * (4 * (c * d) - 2 * (c * w)) = 2 * (2 * c * (s * d)) - 2 * (s * (c * w))
    BY <1>1
  <2>2. 2 * (2 * c * (s * d - j)) = 2 * (2 * c * (s * d)) - 2 * (2 * c * j)
    OBVIOUS
  <2> QED
    BY <1>1, <1>4, <1>5, <1>8, <2>1, <2>2
<1>11. 2 * (2 * c * (p - s * d - j)) >= 2 * p
  <2>1. s * (2 * (c * sum) - 4 * (c * d) - 2 * (c * w))
          = 2 * c * (s * sum) - 2 * (2 * c * (s * d)) - 2 * (s * (c * w))
    BY <1>1
  <2>2. 2 * (2 * c * (p - s * d - j)) = 2 * c * (2 * p) - 2 * (2 * c * (s * d)) - 2 * (2 * c * j)
    OBVIOUS
  <2> QED
    BY <1>1, <1>4, <1>5, <1>9, <2>1, <2>2
<1> QED
  BY <1>10, <1>11

\* There is room for every agent's slot: as many seconds as agents, or three times as
\* many where the interval leaves a choice.  hardMinSeconds is room for a hundred agents.
RoomForAll ==
  \A b \in Known :
    /\ Count <= PollMin(b)
    /\ PollMin(b) < PollMax(b) => 3 * Count <= PollMin(b)

LEMMA OffsetsApart ==
  ASSUME RoomForAll, NEW lo \in Agents, NEW hi \in Agents, lo < hi, NEW b \in Known
  PROVE  LET d == PhaseOffset(hi, b) - PhaseOffset(lo, b) IN
         /\ 2 * Count * (PerSecond * d - Jitter(b)) >= Period(b)
         /\ 2 * Count * (Period(b) - PerSecond * d - Jitter(b)) >= Period(b)
<1> DEFINE d == PhaseOffset(hi, b) - PhaseOffset(lo, b)
           k == hi - lo
           min == PollMin(b)
           max == PollMax(b)
           q == (min + max + 1) \div 2
           f == q \div Count
<1>1. /\ min \in Nat /\ max \in Nat /\ min <= max
      /\ Count \in Nat \ {0} /\ PerSecond \in Nat \ {0}
      /\ k \in Nat /\ 1 <= k /\ k <= Count - 1 /\ lo \in Nat /\ hi = lo + k
  BY IntervalType, OrchestratorAssumptions, CadenceAssumptions DEF Agents
<1>2. PICK r \in 0 .. 2 * Count - 1 : 2 * Count * PhaseOffset(hi, b) = 2 * hi * q + Count - r
  BY OffsetIs
<1>3. PICK t \in 0 .. 2 * Count - 1 : 2 * Count * PhaseOffset(lo, b) = 2 * lo * q + Count - t
  BY OffsetIs
<1>4. q \in Nat /\ 2 * q \in {min + max, min + max + 1}
  <2>1. ASSUME NEW m \in Nat
        PROVE  (m + 1) \div 2 \in Nat /\ 2 * ((m + 1) \div 2) \in {m, m + 1}
    OBVIOUS
  <2>2. min + max \in Nat
    BY <1>1
  <2> QED
    BY <2>1, <2>2
<1>5. PhaseOffset(hi, b) \in Nat /\ PhaseOffset(lo, b) \in Nat /\ d \in Int
  BY OffsetIs
<1>6. f \in Nat /\ Count * f <= q /\ q < Count * f + Count
  <2> HIDE DEF q
  <2> DEFINE rest == q % Count
  <2>1. f \in Int /\ rest \in 0 .. Count - 1 /\ q = Count * f + rest
    BY <1>1, <1>4, DivMod
  <2>2. f \in Nat
    BY <1>1, <1>4
  <2> HIDE DEF f, rest
  <2> QED
    BY <1>1, <2>1, <2>2
<1>7. Period(b) \in Nat /\ Jitter(b) \in Nat
      /\ 2 * Period(b) = PerSecond * (min + max)
      /\ 2 * Jitter(b) <= PerSecond * (max - min)
  BY PeriodIs
<1>8. 2 * (Count * (max - min)) <= min
  BY <1>1, WidthIs
<1>9. Count <= min /\ (min < max => 3 * Count <= min)
  BY DEF RoomForAll
<1> HIDE DEF q, f, min, max, k
<1>10. 2 * Count * d = 2 * (k * q) - r + t
  BY <1>1, <1>2, <1>3, <1>4, <1>5
<1> HIDE DEF d
<1>11. r \in Int /\ t \in Int /\ -(2 * Count) < t - r /\ t - r < 2 * Count
  BY <1>1
<1>12. f <= d
  <2>1. 1 * f <= k * f /\ k * (Count * f) <= k * q /\ k * f \in Nat
    BY <1>1, <1>4, <1>6, Scale
  <2>2. 2 * Count * (d - k * f + 1) > 0
    BY <1>1, <1>4, <1>5, <1>6, <1>10, <1>11, <2>1
  <2>3. d - k * f + 1 > 0
    BY <1>1, <1>5, <2>1, <2>2
  <2> QED
    BY <1>5, <1>6, <2>1, <2>3
<1>13. f <= q - d
  <2> DEFINE l == Count - k
  <2>1. l \in Nat /\ 1 <= l
    BY <1>1
  <2>2. 2 * Count * (q - d) = 2 * (l * q) + r - t
    BY <1>1, <1>4, <1>5, <1>10, <1>11
  <2> HIDE DEF l
  <2>3. 1 * f <= l * f /\ l * (Count * f) <= l * q /\ l * f \in Nat
    BY <1>1, <1>4, <1>6, <2>1, Scale
  <2>4. 2 * Count * (q - d - l * f + 1) > 0
    BY <1>1, <1>4, <1>5, <1>6, <1>11, <2>1, <2>2, <2>3
  <2>5. q - d - l * f + 1 > 0
    BY <1>1, <1>4, <1>5, <2>3, <2>4
  <2> QED
    BY <1>4, <1>5, <1>6, <2>3, <2>5
<1> QED
  BY <1>1, <1>4, <1>5, <1>6, <1>7, <1>8, <1>9, <1>12, <1>13, SlotsApart DEF d

-----------------------------------------------------------------------------
\* An agent that waits for a slot will poll in it, within its jitter: the wait ends so
\* long after a whole number of periods and the phase.
OnSlot(a) ==
  \E j \in 0 .. Jitter(basis[a]), k \in Int :
    wait[a] + clock = Phase(a, basis[a]) + j + k * Period(basis[a])

SlotsKept == \A a \in Agents : state[a] = "polling" /\ regular[a] > 0 => OnSlot(a)

CadenceIInv == TypeOK /\ SlotsKept

\* A slot stays where it is as the clock goes on, and starts again after whole periods.
LEMMA SlotMoves ==
  ASSUME NEW w \in Int, NEW c \in Int, NEW ph \in Int, NEW j \in Int, NEW k \in Int,
         NEW p \in Int, NEW m \in Int, NEW d \in Int, d = p * m, w + c = ph + j + k * p
  PROVE  /\ k - m \in Int
         /\ (w - 1) + (c + 1) = ph + j + k * p
         /\ (w - 1) + (c + 1 - d) = ph + j + (k - m) * p
OBVIOUS

\* Schedule.nextWaitMs leads to a slot.
LEMMA NextIsOnSlot ==
  ASSUME NEW a \in Agents, NEW b \in Known, clock \in 0 .. Day - 1, NEW next \in NextWaits(a, b)
  PROVE  /\ next \in Nat
         /\ \E j \in 0 .. Jitter(b), k \in Int : next + clock = Phase(a, b) + j + k * Period(b)
<1> DEFINE p == Period(b)
           ph == Phase(a, b)
           most == Jitter(b)
<1>1. p \in Nat \ {0} /\ ph \in Int /\ clock \in Int /\ most \in Nat
  BY PeriodIs, PhaseIs, CadenceAssumptions
<1>2. PICK j \in 0 .. most : next = p - ((clock - ph) % p) + j
  BY DEF NextWaits, UntilNext
<1>3. next \in Nat
  BY WaitType
<1> DEFINE q == (clock - ph) \div p
           r == (clock - ph) % p
<1> HIDE DEF p, ph, most
<1>4. q \in Int /\ r \in Int /\ clock - ph = p * q + r
  <2>1. clock - ph \in Int
    BY <1>1
  <2> QED
    BY <1>1, <2>1, DivMod
<1>5. next = p - r + j
  BY <1>2
<1> HIDE DEF q, r
<1>6. q + 1 \in Int /\ next + clock = ph + j + (q + 1) * p
  BY <1>1, <1>4, <1>5
<1> QED
  BY <1>3, <1>6 DEF p, ph, most

\* A sleep that counts as regular is not cut, and ends in a slot of the assignment.
LEMMA SleepIsOnSlot ==
  ASSUME TypeOK, NEW a \in Agents, NEW b \in Known, NEW n \in Nat \ {0}, Sleep(a, b, n),
         clock' = clock, regular'[a] > 0
  PROVE  OnSlot(a)' /\ wait'[a] \in NextWaits(a, b)
<1>1. PICK next \in NextWaits(a, b) :
        /\ wait' = [wait EXCEPT ![a] = Least(next * n, MaxSleep)]
        /\ regular' = [regular EXCEPT ![a] =
             IF n > 1 \/ next > MaxSleep THEN 0
             ELSE IF b = basis[a] THEN Least(regular[a] + 1, 2)
             ELSE 1]
        /\ basis' = [basis EXCEPT ![a] = b]
  BY DEF Sleep
<1>2. next \in Nat
      /\ \E j \in 0 .. Jitter(b), k \in Int : next + clock = Phase(a, b) + j + k * Period(b)
  BY NextIsOnSlot DEF TypeOK
<1>3. n = 1 /\ next <= MaxSleep
  BY <1>1, <1>2, CadenceAssumptions DEF TypeOK
<1>4. wait'[a] = next /\ basis'[a] = b
  BY <1>1, <1>2, <1>3, CadenceAssumptions DEF TypeOK, Least
<1> QED
  BY <1>2, <1>4 DEF OnSlot

LEMMA OthersKeepSlots ==
  ASSUME CadenceIInv, NEW o \in Agents, clock' = clock,
         wait'[o] = wait[o], basis'[o] = basis[o],
         state[o] = "polling" /\ regular[o] > 0
  PROVE  OnSlot(o)'
BY DEF CadenceIInv, SlotsKept, OnSlot

LEMMA SleepKeepsSlots ==
  ASSUME CadenceIInv, NEW a \in Agents, NEW b \in Known, NEW n \in Nat \ {0}, Sleep(a, b, n),
         clock' = clock, \A o \in Agents \ {a} : state'[o] = state[o]
  PROVE  SlotsKept'
<1> SUFFICES ASSUME NEW o \in Agents, state'[o] = "polling", regular'[o] > 0
             PROVE  OnSlot(o)'
  BY DEF SlotsKept
<1>1. CASE o = a
  BY <1>1, SleepIsOnSlot DEF CadenceIInv
<1>2. CASE o # a
  <2>1. wait'[o] = wait[o] /\ basis'[o] = basis[o] /\ regular'[o] = regular[o]
    BY <1>2 DEF Sleep, CadenceIInv, TypeOK
  <2> QED
    BY <1>2, <2>1, OthersKeepSlots
<1> QED
  BY <1>1, <1>2

\* The day is a whole number of periods.
LEMMA TickKeepsSlots ==
  ASSUME CadenceIInv, Tick
  PROVE  SlotsKept'
<1> SUFFICES ASSUME NEW o \in Agents, state[o] = "polling", regular[o] > 0
             PROVE  OnSlot(o)'
  BY DEF SlotsKept, Tick
<1> DEFINE p == Period(basis[o])
           periods == Day \div p
           ph == Phase(o, basis[o])
           now == wait[o]
<1>1. /\ clock \in 0 .. Day - 1 /\ wait[o] \in Nat /\ basis[o] \in Known
      /\ Day \in Nat \ {0} /\ Day % p = 0
  BY CadenceAssumptions DEF CadenceIInv, TypeOK
<1>2. p \in Nat \ {0} /\ Phase(o, basis[o]) \in Nat /\ Jitter(basis[o]) \in Nat
  BY <1>1, PeriodIs, PhaseIs
<1>3. /\ wait'[o] = wait[o] - 1 /\ basis' = basis
      /\ clock' = (clock + 1) % Day
  BY DEF Tick
<1>4. PICK j \in 0 .. Jitter(basis[o]), k \in Int :
        wait[o] + clock = Phase(o, basis[o]) + j + k * p
  BY DEF CadenceIInv, SlotsKept, OnSlot
<1> HIDE DEF p
<1>5. clock' = clock + 1 \/ clock' = clock + 1 - Day
  BY <1>1, <1>3
<1>6. periods \in Int /\ Day = p * periods
  BY <1>1, <1>2, DivMod
<1>7. j \in Int /\ clock \in Int /\ now \in Int /\ ph \in Int /\ p \in Int /\ Day \in Int
      /\ now + clock = ph + j + k * p
  BY <1>1, <1>2, <1>4
<1> HIDE DEF periods, ph, now
<1>8. /\ k - periods \in Int
      /\ (now - 1) + (clock + 1) = ph + j + k * p
      /\ (now - 1) + (clock + 1 - Day) = ph + j + (k - periods) * p
  BY <1>6, <1>7, SlotMoves
<1>9. CASE clock' = clock + 1
  BY <1>3, <1>8, <1>9 DEF OnSlot, p, ph, now
<1>10. CASE clock' = clock + 1 - Day
  <2>1. wait'[o] + clock' = ph + j + (k - periods) * p
    BY <1>3, <1>8, <1>10 DEF now
  <2> QED
    BY <1>3, <1>8, <2>1 DEF OnSlot, p, ph
<1> QED
  BY <1>5, <1>9, <1>10

LEMMA CadenceStep == ASSUME CadenceIInv, TypeOK', [Next]_vars PROVE CadenceIInv'
<1>1. ASSUME NEW a \in Agents, NEW o \in Agents \ {a}, Start(a) \/ Stop(a) \/ Rejected(a)
      PROVE  state'[o] = state[o]
  BY <1>1 DEF Start, Stop, Rejected, CadenceIInv, TypeOK
<1>2. refresh \in Known /\ \A a \in Agents : basis[a] \in Known
  BY DEF CadenceIInv, TypeOK
<1>3. CASE ChangeRefresh \/ RestartHub \/ UNCHANGED vars
  BY <1>3 DEF ChangeRefresh, RestartHub, vars, agentVars, CadenceIInv, SlotsKept, OnSlot
<1>4. ASSUME NEW a \in Agents, Stop(a) \/ Rejected(a) \/ (Start(a) /\ a = 0 /\ refresh = NoRefresh)
      PROVE  SlotsKept'
  <2> SUFFICES ASSUME NEW o \in Agents, state'[o] = "polling", regular'[o] > 0
               PROVE  OnSlot(o)'
    BY DEF SlotsKept
  <2>1. o # a
    BY <1>4 DEF Stop, Rejected, Start, CadenceIInv, TypeOK
  <2>2. /\ clock' = clock /\ wait'[o] = wait[o] /\ basis'[o] = basis[o]
        /\ regular'[o] = regular[o] /\ state'[o] = state[o]
    BY <1>1, <1>4, <2>1 DEF Stop, Rejected, Start, CadenceIInv, TypeOK
  <2> QED
    BY <2>2, OthersKeepSlots
<1>5. ASSUME NEW a \in Agents, Start(a), ~(a = 0 /\ refresh = NoRefresh)
      PROVE  SlotsKept'
  <2>1. Sleep(a, refresh, 1) /\ clock' = clock
    BY <1>5 DEF Start
  <2> QED
    BY <1>1, <1>2, <1>5, <2>1, SleepKeepsSlots
<1>6. ASSUME NEW a \in Agents, PollWithout(a)
      PROVE  SlotsKept'
  <2>1. PICK n \in 2 .. MaxBackoff : Sleep(a, basis[a], n)
    BY <1>6 DEF PollWithout
  <2>2. n \in Nat \ {0} /\ clock' = clock /\ state' = state
    BY <1>6, CadenceAssumptions DEF PollWithout
  <2> QED
    BY <1>2, <2>1, <2>2, SleepKeepsSlots
<1>7. ASSUME NEW a \in Agents, Refused(a) \/ ReportLost(a) \/ Reported(a)
      PROVE  SlotsKept'
  <2>1. PICK b \in Known : Sleep(a, b, 1)
    BY <1>2, <1>7 DEF Refused, ReportLost, Reported
  <2>2. clock' = clock /\ state' = state
    BY <1>7 DEF Refused, ReportLost, Reported
  <2> QED
    BY <2>1, <2>2, SleepKeepsSlots
<1> QED
  BY <1>3, <1>4, <1>5, <1>6, <1>7, TickKeepsSlots DEF Next, CadenceIInv

LEMMA CadenceInvariant == Spec => []CadenceIInv
<1>1. Init /\ TypeOK => CadenceIInv
  BY DEF Init, CadenceIInv, SlotsKept
<1> QED
  BY <1>1, CadenceStep, CadenceTypes, PTL DEF Spec

\* Two agents of one assignment never await polls closer than half an agent's share of
\* the period, whenever each was started, refused or left without data: for any cadence
\* and any number of agents there is room for.
THEOREM AgentsStaySpaced ==
  ASSUME RoomForAll
  PROVE  Spec => []AgentsSpaced
<1>1. ASSUME CadenceIInv, NEW a \in Agents, NEW b \in Agents, a < b,
             state[a] = "polling", state[b] = "polling",
             regular[a] > 0, regular[b] > 0, basis[a] = basis[b]
      PROVE  \/ 2 * Count * (wait[a] - wait[b]) >= Period(basis[a])
             \/ 2 * Count * (wait[b] - wait[a]) >= Period(basis[a])
  <2> DEFINE p == Period(basis[a])
             most == Jitter(basis[a])
             d == PhaseOffset(b, basis[a]) - PhaseOffset(a, basis[a])
             apart == PerSecond * d
  <2>1. /\ basis[a] \in Known /\ wait[a] \in Nat /\ wait[b] \in Nat /\ clock \in Nat
        /\ Count \in Nat \ {0} /\ PerSecond \in Nat
    BY <1>1, OrchestratorAssumptions, CadenceAssumptions DEF CadenceIInv, TypeOK
  <2>2. p \in Nat \ {0} /\ most \in Nat
    BY <2>1, PeriodIs
  <2>3. PICK ja \in 0 .. most, ka \in Int : wait[a] + clock = Phase(a, basis[a]) + ja + ka * p
    BY <1>1 DEF CadenceIInv, SlotsKept, OnSlot
  <2>4. PICK jb \in 0 .. most, kb \in Int : wait[b] + clock = Phase(b, basis[a]) + jb + kb * p
    BY <1>1 DEF CadenceIInv, SlotsKept, OnSlot
  <2>5. PICK qa \in Int : Phase(a, basis[a]) = PerSecond * PhaseOffset(a, basis[a]) + qa * p
    BY <2>1, PhaseIs
  <2>6. PICK qb \in Int : Phase(b, basis[a]) = PerSecond * PhaseOffset(b, basis[a]) + qb * p
    BY <2>1, PhaseIs
  <2>7. PhaseOffset(a, basis[a]) \in Nat /\ PhaseOffset(b, basis[a]) \in Nat
    BY <2>1, OffsetIs
  <2>8. /\ 2 * Count * (apart - most) >= p
        /\ 2 * Count * (p - apart - most) >= p
    BY <1>1, <2>1, OffsetsApart
  <2>9. apart \in Int
        /\ PerSecond * PhaseOffset(b, basis[a]) - PerSecond * PhaseOffset(a, basis[a]) = apart
    BY <2>1, <2>7
  <2> HIDE DEF p, most, d, apart
  <2>10. PICK k \in Int : wait[b] - wait[a] = apart + (jb - ja) + k * p
    <3> DEFINE x == PerSecond * PhaseOffset(a, basis[a])
               y == PerSecond * PhaseOffset(b, basis[a])
               v == wait[a]
               w == wait[b]
    <3>1. /\ x \in Int /\ y \in Int /\ v \in Int /\ w \in Int /\ clock \in Int
          /\ p \in Int /\ ja \in Int /\ jb \in Int
      BY <2>1, <2>2, <2>7
    <3>2. v + clock = (x + qa * p) + ja + ka * p /\ w + clock = (y + qb * p) + jb + kb * p
      BY <2>3, <2>4, <2>5, <2>6 DEF p
    <3>3. y - x = apart
      BY <2>9
    <3> HIDE DEF x, y, v, w
    <3>4. /\ kb - ka + qb - qa \in Int
          /\ w - v = (y - x) + (jb - ja) + (kb - ka + qb - qa) * p
      BY <3>1, <3>2
    <3> QED
      BY <3>3, <3>4 DEF v, w
  <2>11. CASE k >= 0
    <3>1. 0 <= k * p
      BY <2>2, <2>11
    <3>2. apart - most <= wait[b] - wait[a]
      BY <2>1, <2>2, <2>9, <2>10, <3>1
    <3>3. 2 * Count * (apart - most) <= 2 * Count * (wait[b] - wait[a])
      BY <2>1, <2>2, <2>9, <3>2, Scale
    <3> QED
      BY <2>1, <2>2, <2>8, <2>9, <3>3 DEF p
  <2>12. CASE k <= -1
    <3>1. k * p <= -p
      BY <2>2, <2>12
    <3>2. p - apart - most <= wait[a] - wait[b]
      BY <2>1, <2>2, <2>9, <2>10, <3>1
    <3>3. 2 * Count * (p - apart - most) <= 2 * Count * (wait[a] - wait[b])
      BY <2>1, <2>2, <2>9, <3>2, Scale
    <3> QED
      BY <2>1, <2>2, <2>8, <2>9, <3>3 DEF p
  <2> QED
    BY <2>11, <2>12
<1>2. CadenceIInv => AgentsSpaced
  BY <1>1 DEF AgentsSpaced
<1> QED
  BY <1>2, CadenceInvariant, PTL

\* The gap between two polls always lands within the interval: the wait taken at one slot
\* leads to the next period's, whatever jitter each draws.
THEOREM GapsWithinInterval == Spec => GapWithinInterval
<1>1. ASSUME CadenceIInv, [Next]_vars, NEW a \in Agents, Due(a), wait'[a] > 0, regular'[a] = 2
      PROVE  wait'[a] \in PerSecond * PollMin(basis[a]) .. PerSecond * PollMax(basis[a])
  <2> DEFINE p == Period(basis[a])
             most == Jitter(basis[a])
  <2>1. /\ basis[a] \in Known /\ wait[a] = 0 /\ state[a] = "polling" /\ clock \in Nat
        /\ wait \in [Agents -> Nat] /\ basis \in [Agents -> Known] /\ regular \in [Agents -> 0 .. 2]
    BY <1>1, CadenceAssumptions DEF CadenceIInv, TypeOK, Due
  <2>2. /\ p \in Nat \ {0} /\ most \in Nat /\ most < p
        /\ 2 * p = PerSecond * (PollMin(basis[a]) + PollMax(basis[a]))
        /\ 2 * most <= PerSecond * (PollMax(basis[a]) - PollMin(basis[a]))
    BY <2>1, PeriodIs
  <2>3. PICK b \in Known, n \in Nat \ {0} : Sleep(a, b, n) /\ clock' = clock
    <3>1. wait'[a] # wait[a]
      BY <1>1, <2>1
    <3>2. ASSUME NEW o \in Agents, o # a, NEW b, NEW n, Sleep(o, b, n)
          PROVE  FALSE
      BY <2>1, <3>1, <3>2 DEF Sleep
    <3>3. refresh \in Known /\ 1 \in Nat \ {0}
      BY <1>1 DEF CadenceIInv, TypeOK
    <3>4. 2 .. MaxBackoff \subseteq Nat \ {0}
      BY CadenceAssumptions
    <3>5. ~Tick /\ ~ChangeRefresh /\ ~RestartHub /\ ~UNCHANGED vars
      BY <1>1, <3>1 DEF Tick, ChangeRefresh, RestartHub, vars, agentVars
    <3>6. ASSUME NEW o \in Agents, Start(o) \/ Stop(o) \/ Rejected(o)
          PROVE  FALSE
      <4>1. ~Rejected(o) /\ (Start(o) => o # a)
        BY <2>1, <3>1 DEF Rejected, Start
      <4>2. ~Stop(o)
        BY <1>1, <2>1, <3>1 DEF Stop
      <4>3. CASE Start(o)
        <5>1. ~(o = 0 /\ refresh = NoRefresh)
          BY <2>1, <3>1, <4>1, <4>3 DEF Start
        <5> QED
          BY <3>2, <4>1, <4>3, <5>1 DEF Start
      <4> QED
        BY <3>6, <4>1, <4>2, <4>3
    <3>7. PICK o \in Agents : PollWithout(o) \/ Refused(o) \/ ReportLost(o) \/ Reported(o)
      BY <1>1, <3>5, <3>6 DEF Next
    <3>8. clock' = clock /\ \E b \in Known, n \in Nat \ {0} : Sleep(o, b, n)
      BY <2>1, <3>3, <3>4, <3>7 DEF PollWithout, Refused, ReportLost, Reported
    <3> QED
      BY <3>2, <3>8
  <2>4. wait'[a] \in NextWaits(a, b)
    BY <1>1, <2>1, <2>3, SleepIsOnSlot DEF CadenceIInv
  <2>5. b = basis[a] /\ regular[a] > 0
    <3>1. regular'[a] \in {0, Least(regular[a] + 1, 2), 1}
          /\ (regular'[a] = Least(regular[a] + 1, 2) \/ regular'[a] # 2)
      BY <2>1, <2>3 DEF Sleep
    <3>2. b # basis[a] => regular'[a] # 2
      BY <2>1, <2>3 DEF Sleep
    <3> QED
      BY <1>1, <2>1, <3>1, <3>2 DEF Least
  <2>6. PICK j \in 0 .. most, k \in Int : clock = Phase(a, basis[a]) + j + k * p
    <3>1. OnSlot(a)
      BY <1>1, <2>1, <2>5 DEF CadenceIInv, SlotsKept
    <3> QED
      BY <2>1, <3>1 DEF OnSlot
  <2>7. PICK next \in 0 .. most : wait'[a] = p - ((clock - Phase(a, basis[a])) % p) + next
    BY <2>4, <2>5 DEF NextWaits, UntilNext
  <2>8. Phase(a, basis[a]) \in Nat
    BY <2>1, PhaseIs
  <2> HIDE DEF p, most
  <2>9. (clock - Phase(a, basis[a])) % p = j
    <3>1. clock - Phase(a, basis[a]) = j + k * p
      BY <2>1, <2>2, <2>6, <2>8
    <3>2. (j + k * p) % p = j
      BY <2>2, <2>6, ModOf
    <3> QED
      BY <3>1, <3>2
  <2>10. wait'[a] = p - j + next /\ p - most <= wait'[a] /\ wait'[a] <= p + most /\ wait'[a] \in Int
    BY <2>2, <2>6, <2>7, <2>9
  <2>11. /\ PollMin(basis[a]) \in Nat /\ PollMax(basis[a]) \in Nat /\ PerSecond \in Nat
    BY <2>1, IntervalType, CadenceAssumptions
  <2>12. PerSecond * PollMin(basis[a]) <= p - most /\ p + most <= PerSecond * PollMax(basis[a])
         /\ PerSecond * PollMin(basis[a]) \in Int /\ PerSecond * PollMax(basis[a]) \in Int
    BY <2>2, <2>11
  <2> QED
    BY <2>2, <2>10, <2>12
<1>2. CadenceIInv /\ [Next]_vars
        => [\A a \in Agents :
              Due(a) /\ wait'[a] > 0 /\ regular'[a] = 2 =>
                wait'[a] \in PerSecond * PollMin(basis[a]) .. PerSecond * PollMax(basis[a])]_vars
  BY <1>1
<1> QED
  BY <1>2, CadenceInvariant, PTL DEF Spec, GapWithinInterval

=============================================================================
