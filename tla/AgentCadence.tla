----------------------------- MODULE AgentCadence -----------------------------
(***************************************************************************)
(* When the agents of a group poll: the hub's assignments, computed from   *)
(* the refresh time it has learnt, and refusals (httpapi/agent.go), and    *)
(* each agent's schedule.ts and reporter.ts, which follow the former by    *)
(* the wall clock and give up on one that is out of their range.           *)
(*                                                                         *)
(* The clock ticks PerSecond times a second: twice, or once where every    *)
(* period and jitter of the instance is a whole number of seconds.  It is  *)
(* known modulo a multiple of the periods.  A poll takes no time: requests *)
(* last seconds where periods last minutes.  What the agent was assigned   *)
(* is kept as the refresh time the assignment was computed from.  The      *)
(* roster does not change.  The expressions have a value at every refresh  *)
(* time: a bound that has none leaves the assignment as it was taken, and  *)
(* what it does to the loop is AgentPoller's BoundFails.                   *)
(***************************************************************************)
EXTENDS Orchestrator

CONSTANTS
  Floor,        \* AGENT_MIN_POLL_SECONDS
  Ceiling,      \* AGENT_MAX_POLL_SECONDS
  MaxBackoff,   \* MAX_BACKOFF
  PerSecond,    \* ticks in a second
  MaxSleep,     \* MAX_SLEEP_MS, in ticks
  Day,          \* the clock starts again after that many ticks
  LongAgo       \* bound on what is remembered of the last accepted report

\* What the game service shows ...
Shown == RefreshTimes \cup {NoRefresh}

\* ... and what the hub makes of it: report.Validate cuts it to whole seconds.
Learnt(refreshTime) == 100 * (refreshTime \div 100)

Known == {Learnt(r) : r \in Shown}

\* Schedule.fromAssignment.
Period(b) == (PerSecond * (PollMin(b) + PollMax(b))) \div 2

\* Mutant: the width of the whole interval.
JitterTwice(b) == PerSecond * (PollMax(b) - PollMin(b))

\* Half the width.
Jitter(b) == (PerSecond * (PollMax(b) - PollMin(b))) \div 2

Phase(a, b) == (PerSecond * PhaseOffset(a, b)) % Period(b)

ASSUME CadenceAssumptions ==
  /\ {Floor, Ceiling} \subseteq Expressions
  /\ MaxBackoff \in Nat
  /\ MaxSleep \in Nat \ {0}
  /\ PerSecond \in Nat \ {0}
  /\ Day \in Nat \ {0}
  /\ LongAgo \in Nat
  /\ \A b \in Known :
       /\ Day % Period(b) = 0
       /\ (PerSecond * (PollMin(b) + PollMax(b))) % 2 = 0
       /\ 8 * PerSecond * PollMin(b) <= 10 * LongAgo

Agents == 0 .. Count - 1

VARIABLES
  clock,      \* the wall clock, modulo Day
  service,    \* the refresh time the game service shows, or NoRefresh
  refresh,    \* the refresh time the hub knows
  accepted,   \* ticks since the limiter let a report of the agent pass
  state,      \* "off", "polling", or "rejected": stopped by CadenceRejectedError
  basis,      \* what the agent's assignment was computed from
  wait,       \* ticks until its next poll
  regular     \* history: polls in a row at slots of one assignment, the last of them
              \* being awaited, up to 2

agentVars == <<state, basis, wait, regular>>
vars == <<clock, service, refresh, accepted, agentVars>>

Init ==
  /\ clock = 0
  /\ service \in Shown
  /\ refresh = NoRefresh
  /\ accepted = [a \in Agents |-> LongAgo]
  /\ state = [a \in Agents |-> "off"]
  /\ basis = [a \in Agents |-> NoRefresh]
  /\ wait = [a \in Agents |-> 0]
  /\ regular = [a \in Agents |-> 0]

\* Mutant: the phase is left out.
UntilNextUnphased(a, b) == Period(b) - (clock % Period(b))

\* Schedule.nextWaitMs.
UntilNext(a, b) == Period(b) - ((clock - Phase(a, b)) % Period(b))

NextWaits(a, b) == {UntilNext(a, b) + jitter : jitter \in 0 .. Jitter(b)}

\* Poller.nextWaitMs, with the assignment computed from b and the backoff n.
Sleep(a, b, n) ==
  \E next \in NextWaits(a, b) :
    /\ wait' = [wait EXCEPT ![a] = Least(next * n, MaxSleep)]
    /\ regular' = [regular EXCEPT ![a] =
         IF n > 1 \/ next > MaxSleep THEN 0
         ELSE IF b = basis[a] THEN Least(regular[a] + 1, 2)
         ELSE 1]
    /\ basis' = [basis EXCEPT ![a] = b]

Due(a) == state[a] = "polling" /\ wait[a] = 0

-----------------------------------------------------------------------------
\* The bounds main checks before it starts: plain numbers only, and not rounded.
StartsWith(b) ==
  /\ Floor.factor = 0 => Second * PollMin(b) >= Resolved(Floor, NoRefresh)
  /\ Ceiling.factor = 0 => Second * PollMax(b) <= Resolved(Ceiling, NoRefresh)

\* An agent fetches its assignment; the lead one polls at once while the hub knows
\* no refresh time.
Start(a) ==
  /\ state[a] = "off"
  /\ StartsWith(refresh)
  /\ state' = [state EXCEPT ![a] = "polling"]
  /\ IF a = 0 /\ refresh = NoRefresh
       THEN /\ wait' = [wait EXCEPT ![a] = 0]
            /\ regular' = [regular EXCEPT ![a] = 0]
            /\ basis' = [basis EXCEPT ![a] = refresh]
       ELSE Sleep(a, refresh, 1)
  /\ UNCHANGED <<clock, service, refresh, accepted>>

Stop(a) ==
  /\ state[a] # "off"
  /\ state' = [state EXCEPT ![a] = "off"]
  /\ wait' = [wait EXCEPT ![a] = 0]
  /\ basis' = [basis EXCEPT ![a] = NoRefresh]
  /\ regular' = [regular EXCEPT ![a] = 0]
  /\ UNCHANGED <<clock, service, refresh, accepted>>

\* A poll that brings no data.  How the backoff grows, and the pauses that add to the
\* sleep, are in AgentPoller; a poll that does bring data takes the backoff back to 1.
PollWithout(a) ==
  /\ Due(a)
  /\ \E n \in 2 .. MaxBackoff : Sleep(a, basis[a], n)
  /\ UNCHANGED <<clock, service, refresh, accepted, state>>

-----------------------------------------------------------------------------
\* allowReport, with reportRateTolerance of the minimum the hub would assign now.
TooEarly(a) == 10 * accepted[a] < 8 * PerSecond * PollMin(refresh)

\* The hub lets the report pass: the limiter remembers it, and Ingest learns from it.
Take(a) ==
  /\ ~TooEarly(a)
  /\ accepted' = [accepted EXCEPT ![a] = 0]
  /\ refresh' = IF Learnt(service) = NoRefresh THEN refresh ELSE Learnt(service)

\* Mutant: a report that is refused counts as well.
RefusedAndCharged(a) ==
  /\ Due(a)
  /\ TooEarly(a)
  /\ accepted' = [accepted EXCEPT ![a] = 0]
  /\ Sleep(a, basis[a], 1)
  /\ UNCHANGED <<clock, service, refresh, state>>

\* 429: recordReal logs it, and the agent goes on with the assignment it has.
Refused(a) ==
  /\ Due(a)
  /\ TooEarly(a)
  /\ Sleep(a, basis[a], 1)
  /\ UNCHANGED <<clock, service, refresh, accepted, state>>

\* The report, or its answer, is lost.
ReportLost(a) ==
  /\ Due(a)
  /\ Take(a) \/ UNCHANGED <<accepted, refresh>>
  /\ Sleep(a, basis[a], 1)
  /\ UNCHANGED <<clock, service, state>>

\* Mutant: the bounds are compared as they are.
InRangeUnrounded(b) ==
  /\ Resolves(Floor, service) => Second * PollMin(b) >= Resolved(Floor, service)
  /\ Resolves(Ceiling, service) => Second * PollMax(b) <= Resolved(Ceiling, service)

\* enforceRange, with the refresh time just observed.
InRange(b) ==
  /\ Resolves(Floor, service) => PollMin(b) >= Round(Resolved(Floor, service))
  /\ Resolves(Ceiling, service) => PollMax(b) <= Round(Resolved(Ceiling, service))

\* The reply holds the assignment of before the report was ingested.
Reported(a) ==
  /\ Due(a)
  /\ Take(a)
  /\ InRange(refresh)
  /\ Sleep(a, refresh, 1)
  /\ UNCHANGED <<clock, service, state>>

Rejected(a) ==
  /\ Due(a)
  /\ Take(a)
  /\ ~InRange(refresh)
  /\ state' = [state EXCEPT ![a] = "rejected"]
  /\ basis' = [basis EXCEPT ![a] = refresh]
  /\ regular' = [regular EXCEPT ![a] = 0]
  /\ UNCHANGED <<clock, service, wait>>

-----------------------------------------------------------------------------
Tick ==
  /\ \A a \in Agents : ~Due(a)
  /\ clock' = (clock + 1) % Day
  /\ accepted' = [a \in Agents |-> Least(accepted[a] + 1, LongAgo)]
  /\ wait' = [a \in Agents |-> IF state[a] = "polling" THEN wait[a] - 1 ELSE wait[a]]
  /\ UNCHANGED <<service, refresh, state, basis, regular>>

\* The game service changes its refresh time, or no longer shows it.
ChangeRefresh ==
  /\ service' \in Shown \ {service}
  /\ UNCHANGED <<clock, refresh, accepted, agentVars>>

\* The limiter is memory; Hydrate brings the refresh time back, if it succeeds.
RestartHub ==
  /\ accepted' = [a \in Agents |-> LongAgo]
  /\ refresh' \in {refresh, NoRefresh}
  /\ UNCHANGED <<clock, service, agentVars>>

Next ==
  \/ Tick
  \/ ChangeRefresh
  \/ RestartHub
  \/ \E a \in Agents :
       \/ Start(a)
       \/ Stop(a)
       \/ PollWithout(a)
       \/ Refused(a)
       \/ ReportLost(a)
       \/ Reported(a)
       \/ Rejected(a)

Spec == Init /\ [][Next]_vars

Poll(a) == Refused(a) \/ Reported(a) \/ Rejected(a) \/ ReportLost(a) \/ PollWithout(a)

\* Time passes, and a poll that is due is made.
FairSpec ==
  /\ Spec
  /\ WF_vars(Tick)
  /\ \A a \in 0 .. Count - 1 : WF_vars(Poll(a))

-----------------------------------------------------------------------------
\* The state is well formed; a wait is never longer than the cap.
TypeOK ==
  /\ clock \in 0 .. Day - 1
  /\ service \in Shown
  /\ refresh \in Known
  /\ accepted \in [Agents -> 0 .. LongAgo]
  /\ state \in [Agents -> {"off", "polling", "rejected"}]
  /\ basis \in [Agents -> Known]
  /\ wait \in [Agents -> 0 .. MaxSleep]
  /\ regular \in [Agents -> 0 .. 2]

\* "the gap between two polls always lands within the interval": it does between two
\* polls of an unchanged assignment, neither of them moved by a backoff, by the cap on
\* the sleep or by the poll at the start.
GapWithinInterval ==
  [][\A a \in Agents :
       Due(a) /\ wait'[a] > 0 /\ regular'[a] = 2 =>
         wait'[a] \in PerSecond * PollMin(basis[a]) .. PerSecond * PollMax(basis[a])]_vars

\* "they stay spread out no matter when each one started or restarted": the polls two
\* agents of the same assignment await are at least half an agent's share of the
\* period apart.
AgentsSpaced ==
  \A a, b \in Agents :
    /\ a < b
    /\ state[a] = "polling" /\ state[b] = "polling"
    /\ regular[a] > 0 /\ regular[b] > 0 /\ basis[a] = basis[b]
    => \/ 2 * Count * (wait[a] - wait[b]) >= Period(basis[a])
       \/ 2 * Count * (wait[b] - wait[a]) >= Period(basis[a])

\* With the same expressions on both sides, an agent gives up only because the hub's
\* answer comes from another refresh time than the one just observed (an older one, or
\* this one without its fraction), or because the ceiling lies below the hub's hard
\* minimum.
RejectedOnlyWithCause ==
  [][\A a \in Agents :
       state[a] = "polling" /\ state'[a] = "rejected" =>
         \/ refresh # service
         \/ Resolved(Ceiling, service) < Second * HardMin]_vars

\* What keeps an agent from hearing of the hub's cadence.
Disturbed ==
  \/ ChangeRefresh
  \/ RestartHub
  \/ \E a \in Agents : Start(a) \/ Stop(a) \/ PollWithout(a) \/ ReportLost(a)

\* Once refresh time and hub stay as they are and polls bring data, every agent that
\* still polls ends up with the assignment the hub would give it now.
CadenceLearnt ==
  <>[][~Disturbed]_vars =>
    \A a \in 0 .. Count - 1 : <>[](state[a] = "polling" => basis[a] = refresh)

\* reporter.ts: "an identical expression on both sides compares equal and never
\* false-trips", so no agent with the hub's own expressions gives up.
NeverFalseTrips == \A a \in Agents : state[a] # "rejected"

=============================================================================
