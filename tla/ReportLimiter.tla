---------------------------- MODULE ReportLimiter ----------------------------
(***************************************************************************)
(* The rate limiter in front of the reading store: allowReport of          *)
(* internal/httpapi/agent.go and what the submit-reading handler does      *)
(* around it.  A request finds its slot, reads the clock and its           *)
(* assignment, and only then waits for the limiter's mutex, so that the    *)
(* decision is taken with a time and a gap that may be old, and requests   *)
(* of a key in another order than their times.  When there are many keys,  *)
(* those last heard of lastReportTTL ago are forgotten.                    *)
(*                                                                         *)
(* A key is a group and an index in it, not an agent: when the roster      *)
(* changes, an agent goes on under another key with what its predecessor   *)
(* left there, so any request may come with any key.                       *)
(***************************************************************************)
EXTENDS Integers, FiniteSets

CONSTANTS
  Keys,            \* (platform, region, index) triples
  PendingIds,      \* requests that may be in flight at once
  Gaps,            \* minGap values: 80 % of the pollMinSeconds assigned
  MaxKeys,         \* size above which old keys are forgotten (1000)
  LastReportTTL,
  MaxClock         \* bound on the clock

ASSUME LimiterAssumptions ==
  /\ Gaps \subseteq Nat
  /\ {MaxKeys, LastReportTTL, MaxClock} \subseteq Nat

VARIABLES
  clock,      \* time.Now(), monotonic
  lastReport, \* reportLimiter.last, a set with at most one entry per key
  pending,    \* requests on their way to the mutex
  granted     \* history: the entries made since the hub started

limiterVars == <<clock, lastReport, pending, granted>>

Entry == [key : Keys, at : Nat]

PendingRequest == [id : PendingIds, key : Keys, at : Nat, gap : Gaps]

EntryOf(q) == [key |-> q.key, at |-> q.at]

LimiterInit ==
  /\ clock = 0
  /\ lastReport = {}
  /\ pending = {}
  /\ granted = {}

(***************************************************************************)
(* The handler down to the limiter: mwAgent has found the slot, the time   *)
(* is taken, the reading is valid and the assignment gives the gap.        *)
(***************************************************************************)
Arrive(id, key, gap) ==
  /\ \A q \in pending : q.id # id
  /\ pending' = pending \cup
       {[id |-> id, key |-> key, at |-> clock, gap |-> gap]}
  /\ UNCHANGED <<clock, lastReport, granted>>

TooSoon(q) == \E e \in lastReport : e.key = q.key /\ q.at - e.at < q.gap

\* Mutant: when there is too much of it, everything goes.
ForgetAll(q) == IF Cardinality(lastReport) > MaxKeys THEN {} ELSE lastReport

\* When there are too many keys, those older than the TTL at the request's time go.
Forget(q) ==
  IF Cardinality(lastReport) > MaxKeys
    THEN {e \in lastReport : q.at - e.at <= LastReportTTL}
    ELSE lastReport

\* allowReport lets the request through to Store.Ingest.
Allow(q) ==
  /\ ~TooSoon(q)
  /\ lastReport' = {e \in Forget(q) : e.key # q.key} \cup {EntryOf(q)}
  /\ granted' = granted \cup {EntryOf(q)}
  /\ pending' = pending \ {q}
  /\ UNCHANGED clock

\* allowReport turns it away: 429.
Refuse(q) ==
  /\ TooSoon(q)
  /\ pending' = pending \ {q}
  /\ UNCHANGED <<clock, lastReport, granted>>

\* The limiter lives in memory: a restart forgets it.
Restart ==
  /\ lastReport' = {}
  /\ pending' = {}
  /\ granted' = {}
  /\ UNCHANGED clock

ClockTicks ==
  /\ clock < MaxClock
  /\ clock' = clock + 1
  /\ UNCHANGED <<lastReport, pending, granted>>

LimiterNext ==
  \/ \E id \in PendingIds, key \in Keys, gap \in Gaps : Arrive(id, key, gap)
  \/ \E q \in pending : Allow(q) \/ Refuse(q)
  \/ Restart
  \/ ClockTicks

LimiterSpec == LimiterInit /\ [][LimiterNext]_limiterVars

-----------------------------------------------------------------------------
\* The state is well formed: a key has one entry, and no time is in the future.
LimiterIsTyped ==
  /\ clock \in Nat
  /\ lastReport \subseteq Entry
  /\ \A e, f \in lastReport : e.key = f.key => e = f
  /\ pending \subseteq PendingRequest
  /\ granted \subseteq Entry
  /\ \A x \in lastReport \cup pending \cup granted : x.at <= clock

\* Two reports let through for a key are spaced by the later one's gap, in whatever
\* order they reached the mutex and whatever was forgotten between them; only a
\* report let through more than the TTL ago no longer counts.
ReportsSpaced ==
  [][\A q \in pending, e \in granted :
       Allow(q) /\ e.key = q.key =>
         q.at - e.at >= q.gap \/ clock - e.at > LastReportTTL]_limiterVars

\* An agent that keeps its schedule is never turned away: a refused report came
\* within its gap of one let through for its own key.
RefusedOnlyIfEarly ==
  [][\A q \in pending :
       Refuse(q) => \E e \in granted : e.key = q.key /\ q.at - e.at < q.gap]_limiterVars

=============================================================================
