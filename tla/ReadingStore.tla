---------------------------- MODULE ReadingStore ----------------------------
(***************************************************************************)
(* The path of a reading through the hub's store: the submit-reading       *)
(* handler of internal/httpapi/agent.go once it has an agent and a body,   *)
(* the locked compare-and-set of Store.Ingest, the insert that follows the *)
(* unlock, the change notification after it, and what happens beside them: *)
(* other requests, evictions, retention pruning, the admin's deletions, a  *)
(* crash and the boot that follows.                                        *)
(*                                                                         *)
(* A request is one goroutine.  A step of it is what no other goroutine    *)
(* can interrupt: a section under a mutex or one SQL statement.  Evict     *)
(* does not take ingestMu, but its one deletion commutes with what Ingest  *)
(* does under it.  The rate limiter (ReportLimiter) and the roster         *)
(* (AgentRoster) have modules of their own; here any validated report may  *)
(* be let through, for any agent.                                          *)
(***************************************************************************)
EXTENDS Integers, FiniteSets

CONSTANTS
  Agents,         \* agent ids
  NoAgent,        \* the NULL agent_id of an orphaned reading
  Groups,         \* (platform, region) pairs
  Platforms,
  PlatformOf,     \* the platform of a group
  Values,         \* stands for (survivor, killer, ratio, version, category)
  RefreshTimes,   \* refresh times an agent may report, 0 stands for none
  RequestIds,     \* requests that may be in flight at once
  Reports,        \* readings the agents may send
  MaxSkew,        \* clockSkewMs
  MaxAge,         \* maxAgeMs
  Retention,      \* cfg.DataRetentionDays
  MaxTime         \* bound on the clock

NoRefresh == 0

Report == [group : Groups, at : Nat, value : Values,
           refresh : RefreshTimes \cup {NoRefresh}]

Tile == [group : Groups, at : Nat, value : Values]

Row == [group : Groups, at : Nat, value : Values,
        refresh : RefreshTimes \cup {NoRefresh},
        agent : Agents \cup {NoAgent}]

Steps == {"accepted", "stored", "recorded"}

Request == [id : RequestIds, step : Steps, agent : Agents, report : Report]

ASSUME StoreAssumptions ==
  /\ NoAgent \notin Agents
  /\ PlatformOf \in [Groups -> Platforms]
  /\ RefreshTimes \subseteq Nat \ {0}
  /\ Reports \subseteq Report
  /\ {MaxSkew, MaxAge, Retention, MaxTime} \subseteq Nat

VARIABLES
  now,         \* the wall clock
  hub,         \* the hub's process, "up" or "down"
  live,        \* Store.live, a set with at most one tile per group
  refresh,     \* Store.refresh
  readings,    \* the readings table
  requests,    \* submit-reading requests in flight
  evicting,    \* groups whose tile Evict deleted and has not announced yet
  announced,   \* what a subscriber saw when it was last notified
  behind,      \* history: groups whose tile was kept from or taken out of the table
  ahead        \* history: groups whose tile was dropped while the table kept its row

vars == <<now, hub, live, refresh, readings, requests, evicting, announced,
          behind, ahead>>

memory == <<live, refresh>>
ghosts == <<behind, ahead>>

TileOf(r) == [group |-> r.group, at |-> r.at, value |-> r.value]

LiveOf(g) == {t \in live : t.group = g}

Replace(S, t) == {u \in S : u.group # t.group} \cup {t}

At(q, step) == [q EXCEPT !.step = step]

Advance(q, step) == requests' = (requests \ {q}) \cup {At(q, step)}

Answer(q) == requests' = requests \ {q}

(***************************************************************************)
(* emitChange(p): every subscriber of platform p reads the store again.    *)
(***************************************************************************)
EmitChange(p) ==
  announced' = {t \in announced : PlatformOf[t.group] # p}
               \cup {t \in live : PlatformOf[t.group] = p}

\* Mutant: one row of every group, without the MAX.
AnyPerGroup(S) ==
  /\ S \subseteq readings
  /\ \A r, q \in S : r.group = q.group => r = q
  /\ \A q \in readings : \E r \in S : r.group = q.group

(***************************************************************************)
(* One newest row of every group that has any: what the GROUP BY with      *)
(* MAX(measured_at) returns, with either row of a tie.                     *)
(***************************************************************************)
LatestPerGroup(S) ==
  /\ S \subseteq readings
  /\ \A r \in S, q \in readings : q.group = r.group => q.at <= r.at
  /\ \A r, q \in S : r.group = q.group => r = q
  /\ \A q \in readings : \E r \in S : r.group = q.group

-----------------------------------------------------------------------------
Init ==
  /\ now = 0
  /\ hub = "down"
  /\ live = {}
  /\ refresh = [g \in Groups |-> NoRefresh]
  /\ readings = {}
  /\ requests = {}
  /\ evicting = {}
  /\ announced = {}
  /\ behind = {}
  /\ ahead = {}

\* The bounds report.Validate puts on the time of a reading.
Acceptable(report) ==
  /\ report.at <= now + MaxSkew
  /\ report.at >= now - MaxAge

(***************************************************************************)
(* The handler down to allowReport: the token named an agent, the reading  *)
(* is for its group and within the bounds, and the limiter let it through. *)
(* A request turned away (400, 401, 429) leaves nothing behind.            *)
(***************************************************************************)
Accept(id, agent, report) ==
  /\ hub = "up"
  /\ \A q \in requests : q.id # id
  /\ Acceptable(report)
  /\ requests' = requests \cup
       {[id |-> id, step |-> "accepted", agent |-> agent, report |-> report]}
  /\ UNCHANGED <<now, hub, memory, readings, evicting, announced, ghosts>>

\* Mutant: a reading of the same instant passes as newer.
NotOlder(report) == \A t \in LiveOf(report.group) : t.at <= report.at

Newer(report) == \A t \in LiveOf(report.group) : t.at < report.at

(***************************************************************************)
(* The part of Store.Ingest under ingestMu.  The refresh time is kept even *)
(* when the reading is not; a reading that is not newer is answered 201    *)
(* and goes no further.                                                    *)
(***************************************************************************)
Ingest(q) ==
  /\ q.step = "accepted"
  /\ refresh' = IF q.report.refresh # NoRefresh
                  THEN [refresh EXCEPT ![q.report.group] = q.report.refresh]
                  ELSE refresh
  /\ IF Newer(q.report)
       THEN /\ live' = Replace(live, TileOf(q.report))
            /\ Advance(q, "stored")
       ELSE /\ Answer(q)
            /\ UNCHANGED live
  /\ UNCHANGED <<now, hub, readings, evicting, announced, ghosts>>

RowOf(q) == [group |-> q.report.group, at |-> q.report.at,
             value |-> q.report.value, refresh |-> q.report.refresh,
             agent |-> q.agent]

\* Mutant: the tile is read again after the unlock, and that one is inserted.
RecordShown(q) ==
  /\ q.step = "stored"
  /\ readings' = readings \cup
       {[RowOf(q) EXCEPT !.at = t.at, !.value = t.value]
          : t \in LiveOf(q.report.group)}
  /\ Advance(q, "recorded")
  /\ UNCHANGED <<now, hub, memory, evicting, announced, ghosts>>

\* ReadingsRepo.Record, after the unlock; a failure is logged and forgotten.
Record(q) ==
  /\ q.step = "stored"
  /\ \/ /\ readings' = readings \cup {RowOf(q)}
        /\ behind' = IF TileOf(q.report) \in live
                       THEN behind \ {q.report.group} ELSE behind
     \/ /\ behind' = behind \cup {q.report.group}
        /\ UNCHANGED readings
  /\ Advance(q, "recorded")
  /\ UNCHANGED <<now, hub, memory, evicting, announced, ahead>>

\* emitChange at the end of Store.Ingest, then the answer.
Notify(q) ==
  /\ q.step = "recorded"
  /\ EmitChange(PlatformOf[q.report.group])
  /\ Answer(q)
  /\ UNCHANGED <<now, hub, memory, readings, evicting, ghosts>>

-----------------------------------------------------------------------------
\* Mutant: the tile is deleted and nobody is told.
EvictSilently(g) ==
  /\ hub = "up"
  /\ g \notin evicting
  /\ live' = live \ LiveOf(g)
  /\ ahead' = ahead \cup {g}
  /\ UNCHANGED <<now, hub, refresh, readings, requests, evicting, announced, behind>>

(***************************************************************************)
(* Store.Evict(g): the deletion, then the notification.  The refresh time  *)
(* stays.  At most one eviction of a group is under way at a time.         *)
(***************************************************************************)
Evict(g) ==
  /\ hub = "up"
  /\ g \notin evicting
  /\ live' = live \ LiveOf(g)
  /\ evicting' = evicting \cup {g}
  /\ ahead' = ahead \cup {g}
  /\ UNCHANGED <<now, hub, refresh, readings, requests, announced, behind>>

NotifyEvicted(g) ==
  /\ g \in evicting
  /\ EmitChange(PlatformOf[g])
  /\ evicting' = evicting \ {g}
  /\ UNCHANGED <<now, hub, memory, readings, requests, ghosts>>

\* One DELETE on the readings table; no tile is touched by it.
DeleteReadings(S) ==
  /\ hub = "up"
  /\ readings' = readings \ S
  /\ behind' = behind \cup {r.group : r \in {x \in S : TileOf(x) \in live}}
  /\ UNCHANGED <<now, hub, memory, requests, evicting, announced, ahead>>

\* The hourly retention pass.
Prune == DeleteReadings({r \in readings : r.at < now - Retention})

PruneByAgent(a) == DeleteReadings({r \in readings : r.agent = a})

DeleteOrphans == DeleteReadings({r \in readings : r.agent = NoAgent})

\* History keeps the rows of a deleted or moved agent without its id.
OrphanAgentReadings(a) ==
  /\ hub = "up"
  /\ readings' = {IF r.agent = a THEN [r EXCEPT !.agent = NoAgent] ELSE r
                    : r \in readings}
  /\ UNCHANGED <<now, hub, memory, requests, evicting, announced, ghosts>>

\* The process dies: the table is all that is left.
Crash ==
  /\ hub = "up"
  /\ hub' = "down"
  /\ live' = {}
  /\ refresh' = [g \in Groups |-> NoRefresh]
  /\ requests' = {}
  /\ evicting' = {}
  /\ announced' = {}
  /\ UNCHANGED <<now, readings, behind, ahead>>

\* Store.Hydrate: the tiles and refresh times of the rows LatestPerGroup returns.
Hydrate(S) ==
  /\ live' = {TileOf(r) : r \in S}
  /\ refresh' = [g \in Groups |->
                   IF \E r \in S : r.group = g
                     THEN (CHOOSE r \in S : r.group = g).refresh
                     ELSE NoRefresh]

(***************************************************************************)
(* main: the store is hydrated before the server listens; a failed hydrate *)
(* is only logged.                                                         *)
(***************************************************************************)
Boot ==
  /\ hub = "down"
  /\ hub' = "up"
  /\ \/ /\ \E S \in SUBSET readings : LatestPerGroup(S) /\ Hydrate(S)
        /\ ahead' = {}
     \/ /\ UNCHANGED memory
        /\ ahead' = Groups
  /\ behind' = {}
  /\ announced' = live'
  /\ UNCHANGED <<now, readings, requests, evicting>>

Tick ==
  /\ now < MaxTime
  /\ now' = now + 1
  /\ UNCHANGED <<hub, memory, readings, requests, evicting, announced, ghosts>>

Submit(q) ==
  \/ Ingest(q)
  \/ Record(q)
  \/ Notify(q)

Next ==
  \/ \E id \in RequestIds, a \in Agents, report \in Reports :
       Accept(id, a, report)
  \/ \E q \in requests : Submit(q)
  \/ \E g \in Groups : Evict(g) \/ NotifyEvicted(g)
  \/ \E a \in Agents : PruneByAgent(a) \/ OrphanAgentReadings(a)
  \/ Prune
  \/ DeleteOrphans
  \/ Crash
  \/ Boot
  \/ Tick

Spec == Init /\ [][Next]_vars

-----------------------------------------------------------------------------
\* Accepted readings whose insert is still to come.
Pending == {q \in requests : q.step = "stored"}

Owed == {TileOf(q.report) : q \in Pending}

RowsOf(g) == {r \in readings : r.group = g}

\* The state is well formed: in particular a group has at most one tile and a
\* request id is in flight at most once.
TypeOK ==
  /\ now \in Nat
  /\ hub \in {"up", "down"}
  /\ live \subseteq Tile
  /\ \A t, u \in live : t.group = u.group => t = u
  /\ refresh \in [Groups -> RefreshTimes \cup {NoRefresh}]
  /\ readings \subseteq Row
  /\ requests \subseteq Request
  /\ \A q, r \in requests : q.id = r.id => q = r
  /\ evicting \subseteq Groups
  /\ announced \subseteq Tile
  /\ behind \subseteq Groups
  /\ ahead \subseteq Groups
  /\ hub = "down" => live = {} /\ requests = {} /\ evicting = {}

\* Whatever the order in which concurrent and late reports reach the store, the
\* tile of a group is only ever replaced by one measured strictly later; only an
\* eviction or a crash takes it away (Store.Ingest compares under ingestMu).
TileNeverRegresses ==
  [][\A t \in live, u \in live' : t.group = u.group /\ t # u => t.at < u.at]_vars

\* Between two bursts of requests a restart goes unnoticed: every tile shown is a
\* newest row of the table, and every group with rows shows a tile.  Excepted are
\* the groups whose insert failed or whose rows were deleted since the last boot
\* (behind), and those evicted since then (ahead): their old tile would come back.
QuietRestartInvisible ==
  hub = "up" /\ Pending = {} =>
    \A g \in Groups \ (behind \cup ahead) :
      /\ LiveOf(g) = {} => RowsOf(g) = {}
      /\ \A t \in LiveOf(g) :
           /\ t \in {TileOf(r) : r \in RowsOf(g)}
           /\ \A r \in RowsOf(g) : r.at <= t.at

\* A report sent twice, or two agents of a group measuring in the same
\* millisecond, leave one row: an insert under way is for an instant its group has
\* no row of and no other insert is bringing.  An eviction reopens past instants.
NothingRecordedTwice ==
  \A q \in Pending :
    q.report.group \notin ahead =>
      /\ \A r \in RowsOf(q.report.group) : r.at # q.report.at
      /\ \A p \in Pending :
           p.report.group = q.report.group /\ p # q => p.report.at # q.report.at

\* Once no write to a platform waits for its notification, its subscribers have
\* been told of exactly what the store shows: no change is left unannounced,
\* although it is made and announced in separate steps.
AnnouncedWhenQuiet ==
  \A p \in Platforms :
    LET waiting == \/ \E q \in requests :
                        /\ q.step \in {"stored", "recorded"}
                        /\ PlatformOf[q.report.group] = p
                   \/ \E g \in evicting : PlatformOf[g] = p
    IN  hub = "up" /\ ~waiting =>
          {t \in announced : PlatformOf[t.group] = p}
            = {t \in live : PlatformOf[t.group] = p}

\* A tile dated ahead of the clock keeps every honest reading out until the clock
\* catches up, so no tile and no row is ever dated more than the allowed skew
\* ahead, across evictions and restarts.
LockoutBounded ==
  \A x \in live \cup readings : x.at <= now + MaxSkew

\* The store as its promise: tiles, what is owed to the history, the history.
Promise == INSTANCE LatestTile WITH
  serving <- hub,
  tiles   <- live,
  owed    <- Owed,
  history <- {TileOf(r) : r \in readings}

\* Requests, refresh times and row attribution put aside, the store is a
\* LatestTile: tiles only move forward, a reading shown is recorded or lost whole,
\* and a boot shows the newest of what was recorded or nothing.
KeepsPromise == Promise!Spec

=============================================================================
