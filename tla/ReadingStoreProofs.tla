------------------------- MODULE ReadingStoreProofs -------------------------
(***************************************************************************)
(* Proofs about ReadingStore, for every set of groups, agents, values,     *)
(* requests and reports, and about ReportLimiter, for every set of keys    *)
(* and requests, every gap and any number of keys remembered; with no      *)
(* bound on either clock.                                                  *)
(***************************************************************************)
EXTENDS ReadingStore, ReportLimiter, TLAPS

\* A tile is in the table, or its insert is under way, or its group is excused:
\* what makes a restart in a quiet moment find every tile again.
LiveKept ==
  \A t \in live :
    t.group \notin behind =>
      \/ \E r \in readings : TileOf(r) = t
      \/ \E q \in Pending : TileOf(q.report) = t

\* No row is newer than the tile of its group: what makes a restart find no other
\* tile, and a reading that passes the comparison new to the table.
TableNotAhead ==
  hub = "up" => \A r \in readings :
          r.group \notin ahead =>
            \E t \in live : t.group = r.group /\ r.at <= t.at

\* The same for the rows to come.
PendingNotAhead ==
  \A q \in Pending :
    q.report.group \notin ahead =>
      \E t \in live : t.group = q.report.group /\ q.report.at <= t.at

IInv ==
  /\ TypeOK
  /\ LiveKept
  /\ TableNotAhead
  /\ PendingNotAhead
  /\ NothingRecordedTwice

-----------------------------------------------------------------------------
\* Moving a request to another step changes its step only.
LEMMA AtFields ==
  ASSUME NEW q \in Request, NEW step \in Steps
  PROVE  /\ At(q, step) \in Request
         /\ At(q, step).id = q.id
         /\ At(q, step).step = step
         /\ At(q, step).agent = q.agent
         /\ At(q, step).report = q.report
  BY DEF At, Request

\* The tile of a report or of a row is a tile of the same group and instant.
LEMMA TileFields ==
  ASSUME NEW r \in Report \cup Row
  PROVE  /\ TileOf(r) \in Tile
         /\ TileOf(r).group = r.group
         /\ TileOf(r).at = r.at
         /\ TileOf(r).value = r.value
  BY DEF TileOf, Tile, Report, Row

\* The row of a request is a row, with the tile of its report.
LEMMA RowFields ==
  ASSUME NEW q \in Request
  PROVE  /\ RowOf(q) \in Row
         /\ RowOf(q).group = q.report.group
         /\ RowOf(q).at = q.report.at
         /\ RowOf(q).agent = q.agent
         /\ TileOf(RowOf(q)) = TileOf(q.report)
  BY DEF RowOf, Row, Request, Report, TileOf

\* Orphaning a row changes its agent only.
LEMMA OrphanFields ==
  ASSUME NEW r \in Row, NEW a \in Agents \cup {NoAgent}
  PROVE  /\ [r EXCEPT !.agent = a] \in Row
         /\ [r EXCEPT !.agent = a].group = r.group
         /\ [r EXCEPT !.agent = a].at = r.at
         /\ TileOf([r EXCEPT !.agent = a]) = TileOf(r)
  BY DEF Row, TileOf

\* Replacing a tile keeps at most one per group.
LEMMA ReplaceFields ==
  ASSUME NEW S \in SUBSET Tile, NEW t \in Tile,
         \A u, v \in S : u.group = v.group => u = v
  PROVE  /\ Replace(S, t) \subseteq Tile
         /\ \A u, v \in Replace(S, t) : u.group = v.group => u = v
         /\ t \in Replace(S, t)
         /\ \A u \in S : u.group # t.group => u \in Replace(S, t)
         /\ \A u \in Replace(S, t) : u = t \/ (u \in S /\ u.group # t.group)
  BY DEF Replace

-----------------------------------------------------------------------------
LEMMA InitType == Init => TypeOK
  BY StoreAssumptions DEF Init, TypeOK, NoRefresh

LEMMA NextType == TypeOK /\ [Next]_vars => TypeOK'
<1> SUFFICES ASSUME TypeOK, [Next]_vars PROVE TypeOK'
  OBVIOUS
<1> USE StoreAssumptions
<1>1. ASSUME NEW id \in RequestIds, NEW a \in Agents, NEW report \in Reports,
             Accept(id, a, report)
      PROVE  TypeOK'
  <2>1. [id |-> id, step |-> "accepted", agent |-> a, report |-> report]
          \in Request
    BY DEF Request, Steps
  <2> QED
    BY <1>1, <2>1 DEF Accept, TypeOK, memory, ghosts
<1>2. ASSUME NEW q \in requests, Ingest(q) PROVE TypeOK'
  <2>1. /\ q \in Request
        /\ q.report \in Report
        /\ At(q, "stored") \in Request
        /\ At(q, "stored").id = q.id
    BY AtFields DEF TypeOK, Request, Steps
  <2>2. refresh' \in [Groups -> RefreshTimes \cup {NoRefresh}]
    BY <1>2, <2>1 DEF Ingest, TypeOK, Report
  <2>3. live' \subseteq Tile /\ \A t, u \in live' : t.group = u.group => t = u
    BY <1>2, <2>1, TileFields, ReplaceFields DEF Ingest, TypeOK
  <2>4. /\ requests' \subseteq Request
        /\ \A p, r \in requests' : p.id = r.id => p = r
    BY <1>2, <2>1 DEF Ingest, TypeOK, Advance, Answer
  <2> QED
    BY <1>2, <2>2, <2>3, <2>4 DEF Ingest, TypeOK, ghosts
<1>3. ASSUME NEW q \in requests, Record(q) PROVE TypeOK'
  <2>1. /\ q \in Request
        /\ q.report.group \in Groups
        /\ At(q, "recorded") \in Request
        /\ At(q, "recorded").id = q.id
        /\ RowOf(q) \in Row
    BY AtFields, RowFields DEF TypeOK, Request, Report, Steps
  <2>2. /\ requests' \subseteq Request
        /\ \A p, r \in requests' : p.id = r.id => p = r
    BY <1>3, <2>1 DEF Record, TypeOK, Advance
  <2> QED
    BY <1>3, <2>1, <2>2 DEF Record, TypeOK, memory
<1>4. ASSUME NEW q \in requests, Notify(q) PROVE TypeOK'
  BY <1>4 DEF Notify, EmitChange, Answer, TypeOK, memory, ghosts
<1>5. ASSUME NEW g \in Groups, Evict(g) PROVE TypeOK'
  BY <1>5 DEF Evict, TypeOK
<1>6. ASSUME NEW g \in Groups, NotifyEvicted(g) PROVE TypeOK'
  BY <1>6 DEF NotifyEvicted, EmitChange, TypeOK, memory, ghosts
<1>7. ASSUME NEW S \in SUBSET readings, DeleteReadings(S) PROVE TypeOK'
  <2>1. \A r \in readings : r.group \in Groups
    BY DEF TypeOK, Row
  <2> QED
    BY <1>7, <2>1 DEF DeleteReadings, TypeOK, memory
<1>8. ASSUME NEW a \in Agents, OrphanAgentReadings(a) PROVE TypeOK'
  <2>1. readings' \subseteq Row
    BY <1>8, OrphanFields DEF OrphanAgentReadings, TypeOK
  <2> QED
    BY <1>8, <2>1 DEF OrphanAgentReadings, TypeOK, memory, ghosts
<1>9. CASE Crash
  BY <1>9 DEF Crash, TypeOK, NoRefresh
<1>10. CASE Boot
  <2>1. ASSUME NEW S \in SUBSET readings, LatestPerGroup(S), Hydrate(S)
        PROVE  /\ live' \subseteq Tile
               /\ \A t, u \in live' : t.group = u.group => t = u
               /\ refresh' \in [Groups -> RefreshTimes \cup {NoRefresh}]
    <3>1. \A r \in S : r \in Row /\ TileOf(r) \in Tile /\ TileOf(r).group = r.group
      BY TileFields DEF TypeOK
    <3>2. \A r, s \in S : r.group = s.group => r = s
      BY <2>1 DEF LatestPerGroup
    <3>3. \A g \in Groups :
            (\E r \in S : r.group = g) =>
              (CHOOSE r \in S : r.group = g).refresh \in RefreshTimes \cup {NoRefresh}
      BY <3>1 DEF Row
    <3> QED
      BY <2>1, <3>1, <3>2, <3>3 DEF Hydrate
  <2> QED
    BY <1>10, <2>1 DEF Boot, TypeOK, memory
<1>11. CASE Tick
  BY <1>11 DEF Tick, TypeOK, memory, ghosts
<1>12. CASE UNCHANGED vars
  BY <1>12 DEF vars, TypeOK
<1> QED
  BY <1>1, <1>2, <1>3, <1>4, <1>5, <1>6, <1>7, <1>8, <1>9, <1>10, <1>11, <1>12
  DEF Next, Submit, Prune, PruneByAgent, DeleteOrphans

\* The type invariant of the store.
THEOREM StoreTypeOK == Spec => []TypeOK
  BY InitType, NextType, PTL DEF Spec

-----------------------------------------------------------------------------
LEMMA InitInv == Init => IInv
  BY InitType
  DEF Init, IInv, LiveKept, TableNotAhead, PendingNotAhead,
      NothingRecordedTwice, Pending

\* A request that turns up or moves on before it is stored, or is answered after
\* it is recorded, leaves the pending inserts as they are.
LEMMA SamePending ==
  ASSUME IInv, TypeOK', hub' = hub, live' = live, readings' = readings,
         behind' = behind, ahead' = ahead, Pending' = Pending
  PROVE  IInv'
  BY DEF IInv, LiveKept, TableNotAhead, PendingNotAhead,
         NothingRecordedTwice, RowsOf

LEMMA IngestInv ==
  ASSUME IInv, TypeOK', NEW q \in requests, Ingest(q)
  PROVE  IInv'
<1> DEFINE t == TileOf(q.report)
           p == At(q, "stored")
<1>1. /\ q \in Request /\ q.report \in Report
      /\ p.step = "stored" /\ p.report = q.report
      /\ t \in Tile /\ t.group = q.report.group /\ t.at = q.report.at
      /\ hub = "up"
  BY AtFields, TileFields DEF IInv, TypeOK, Request, Steps
<1>2. CASE ~Newer(q.report)
  <2>1. Pending' = Pending
    BY <1>2 DEF Ingest, Answer, Pending
  <2> QED
    BY <1>2, <2>1, SamePending DEF Ingest, ghosts
<1>3. CASE Newer(q.report)
  <2>1. /\ live' = Replace(live, t)
        /\ requests' = (requests \ {q}) \cup {p}
        /\ UNCHANGED <<hub, readings, behind, ahead>>
        /\ q.step = "accepted"
    BY <1>3 DEF Ingest, Advance, ghosts
  <2>2. Pending' = Pending \cup {p}
    BY <1>1, <2>1 DEF Pending
  <2>3. /\ t \in live'
        /\ \A u \in live : u.group # t.group => u \in live'
        /\ \A u \in live' : u = t \/ u \in live
        /\ \A u \in live : u.group = t.group => u.at < t.at
    BY <1>1, <1>3, <2>1 DEF Replace, Newer, LiveOf
  <2>4. LiveKept'
    BY <1>1, <2>1, <2>2, <2>3 DEF IInv, LiveKept
  <2>5. ASSUME NEW u \in live, NEW x \in Nat, x <= u.at
        PROVE  \E v \in live' : v.group = u.group /\ x <= v.at
    BY <1>1, <2>3, <2>5 DEF IInv, TypeOK, Tile
  <2>6. TableNotAhead'
    BY <1>1, <2>1, <2>5 DEF IInv, TableNotAhead, TypeOK, Row
  <2>7. PendingNotAhead'
    <3>1. \A r \in Pending : r.report.at \in Nat
      BY DEF Pending, IInv, TypeOK, Request, Report
    <3> QED
      BY <1>1, <2>1, <2>2, <2>3, <2>5, <3>1 DEF IInv, PendingNotAhead, Tile
  <2>8. NothingRecordedTwice'
    <3>1. ASSUME q.report.group \notin ahead
          PROVE  /\ \A r \in RowsOf(q.report.group) : r.at # q.report.at
                 /\ \A r \in Pending : r.report.group = q.report.group
                                        => r.report.at # q.report.at
      <4>1. ASSUME NEW x \in Nat, NEW u \in live, u.group = t.group, x <= u.at
            PROVE  x # q.report.at
        BY <1>1, <2>3, <4>1 DEF IInv, TypeOK, Tile
      <4>2. \A r \in RowsOf(q.report.group) :
              r.at \in Nat /\ \E u \in live : u.group = t.group /\ r.at <= u.at
        BY <1>1, <3>1 DEF IInv, TableNotAhead, RowsOf, TypeOK, Row
      <4>3. \A r \in Pending :
              r.report.group = q.report.group =>
                /\ r.report.at \in Nat
                /\ \E u \in live : u.group = t.group /\ r.report.at <= u.at
        BY <1>1, <3>1 DEF IInv, PendingNotAhead, Pending, TypeOK, Request, Report
      <4> QED
        BY <4>1, <4>2, <4>3
    <3> QED
      BY <1>1, <2>1, <2>2, <3>1 DEF IInv, NothingRecordedTwice, RowsOf
  <2> QED
    BY <2>4, <2>6, <2>7, <2>8 DEF IInv
<1> QED
  BY <1>2, <1>3

LEMMA RecordInv ==
  ASSUME IInv, TypeOK', NEW q \in requests, Record(q)
  PROVE  IInv'
<1> DEFINE p == At(q, "recorded")
<1>1. /\ q \in Request /\ q \in Pending /\ q.report \in Report
      /\ p.step = "recorded"
      /\ RowOf(q) \in Row
      /\ RowOf(q).group = q.report.group /\ RowOf(q).at = q.report.at
      /\ TileOf(RowOf(q)) = TileOf(q.report)
      /\ TileOf(q.report).group = q.report.group
      /\ hub = "up"
  BY AtFields, RowFields, TileFields
  DEF IInv, TypeOK, Request, Steps, Record, Pending
<1>2. /\ requests' = (requests \ {q}) \cup {p}
      /\ UNCHANGED <<hub, live, ahead>>
  BY DEF Record, Advance, memory
<1>3. Pending' = Pending \ {q}
  BY <1>1, <1>2 DEF Pending
<1>4. CASE /\ readings' = readings \cup {RowOf(q)}
           /\ behind' = IF TileOf(q.report) \in live
                          THEN behind \ {q.report.group} ELSE behind
  <2>1. LiveKept'
    <3> SUFFICES ASSUME NEW t \in live, t.group \notin behind'
                 PROVE  \/ \E r \in readings' : TileOf(r) = t
                        \/ \E r \in Pending' : TileOf(r.report) = t
      BY <1>2 DEF LiveKept
    <3>1. CASE t = TileOf(q.report)
      BY <1>1, <1>4, <3>1
    <3>2. CASE t # TileOf(q.report)
      <4>1. t.group \notin behind
        BY <1>1, <1>4, <3>2 DEF IInv, TypeOK
      <4> QED
        BY <1>3, <1>4, <3>2, <4>1 DEF IInv, LiveKept
    <3> QED
      BY <3>1, <3>2
  <2>2. TableNotAhead'
    BY <1>1, <1>2, <1>4 DEF IInv, TableNotAhead, PendingNotAhead
  <2>3. PendingNotAhead'
    BY <1>2, <1>3 DEF IInv, PendingNotAhead
  <2>4. NothingRecordedTwice'
    BY <1>1, <1>2, <1>3, <1>4 DEF IInv, NothingRecordedTwice, RowsOf
  <2> QED
    BY <2>1, <2>2, <2>3, <2>4 DEF IInv
<1>5. CASE behind' = behind \cup {q.report.group} /\ UNCHANGED readings
  <2>1. LiveKept'
    BY <1>1, <1>2, <1>3, <1>5 DEF IInv, LiveKept
  <2> QED
    BY <1>2, <1>3, <1>5, <2>1
    DEF IInv, TableNotAhead, PendingNotAhead, NothingRecordedTwice, RowsOf
<1> QED
  BY <1>4, <1>5 DEF Record

LEMMA EvictInv ==
  ASSUME IInv, TypeOK', NEW g \in Groups, Evict(g)
  PROVE  IInv'
<1>1. /\ live' = {t \in live : t.group # g}
      /\ ahead' = ahead \cup {g}
      /\ UNCHANGED <<hub, readings, requests, behind>>
      /\ Pending' = Pending
  BY DEF Evict, LiveOf, Pending
<1> QED
  BY <1>1
  DEF IInv, LiveKept, TableNotAhead, PendingNotAhead, NothingRecordedTwice, RowsOf

LEMMA DeleteInv ==
  ASSUME IInv, TypeOK', NEW S \in SUBSET readings, DeleteReadings(S)
  PROVE  IInv'
<1>1. /\ readings' = readings \ S
      /\ behind' = behind \cup {r.group : r \in {x \in S : TileOf(x) \in live}}
      /\ UNCHANGED <<hub, live, requests, ahead>>
      /\ Pending' = Pending
  BY DEF DeleteReadings, memory, Pending
<1>2. LiveKept'
  <2> SUFFICES ASSUME NEW t \in live, t.group \notin behind'
               PROVE  \/ \E r \in readings' : TileOf(r) = t
                      \/ \E r \in Pending' : TileOf(r.report) = t
    BY <1>1 DEF LiveKept
  <2>1. ASSUME NEW r \in S, TileOf(r) = t PROVE FALSE
    BY <1>1, <2>1, TileFields DEF IInv, TypeOK
  <2> QED
    BY <1>1, <2>1 DEF IInv, LiveKept
<1> QED
  BY <1>1, <1>2
  DEF IInv, TableNotAhead, PendingNotAhead, NothingRecordedTwice, RowsOf

LEMMA OrphanInv ==
  ASSUME IInv, TypeOK', NEW a \in Agents, OrphanAgentReadings(a)
  PROVE  IInv'
<1>1. /\ UNCHANGED <<hub, live, requests, behind, ahead>>
      /\ Pending' = Pending
  BY DEF OrphanAgentReadings, memory, ghosts, Pending
<1> DEFINE f(x) == IF x.agent = a THEN [x EXCEPT !.agent = NoAgent] ELSE x
<1>2. readings' = {f(x) : x \in readings}
  BY DEF OrphanAgentReadings
<1>3. \A x \in readings :
        f(x).group = x.group /\ f(x).at = x.at /\ TileOf(f(x)) = TileOf(x)
  BY OrphanFields DEF IInv, TypeOK
<1> HIDE DEF f
<1>4. LiveKept'
  BY <1>1, <1>2, <1>3 DEF IInv, LiveKept
<1>5. TableNotAhead'
  BY <1>1, <1>2, <1>3 DEF IInv, TableNotAhead
<1>6. NothingRecordedTwice'
  BY <1>1, <1>2, <1>3 DEF IInv, NothingRecordedTwice, RowsOf
<1> QED
  BY <1>1, <1>4, <1>5, <1>6 DEF IInv, PendingNotAhead

LEMMA BootInv ==
  ASSUME IInv, TypeOK', Boot
  PROVE  IInv'
<1>1. Pending = {} /\ Pending' = {} /\ UNCHANGED readings /\ behind' = {}
  BY DEF Boot, IInv, TypeOK, Pending
<1>2. ASSUME NEW S \in SUBSET readings, LatestPerGroup(S), Hydrate(S)
      PROVE  LiveKept' /\ TableNotAhead'
  <2>1. \A r \in S : /\ TileOf(r) \in live'
                     /\ TileOf(r).group = r.group /\ TileOf(r).at = r.at
    BY <1>2, TileFields DEF Hydrate, IInv, TypeOK
  <2>2. \A t \in live' : \E r \in readings' : TileOf(r) = t
    BY <1>1, <1>2 DEF Hydrate
  <2>3. \A r \in readings' : \E s \in S : s.group = r.group /\ r.at <= s.at
    BY <1>1, <1>2 DEF LatestPerGroup
  <2> QED
    BY <2>1, <2>2, <2>3 DEF LiveKept, TableNotAhead
<1>3. ASSUME UNCHANGED memory, ahead' = Groups
      PROVE  LiveKept' /\ TableNotAhead'
  <2>1. live' = {} /\ \A r \in readings' : r.group \in Groups
    BY <1>1, <1>3 DEF Boot, memory, IInv, TypeOK, Row
  <2> QED
    BY <1>3, <2>1 DEF LiveKept, TableNotAhead
<1> QED
  BY <1>1, <1>2, <1>3 DEF Boot, IInv, PendingNotAhead, NothingRecordedTwice

LEMMA NextInv == IInv /\ [Next]_vars => IInv'
<1> SUFFICES ASSUME IInv, [Next]_vars PROVE IInv'
  OBVIOUS
<1>0. TypeOK'
  BY NextType DEF IInv
<1>1. ASSUME NEW id \in RequestIds, NEW a \in Agents, NEW report \in Reports,
             Accept(id, a, report)
      PROVE  IInv'
  <2>1. Pending' = Pending
    BY <1>1 DEF Accept, Pending
  <2> QED
    BY <1>0, <1>1, <2>1, SamePending DEF Accept, memory, ghosts
<1>2. ASSUME NEW q \in requests, Notify(q) PROVE IInv'
  <2>1. Pending' = Pending
    BY <1>2 DEF Notify, Answer, Pending
  <2> QED
    BY <1>0, <1>2, <2>1, SamePending DEF Notify, memory, ghosts
<1>3. ASSUME NEW g \in Groups, NotifyEvicted(g) PROVE IInv'
  BY <1>0, <1>3, SamePending DEF NotifyEvicted, memory, ghosts, Pending
<1>4. CASE Crash
  BY <1>0, <1>4 DEF Crash, IInv, LiveKept, TableNotAhead, PendingNotAhead,
                    NothingRecordedTwice, Pending
<1>5. CASE Tick
  BY <1>0, <1>5, SamePending DEF Tick, memory, ghosts, Pending
<1>6. CASE UNCHANGED vars
  BY <1>0, <1>6, SamePending DEF vars, Pending
<1> QED
  BY <1>0, <1>1, <1>2, <1>3, <1>4, <1>5, <1>6,
     IngestInv, RecordInv, EvictInv, DeleteInv, OrphanInv, BootInv
  DEF Next, Submit, Prune, PruneByAgent, DeleteOrphans

LEMMA StoreInv == Spec => []IInv
  BY InitInv, NextInv, PTL DEF Spec

-----------------------------------------------------------------------------
\* A quiet hub shows exactly the newest rows, save for the groups whose insert
\* failed, whose rows were deleted or whose tile was evicted since the boot.
THEOREM StoreQuietRestart == Spec => []QuietRestartInvisible
<1>1. IInv => QuietRestartInvisible
  <2> SUFFICES ASSUME IInv, hub = "up", Pending = {}, NEW g \in Groups,
                      g \notin behind, g \notin ahead
               PROVE  /\ LiveOf(g) = {} => RowsOf(g) = {}
                      /\ \A t \in LiveOf(g) :
                           /\ t \in {TileOf(r) : r \in RowsOf(g)}
                           /\ \A r \in RowsOf(g) : r.at <= t.at
    BY DEF QuietRestartInvisible
  <2>1. \A r \in RowsOf(g) : \E t \in LiveOf(g) : r.at <= t.at
    BY DEF IInv, TableNotAhead, RowsOf, LiveOf
  <2>2. ASSUME NEW t \in LiveOf(g)
        PROVE  /\ t \in {TileOf(r) : r \in RowsOf(g)}
               /\ \A r \in RowsOf(g) : r.at <= t.at
    <3>1. \E r \in readings : TileOf(r) = t
      BY DEF IInv, LiveKept, LiveOf
    <3>2. \A r \in readings : TileOf(r).group = r.group
      BY TileFields DEF IInv, TypeOK
    <3>3. \A u \in LiveOf(g) : u = t
      BY DEF IInv, TypeOK, LiveOf
    <3> QED
      BY <2>1, <3>1, <3>2, <3>3 DEF RowsOf, LiveOf
  <2> QED
    BY <2>1, <2>2
<1> QED
  BY <1>1, StoreInv, PTL

\* However requests interleave, and however often a report is retried, a group
\* never gets two rows for one instant, unless an eviction reopened it.
THEOREM StoreNothingTwice == Spec => []NothingRecordedTwice
<1>1. IInv => NothingRecordedTwice
  BY DEF IInv
<1> QED
  BY <1>1, StoreInv, PTL

\* The tile of a group only moves forward in measuring time: no interleaving of
\* late, retried or concurrent reports takes a visitor back.
THEOREM StoreNeverRegresses == Spec => TileNeverRegresses
<1> DEFINE Forward == \A t \in live, u \in live' :
                        t.group = u.group /\ t # u => t.at < u.at
<1>1. ASSUME TypeOK, [Next]_vars PROVE Forward
  <2>1. ASSUME live' \subseteq live PROVE Forward
    BY <1>1, <2>1 DEF TypeOK
  <2>2. ASSUME NEW q \in requests, Ingest(q) PROVE Forward
    <3>1. TileOf(q.report).group = q.report.group /\ TileOf(q.report).at = q.report.at
      BY <1>1, TileFields DEF TypeOK, Request
    <3>2. CASE Newer(q.report)
      BY <1>1, <2>2, <3>1, <3>2 DEF Ingest, Newer, LiveOf, Replace, TypeOK
    <3>3. CASE ~Newer(q.report)
      BY <2>1, <2>2, <3>3 DEF Ingest
    <3> QED
      BY <3>2, <3>3
  <2>3. CASE Boot
    BY <1>1, <2>3 DEF Boot, TypeOK
  <2>4. ASSUME NEW g \in Groups, Evict(g) PROVE Forward
    BY <2>1, <2>4 DEF Evict
  <2>5. CASE Crash
    BY <2>5 DEF Crash
  <2>6. CASE UNCHANGED live
    BY <2>1, <2>6
  <2> HIDE DEF Forward
  <2> QED
    BY <1>1, <2>2, <2>3, <2>4, <2>5, <2>6
    DEF Next, Submit, Accept, Record, Notify, NotifyEvicted, Prune, PruneByAgent,
        DeleteOrphans, DeleteReadings, OrphanAgentReadings, Tick, memory, vars
<1> QED
  BY <1>1, StoreTypeOK, PTL DEF Spec, TileNeverRegresses

-----------------------------------------------------------------------------
\* What a request carries was checked against the clock when it came in.
RequestsBounded == \A q \in requests : q.report.at <= now + MaxSkew

LEMMA NextBounded ==
  ASSUME TypeOK, LockoutBounded, RequestsBounded, [Next]_vars
  PROVE  LockoutBounded' /\ RequestsBounded'
<1>1. ASSUME live' \cup readings' \subseteq live \cup readings,
             requests' \subseteq requests, now' = now
      PROVE  LockoutBounded' /\ RequestsBounded'
  BY <1>1 DEF LockoutBounded, RequestsBounded
<1>2. ASSUME NEW id \in RequestIds, NEW a \in Agents, NEW report \in Reports,
             Accept(id, a, report)
      PROVE  LockoutBounded' /\ RequestsBounded'
  BY <1>2 DEF Accept, Acceptable, memory, LockoutBounded, RequestsBounded
<1>3. ASSUME NEW q \in requests, Ingest(q)
      PROVE  LockoutBounded' /\ RequestsBounded'
  <2>1. /\ TileOf(q.report).at = q.report.at
        /\ At(q, "stored").report = q.report
        /\ q.report.at <= now + MaxSkew
    BY AtFields, TileFields DEF TypeOK, Request, Steps, RequestsBounded
  <2> QED
    BY <1>3, <2>1 DEF Ingest, Replace, Advance, Answer, LockoutBounded, RequestsBounded
<1>4. ASSUME NEW q \in requests, Record(q)
      PROVE  LockoutBounded' /\ RequestsBounded'
  <2>1. /\ RowOf(q).at = q.report.at
        /\ At(q, "recorded").report = q.report
        /\ q.report.at <= now + MaxSkew
    BY AtFields, RowFields DEF TypeOK, Steps, RequestsBounded
  <2> QED
    BY <1>4, <2>1 DEF Record, memory, Advance, LockoutBounded, RequestsBounded
<1>5. ASSUME NEW a \in Agents, OrphanAgentReadings(a)
      PROVE  LockoutBounded' /\ RequestsBounded'
  <2> DEFINE f(x) == IF x.agent = a THEN [x EXCEPT !.agent = NoAgent] ELSE x
  <2>1. readings' = {f(x) : x \in readings}
    BY <1>5 DEF OrphanAgentReadings
  <2>2. \A x \in readings : f(x).at = x.at
    BY OrphanFields DEF TypeOK
  <2> HIDE DEF f
  <2> QED
    BY <1>5, <2>1, <2>2
    DEF OrphanAgentReadings, memory, LockoutBounded, RequestsBounded
<1>6. CASE Boot
  <2>1. ASSUME NEW S \in SUBSET readings, Hydrate(S)
        PROVE  \A t \in live' : \E r \in readings : t.at = r.at
    BY <2>1, TileFields DEF Hydrate, TypeOK
  <2> QED
    BY <1>1, <1>6, <2>1 DEF Boot, memory, LockoutBounded, RequestsBounded
<1>7. CASE Tick
  <2>1. /\ \A x \in live \cup readings : x.at \in Nat
        /\ \A q \in requests : q.report.at \in Nat
    BY DEF TypeOK, Tile, Row, Request, Report
  <2> QED
    BY <1>7, <2>1, StoreAssumptions
    DEF Tick, memory, TypeOK, LockoutBounded, RequestsBounded
<1>8. ASSUME NEW q \in requests, Notify(q)
      PROVE  LockoutBounded' /\ RequestsBounded'
  BY <1>1, <1>8 DEF Notify, Answer, memory
<1> QED
  BY <1>1, <1>2, <1>3, <1>4, <1>5, <1>6, <1>7, <1>8
  DEF Next, Submit, Evict, NotifyEvicted, Prune, PruneByAgent, DeleteOrphans,
      DeleteReadings, Crash, memory, vars

\* No tile and no row is ever dated more than the allowed skew ahead of the clock,
\* so an agent whose clock runs fast keeps honest readings out for that long only,
\* also across evictions and restarts.
THEOREM StoreLockoutBounded == Spec => []LockoutBounded
<1>1. Init => LockoutBounded /\ RequestsBounded
  BY DEF Init, LockoutBounded, RequestsBounded
<1>2. TypeOK /\ (LockoutBounded /\ RequestsBounded) /\ [Next]_vars
        => (LockoutBounded /\ RequestsBounded)'
  BY NextBounded
<1> QED
  BY <1>1, <1>2, StoreTypeOK, PTL DEF Spec

-----------------------------------------------------------------------------
LEMMA PromiseInit == Init => Promise!Init
  BY DEF Init, Promise!Init, Owed, Pending

\* Every step of the store is a step of its promise or changes nothing it speaks of.
LEMMA PromiseNext ==
  ASSUME TypeOK, TypeOK', [Next]_vars
  PROVE  [Promise!Next]_(Promise!vars)
<1> DEFINE History == {TileOf(r) : r \in readings}
<1>0. ASSUME UNCHANGED <<hub, live, readings>>, Pending' = Pending
      PROVE  UNCHANGED Promise!vars
  BY <1>0 DEF Promise!vars, Owed
<1>1. ASSUME NEW id \in RequestIds, NEW a \in Agents, NEW report \in Reports,
             Accept(id, a, report)
      PROVE  UNCHANGED Promise!vars
  <2>1. Pending' = Pending
    BY <1>1 DEF Accept, Pending
  <2> QED
    BY <1>0, <1>1, <2>1 DEF Accept, memory
<1>2. ASSUME NEW q \in requests, Ingest(q) PROVE [Promise!Next]_(Promise!vars)
  <2> DEFINE t == TileOf(q.report)
             p == At(q, "stored")
  <2>1. /\ p.step = "stored" /\ p.report = q.report
        /\ t.group = q.report.group /\ t.at = q.report.at
        /\ hub = "up"
    BY AtFields, TileFields DEF TypeOK, Request, Steps
  <2>2. CASE ~Newer(q.report)
    <3>1. Pending' = Pending
      BY <1>2, <2>2 DEF Ingest, Answer, Pending
    <3> QED
      BY <1>0, <1>2, <2>2, <3>1 DEF Ingest
  <2>3. CASE Newer(q.report)
    <3>1. Pending' = Pending \cup {p}
      BY <1>2, <2>1, <2>3 DEF Ingest, Advance, Pending
    <3>2. Owed' = Owed \cup {t}
      BY <2>1, <3>1 DEF Owed
    <3>3. live' = Replace(live, t) /\ UNCHANGED <<hub, readings>> /\ t \in live'
      BY <1>2, <2>3 DEF Ingest, Replace
    <3>4. Promise!Accept(t)
      BY <2>1, <2>3, <3>2, <3>3
      DEF Promise!Accept, Promise!NewerThan, Promise!Replace, Replace, Newer, LiveOf
    <3> QED
      BY <3>3, <3>4 DEF Promise!Next
  <2> QED
    BY <2>2, <2>3
<1>3. ASSUME NEW q \in requests, Record(q) PROVE [Promise!Next]_(Promise!vars)
  <2> DEFINE t == TileOf(q.report)
  <2>1. /\ q \in Pending
        /\ At(q, "recorded").step = "recorded"
        /\ TileOf(RowOf(q)) = t
    BY <1>3, AtFields, RowFields DEF TypeOK, Steps, Record, Pending
  <2>2. Pending' = Pending \ {q} /\ UNCHANGED <<hub, live>>
    BY <1>3, <2>1 DEF Record, Advance, Pending, memory
  <2>3. t \in Owed /\ Owed' \in {Owed, Owed \ {t}}
    BY <2>1, <2>2 DEF Owed
  <2>4. History' \in {History, History \cup {t}}
    BY <1>3, <2>1 DEF Record
  <2>5. Promise!Settle(t)
    BY <2>2, <2>3, <2>4 DEF Promise!Settle
  <2> QED
    BY <2>3, <2>5 DEF Promise!Next
<1>4. ASSUME NEW q \in requests, Notify(q) PROVE UNCHANGED Promise!vars
  <2>1. Pending' = Pending
    BY <1>4 DEF Notify, Answer, Pending
  <2> QED
    BY <1>0, <1>4, <2>1 DEF Notify, memory
<1>5. ASSUME NEW g \in Groups, Evict(g) PROVE [Promise!Next]_(Promise!vars)
  <2>1. Promise!Drop(g)
    BY <1>5 DEF Evict, LiveOf, Promise!Drop, Owed, Pending
  <2> QED
    BY <2>1 DEF Promise!Next
<1>6. ASSUME NEW g \in Groups, NotifyEvicted(g) PROVE UNCHANGED Promise!vars
  BY <1>0, <1>6 DEF NotifyEvicted, memory, Pending
<1>7. ASSUME NEW S \in SUBSET readings, DeleteReadings(S)
      PROVE  [Promise!Next]_(Promise!vars)
  <2>1. Promise!Erase
    BY <1>7 DEF DeleteReadings, memory, Promise!Erase, Owed, Pending
  <2> QED
    BY <2>1 DEF Promise!Next
<1>8. ASSUME NEW a \in Agents, OrphanAgentReadings(a) PROVE UNCHANGED Promise!vars
  <2> DEFINE f(x) == IF x.agent = a THEN [x EXCEPT !.agent = NoAgent] ELSE x
  <2>1. readings' = {f(x) : x \in readings}
    BY <1>8 DEF OrphanAgentReadings
  <2>2. \A x \in readings : TileOf(f(x)) = TileOf(x)
    BY OrphanFields DEF TypeOK
  <2> HIDE DEF f
  <2>3. History' = History
    BY <2>1, <2>2
  <2> QED
    BY <1>8, <2>3 DEF OrphanAgentReadings, memory, Promise!vars, Owed, Pending
<1>9. CASE Crash
  <2>1. Promise!Stop
    BY <1>9 DEF Crash, Promise!Stop, Owed, Pending
  <2> QED
    BY <2>1 DEF Promise!Next
<1>10. CASE Boot
  <2>1. ASSUME NEW S \in SUBSET readings, LatestPerGroup(S), Hydrate(S)
        PROVE  Promise!ShowsNewest(live', History)
    <3>1. \A r \in readings : TileOf(r).group = r.group /\ TileOf(r).at = r.at
      BY TileFields DEF TypeOK
    <3> QED
      BY <2>1, <3>1 DEF Hydrate, LatestPerGroup, Promise!ShowsNewest
  <2>2. live' = {} \/ Promise!ShowsNewest(live', History)
    BY <1>10, <2>1 DEF Boot, memory, TypeOK
  <2>3. Promise!Start
    BY <1>10, <2>2 DEF Boot, Promise!Start, Owed, Pending
  <2> QED
    BY <2>3 DEF Promise!Next
<1>11. CASE Tick
  BY <1>0, <1>11 DEF Tick, memory, Pending
<1>12. CASE UNCHANGED vars
  BY <1>0, <1>12 DEF vars, Pending
<1> QED
  BY <1>1, <1>2, <1>3, <1>4, <1>5, <1>6, <1>7, <1>8, <1>9, <1>10, <1>11, <1>12
  DEF Next, Submit, Prune, PruneByAgent, DeleteOrphans

\* The handlers, deletions, crashes and boots of the store implement LatestTile:
\* tiles only move forward, what replaced a tile is recorded or lost whole, and a
\* boot shows the newest of the history or nothing.
THEOREM StoreKeepsPromise == Spec => KeepsPromise
  BY PromiseInit, PromiseNext, StoreTypeOK, PTL DEF Spec, KeepsPromise, Promise!Spec

-----------------------------------------------------------------------------
\* A write to platform p waits for its notification.
WaitingFor(p) ==
  \/ \E q \in requests :
       q.step \in {"stored", "recorded"} /\ PlatformOf[q.report.group] = p
  \/ \E g \in evicting : PlatformOf[g] = p

\* The tiles of platform p in S.
TilesOf(S, p) == {t \in S : PlatformOf[t.group] = p}

\* What the subscribers of platform p were told is what the store shows.
Told(p) == hub = "up" /\ ~WaitingFor(p) => TilesOf(announced, p) = TilesOf(live, p)

LEMMA QuietIsTold == AnnouncedWhenQuiet <=> \A p \in Platforms : Told(p)
  BY DEF AnnouncedWhenQuiet, Told, WaitingFor, TilesOf

\* A notification tells its platform all there is, and no other platform anything.
LEMMA EmitTells ==
  ASSUME NEW p, NEW e, EmitChange(e), UNCHANGED live,
         p # e => TilesOf(announced, p) = TilesOf(live, p)
  PROVE  TilesOf(announced', p) = TilesOf(live', p)
  BY DEF EmitChange, TilesOf

\* A step that changes neither tiles nor notices, and withdraws no write that waits.
LEMMA QuietTold ==
  ASSUME NEW p, Told(p), UNCHANGED <<hub, live, announced>>,
         WaitingFor(p) => WaitingFor(p)'
  PROVE  Told(p)'
  BY DEF Told, TilesOf

\* The steps of a request: the section under the mutex makes its platform wait, the
\* insert keeps it waiting, and the notification tells it.
LEMMA SubmitTold ==
  ASSUME TypeOK, NEW p \in Platforms, Told(p), NEW q \in requests, Submit(q)
  PROVE  Told(p)'
<1>1. q \in Request /\ q.report.group \in Groups
  BY DEF TypeOK, Request, Report
<1>2. CASE Ingest(q)
  <2>1. CASE Newer(q.report)
    <3> DEFINE stored == At(q, "stored")
    <3>1. /\ live' = Replace(live, TileOf(q.report))
          /\ requests' = (requests \ {q}) \cup {stored}
          /\ q.step = "accepted" /\ UNCHANGED <<hub, evicting, announced>>
      BY <1>2, <2>1 DEF Ingest, Advance
    <3>2. stored.step = "stored" /\ stored.report = q.report
      BY <1>1, AtFields DEF Steps
    <3> HIDE DEF stored
    <3>3. CASE PlatformOf[q.report.group] = p
      BY <3>1, <3>2, <3>3 DEF Told, WaitingFor
    <3>4. CASE PlatformOf[q.report.group] # p
      <4>1. TilesOf(live', p) = TilesOf(live, p)
        BY <3>1, <3>4 DEF Replace, TileOf, TilesOf
      <4>2. WaitingFor(p) => WaitingFor(p)'
        BY <3>1 DEF WaitingFor
      <4> QED
        BY <3>1, <4>1, <4>2 DEF Told
    <3> QED
      BY <3>3, <3>4
  <2>2. CASE ~Newer(q.report)
    <3>1. q.step = "accepted" /\ requests' = requests \ {q}
          /\ UNCHANGED <<hub, live, evicting, announced>>
      BY <1>2, <2>2 DEF Ingest, Answer
    <3> QED
      BY <3>1, QuietTold DEF WaitingFor
  <2> QED
    BY <2>1, <2>2
<1>3. CASE Record(q)
  <2> DEFINE recorded == At(q, "recorded")
  <2>1. /\ requests' = (requests \ {q}) \cup {recorded}
        /\ q.step = "stored" /\ UNCHANGED <<hub, live, evicting, announced>>
    BY <1>3 DEF Record, Advance, memory
  <2>2. recorded.step = "recorded" /\ recorded.report = q.report
    BY <1>1, AtFields DEF Steps
  <2> HIDE DEF recorded
  <2> QED
    BY <2>1, <2>2, QuietTold DEF WaitingFor
<1>4. CASE Notify(q)
  <2> DEFINE e == PlatformOf[q.report.group]
  <2>1. /\ requests' = requests \ {q} /\ EmitChange(e)
        /\ UNCHANGED <<hub, live, evicting>>
    BY <1>4 DEF Notify, Answer, memory
  <2>2. p # e /\ WaitingFor(p) => WaitingFor(p)'
    BY <2>1 DEF WaitingFor
  <2> HIDE DEF e
  <2> QED
    BY <2>1, <2>2, EmitTells DEF Told
<1> QED
  BY <1>2, <1>3, <1>4 DEF Submit

LEMMA AnnouncedStep ==
  ASSUME TypeOK, AnnouncedWhenQuiet, [Next]_vars
  PROVE  AnnouncedWhenQuiet'
<1> SUFFICES ASSUME NEW p \in Platforms PROVE Told(p)'
  BY QuietIsTold DEF AnnouncedWhenQuiet, Told, WaitingFor, TilesOf
<1>0. Told(p)
  BY QuietIsTold
<1>1. ASSUME NEW id \in RequestIds, NEW a \in Agents, NEW report \in Reports,
             Accept(id, a, report)
      PROVE  Told(p)'
  BY <1>0, <1>1, QuietTold DEF Accept, memory, WaitingFor
<1>2. ASSUME NEW g \in Groups, Evict(g)
      PROVE  Told(p)'
  <2>1. /\ live' = live \ LiveOf(g) /\ evicting' = evicting \cup {g}
        /\ UNCHANGED <<hub, requests, announced>>
    BY <1>2 DEF Evict
  <2>2. CASE PlatformOf[g] = p
    BY <2>1, <2>2 DEF Told, WaitingFor
  <2>3. CASE PlatformOf[g] # p
    <3>1. TilesOf(live', p) = TilesOf(live, p)
      BY <2>1, <2>3 DEF LiveOf, TilesOf
    <3> QED
      BY <1>0, <2>1, <3>1 DEF Told, WaitingFor
  <2> QED
    BY <2>2, <2>3
<1>3. ASSUME NEW g \in Groups, NotifyEvicted(g)
      PROVE  Told(p)'
  <2>1. /\ EmitChange(PlatformOf[g]) /\ evicting' = evicting \ {g}
        /\ UNCHANGED <<hub, live, requests>>
    BY <1>3 DEF NotifyEvicted, memory
  <2>2. p # PlatformOf[g] /\ WaitingFor(p) => WaitingFor(p)'
    BY <2>1 DEF WaitingFor
  <2> QED
    BY <1>0, <2>1, <2>2, EmitTells DEF Told
<1>4. CASE Prune \/ DeleteOrphans \/ Tick \/ UNCHANGED vars
           \/ \E a \in Agents : PruneByAgent(a) \/ OrphanAgentReadings(a)
  <2>1. UNCHANGED <<hub, live, requests, evicting, announced>>
    BY <1>4 DEF Prune, DeleteOrphans, PruneByAgent, DeleteReadings,
                OrphanAgentReadings, Tick, memory, vars
  <2> QED
    BY <1>0, <2>1, QuietTold DEF WaitingFor
<1>5. CASE Crash
  BY <1>5 DEF Crash, Told
<1>6. CASE Boot
  BY <1>6 DEF Boot, Told
<1> QED
  BY <1>0, <1>1, <1>2, <1>3, <1>4, <1>5, <1>6, SubmitTold DEF Next

\* No change is left unannounced: subscribers have been told of what the store shows
\* once no write to their platform waits, in whatever order concurrent reports and
\* evictions change and announce.
THEOREM StoreAnnouncedWhenQuiet == Spec => []AnnouncedWhenQuiet
<1>1. Init => AnnouncedWhenQuiet
  BY DEF Init, AnnouncedWhenQuiet
<1>2. TypeOK /\ AnnouncedWhenQuiet /\ [Next]_vars => AnnouncedWhenQuiet'
  BY AnnouncedStep
<1> QED
  BY <1>1, <1>2, StoreTypeOK, PTL DEF Spec

-----------------------------------------------------------------------------
(* ReportLimiter, which stands in front of the store. *)

\* What was granted is remembered, by its key's entry or a later one, or is so old
\* that it may be forgotten: a request that finds no entry is not early.
GrantsRemembered ==
  \A g \in granted :
    \/ \E e \in lastReport : e.key = g.key /\ g.at <= e.at
    \/ clock - g.at > LastReportTTL

\* What is remembered was granted: nobody is refused for what never happened.
EntriesGranted == lastReport \subseteq granted

LimiterIInv == LimiterIsTyped /\ GrantsRemembered /\ EntriesGranted

LEMMA LimiterInitInv == LimiterInit => LimiterIInv
  BY LimiterAssumptions DEF LimiterInit, LimiterIInv, LimiterIsTyped, GrantsRemembered, EntriesGranted

LEMMA AllowInv ==
  ASSUME LimiterIInv, NEW q \in pending, Allow(q)
  PROVE  LimiterIInv'
<1> DEFINE f == EntryOf(q)
<1>1. /\ q \in PendingRequest /\ q.at \in Nat /\ q.at <= clock /\ q.gap \in Nat
      /\ f \in Entry /\ f.key = q.key /\ f.at = q.at
      /\ clock \in Nat /\ LastReportTTL \in Nat
  BY LimiterAssumptions DEF LimiterIInv, LimiterIsTyped, PendingRequest, Entry, EntryOf
<1>2. /\ lastReport' = {e \in Forget(q) : e.key # q.key} \cup {f}
      /\ granted' = granted \cup {f}
      /\ pending' = pending \ {q}
      /\ clock' = clock
  BY DEF Allow
<1>3. Forget(q) \subseteq lastReport
  BY DEF Forget
<1>4. LimiterIsTyped'
  BY <1>1, <1>2, <1>3 DEF LimiterIInv, LimiterIsTyped
<1>5. GrantsRemembered'
  <2> SUFFICES ASSUME NEW g \in granted
               PROVE  \/ \E e \in lastReport' : e.key = g.key /\ g.at <= e.at
                      \/ clock - g.at > LastReportTTL
    BY <1>1, <1>2 DEF GrantsRemembered
  <2>1. g.at \in Nat
    BY DEF LimiterIInv, LimiterIsTyped, Entry
  <2>2. ASSUME NEW e \in lastReport, e.key = g.key, g.at <= e.at, e.key = q.key
        PROVE  g.at <= q.at
    <3>1. ~(q.at - e.at < q.gap)
      BY <2>2 DEF Allow, TooSoon
    <3> QED
      BY <1>1, <2>1, <2>2, <3>1 DEF LimiterIInv, LimiterIsTyped, Entry
  <2>3. ASSUME NEW e \in lastReport, g.at <= e.at, e \notin Forget(q)
        PROVE  clock - g.at > LastReportTTL
    <3>1. ~(q.at - e.at <= LastReportTTL)
      BY <2>3 DEF Forget
    <3> QED
      BY <1>1, <2>1, <2>3, <3>1 DEF LimiterIInv, LimiterIsTyped, Entry
  <2> QED
    BY <1>1, <1>2, <2>2, <2>3 DEF LimiterIInv, GrantsRemembered
<1>6. EntriesGranted'
  BY <1>2, <1>3 DEF LimiterIInv, EntriesGranted
<1> QED
  BY <1>4, <1>5, <1>6 DEF LimiterIInv

LEMMA LimiterNextInv == LimiterIInv /\ [LimiterNext]_limiterVars => LimiterIInv'
<1> SUFFICES ASSUME LimiterIInv, [LimiterNext]_limiterVars PROVE LimiterIInv'
  OBVIOUS
<1>1. ASSUME NEW id \in PendingIds, NEW key \in Keys, NEW gap \in Gaps,
             Arrive(id, key, gap)
      PROVE  LimiterIInv'
  BY <1>1 DEF Arrive, LimiterIInv, LimiterIsTyped, PendingRequest, GrantsRemembered, EntriesGranted
<1>2. ASSUME NEW q \in pending, Refuse(q) PROVE LimiterIInv'
  BY <1>2 DEF Refuse, LimiterIInv, LimiterIsTyped, GrantsRemembered, EntriesGranted
<1>3. CASE Restart
  BY <1>3 DEF Restart, LimiterIInv, LimiterIsTyped, GrantsRemembered, EntriesGranted
<1>4. CASE ClockTicks
  <2>1. LimiterIsTyped'
    BY <1>4 DEF ClockTicks, LimiterIInv, LimiterIsTyped, Entry, PendingRequest
  <2>2. GrantsRemembered'
    BY <1>4, LimiterAssumptions DEF ClockTicks, LimiterIInv, LimiterIsTyped, Entry, GrantsRemembered
  <2> QED
    BY <1>4, <2>1, <2>2 DEF ClockTicks, LimiterIInv, EntriesGranted
<1>5. CASE UNCHANGED limiterVars
  BY <1>5 DEF limiterVars, LimiterIInv, LimiterIsTyped, GrantsRemembered, EntriesGranted
<1> QED
  BY <1>1, <1>2, <1>3, <1>4, <1>5, AllowInv DEF LimiterNext

LEMMA LimiterInv == LimiterSpec => []LimiterIInv
  BY LimiterInitInv, LimiterNextInv, PTL DEF LimiterSpec

-----------------------------------------------------------------------------
\* The type invariant of the limiter: a key has one entry, none in the future.
THEOREM LimiterTypeOK == LimiterSpec => []LimiterIsTyped
<1>1. LimiterIInv => LimiterIsTyped
  BY DEF LimiterIInv
<1> QED
  BY <1>1, LimiterInv, PTL

\* Reports let through for a key are spaced as assigned, whatever the order in
\* which their requests reached the mutex and whatever was forgotten in between.
THEOREM LimiterSpaces == LimiterSpec => ReportsSpaced
<1> DEFINE Spaced == \A q \in pending, e \in granted :
                       Allow(q) /\ e.key = q.key =>
                         q.at - e.at >= q.gap \/ clock - e.at > LastReportTTL
<1>1. LimiterIInv => Spaced
  <2> SUFFICES ASSUME LimiterIInv, NEW q \in pending, NEW e \in granted,
                      Allow(q), e.key = q.key, ~(clock - e.at > LastReportTTL)
               PROVE  q.at - e.at >= q.gap
    OBVIOUS
  <2>1. PICK f \in lastReport : f.key = e.key /\ e.at <= f.at
    BY DEF LimiterIInv, GrantsRemembered
  <2>2. ~(q.at - f.at < q.gap)
    BY <2>1 DEF Allow, TooSoon
  <2>3. q.at \in Nat /\ q.gap \in Nat /\ e.at \in Nat /\ f.at \in Nat
    BY LimiterAssumptions DEF LimiterIInv, LimiterIsTyped, Entry, PendingRequest
  <2> HIDE DEF Spaced
  <2> QED
    BY <2>1, <2>2, <2>3
<1> QED
  BY <1>1, LimiterInv, PTL DEF ReportsSpaced

\* An agent is refused only for a report let through for its own key less than the
\* assigned gap before: keeping the schedule is enough to be heard.
THEOREM LimiterRefusesEarly == LimiterSpec => RefusedOnlyIfEarly
<1> DEFINE Early == \A q \in pending :
                      Refuse(q) => \E e \in granted : e.key = q.key /\ q.at - e.at < q.gap
<1>1. LimiterIInv => Early
  BY DEF LimiterIInv, EntriesGranted, Refuse, TooSoon
<1> QED
  BY <1>1, LimiterInv, PTL DEF RefusedOnlyIfEarly

=============================================================================
