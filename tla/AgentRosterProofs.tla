------------------------- MODULE AgentRosterProofs -------------------------
(***************************************************************************)
(* Proofs about AgentRoster, for every manifest, import file and patch,    *)
(* and any number of admin requests in flight.                             *)
(***************************************************************************)
EXTENDS AgentRoster, TLAPS

\* The part of TypeOK that says what kind of value each variable holds.
Shapes ==
  /\ hub \in {"down", "provisioning", "up"}
  /\ agents \subseteq Row
  /\ lastId \in Nat
  /\ registry \subseteq Row
  /\ requests \subseteq Request
  /\ manifest \in Seq(Provisioned)
  /\ writes \in Nat
  /\ reflects \in Nat
  /\ hub # "up" => requests = {}
  /\ \A r \in requests :
       /\ r.step \in {"update", "write", "enable", "move"} => r.patch \in Patch
       /\ r.step = "enable" => r.patch.enabled # None
       /\ r.step \in {"find", "upsert"} => r.entries # <<>>

\* Versions only grow: nothing was loaded or written after the table's version.
VersionsKnown ==
  /\ reflects <= writes
  /\ \A r \in requests : r.loaded <= writes /\ r.wrote <= writes

\* A handler about to exchange the pointer holds rows read after its last write, and
\* they are the table's if nobody wrote since.
LoadedAfterWrite ==
  \A r \in requests : r.step = "swap" =>
    /\ r.wrote <= r.loaded
    /\ r.loaded = writes => r.rows = Enabled(agents)

\* The same of the registry itself.
RegistryAsLoaded ==
  hub = "up" /\ reflects = writes => registry = Enabled(agents)

\* Whoever wrote last is still to reload, unless its rows are in the registry.
LastWriterPending ==
  hub = "up" /\ excuses = {} /\ reflects < writes =>
    \E r \in requests : r.wrote = writes

IInv ==
  /\ Shapes
  /\ VersionsKnown
  /\ LoadedAfterWrite
  /\ RegistryAsLoaded
  /\ LastWriterPending

-----------------------------------------------------------------------------
LEMMA InsertRow ==
  ASSUME Shapes, NEW entry \in Entry, Insert(entry)
  PROVE  agents' \subseteq Row /\ lastId' \in Nat /\ writes' = writes + 1
  BY DEF Shapes, Insert, Table, Row, Entry


LEMMA FindRow ==
  ASSUME Shapes, NEW n
  PROVE  Find(n) \in Row \cup {None}
  BY DEF Shapes, Find, RowsWith

-----------------------------------------------------------------------------
\* A request arrives that has written nothing yet.
LEMMA ArriveInv ==
  ASSUME IInv, NEW q \in Request, Arrive(q), q.wrote = 0, q.loaded = 0,
         q.step # "swap",
         q.step \in {"update", "write", "enable", "move"} => q.patch \in Patch,
         q.step # "enable",
         q.step \in {"find", "upsert"} => q.entries # <<>>
  PROVE  IInv'
<1>1. /\ requests' = requests \cup {q}
      /\ hub = "up"
      /\ UNCHANGED <<hub, manifest, agents, lastId, registry, writes, reflects, excuses>>
  BY DEF Arrive, process
<1>2. Shapes'
  BY <1>1 DEF IInv, Shapes
<1>3. VersionsKnown' /\ LoadedAfterWrite' /\ RegistryAsLoaded' /\ LastWriterPending'
  BY <1>1 DEF IInv, Shapes, VersionsKnown, LoadedAfterWrite, RegistryAsLoaded,
              LastWriterPending
<1> QED
  BY <1>2, <1>3 DEF IInv

\* A handler moves on without touching the table.
LEMMA QuietInv ==
  ASSUME IInv, NEW r \in requests, NEW q \in Request, Become(r, q),
         UNCHANGED <<agents, lastId, writes>>,
         q.wrote = r.wrote, q.loaded = r.loaded, q.step # "swap",
         q.step \in {"update", "write", "enable", "move"} => q.patch \in Patch,
         q.step = "enable" => q.patch.enabled # None,
         q.step \in {"find", "upsert"} => q.entries # <<>>
  PROVE  IInv'
<1>1. /\ requests' = (requests \ {r}) \cup {q}
      /\ UNCHANGED <<hub, manifest, agents, lastId, registry, writes, reflects, excuses>>
  BY DEF Become, process
<1>2. Shapes'
  BY <1>1 DEF IInv, Shapes
<1>3. VersionsKnown' /\ LoadedAfterWrite' /\ RegistryAsLoaded' /\ LastWriterPending'
  BY <1>1 DEF IInv, Shapes, VersionsKnown, LoadedAfterWrite, RegistryAsLoaded,
              LastWriterPending
<1> QED
  BY <1>2, <1>3 DEF IInv

\* A handler changes the table: from now on it is the last writer.
LEMMA WriteInv ==
  ASSUME IInv, hub = "up", NEW q \in Request,
         requests' \subseteq requests \cup {q}, q \in requests',
         UNCHANGED <<hub, manifest, registry, reflects, excuses>>,
         agents' \subseteq Row, lastId' \in Nat, writes' = writes + 1,
         q.wrote = writes + 1, q.loaded <= writes, q.step # "swap",
         q.step \in {"update", "write", "enable", "move"} => q.patch \in Patch,
         q.step = "enable" => q.patch.enabled # None,
         q.step \in {"find", "upsert"} => q.entries # <<>>
  PROVE  IInv'
<1>1. \A p \in requests : p.loaded \in Nat /\ p.wrote \in Nat
  BY DEF IInv, Shapes, Request
<1>2. q.loaded \in Nat /\ writes \in Nat /\ reflects \in Nat /\ reflects <= writes
  BY DEF IInv, Shapes, VersionsKnown, Request
<1>3. Shapes'
  BY <1>2 DEF IInv, Shapes
<1>4. VersionsKnown'
  BY <1>1, <1>2 DEF IInv, VersionsKnown
<1>5. LoadedAfterWrite'
  BY <1>1, <1>2 DEF IInv, VersionsKnown, LoadedAfterWrite
<1>6. RegistryAsLoaded' /\ LastWriterPending'
  BY <1>2 DEF RegistryAsLoaded, LastWriterPending
<1> QED
  BY <1>3, <1>4, <1>5, <1>6 DEF IInv

LEMMA AbandonInv ==
  ASSUME IInv, NEW r \in requests, NEW excuse, Abandon(r, excuse)
  PROVE  IInv'
<1>1. /\ requests' = requests \ {r}
      /\ excuses' = IF r.wrote > 0 THEN excuses \cup {excuse} ELSE excuses
      /\ UNCHANGED <<hub, manifest, agents, lastId, registry, writes, reflects>>
  BY DEF Abandon, process
<1>2. r.wrote \in Nat /\ writes \in Nat /\ reflects \in Nat
  BY DEF IInv, Shapes, Request
<1>3. Shapes' /\ VersionsKnown' /\ LoadedAfterWrite' /\ RegistryAsLoaded'
  BY <1>1 DEF IInv, Shapes, VersionsKnown, LoadedAfterWrite, RegistryAsLoaded
<1>4. LastWriterPending'
  <2>1. CASE r.wrote > 0
    BY <1>1, <2>1 DEF LastWriterPending
  <2>2. CASE r.wrote = 0
    BY <1>1, <1>2, <2>2 DEF IInv, LastWriterPending
  <2> QED
    BY <1>2, <2>1, <2>2
<1> QED
  BY <1>3, <1>4 DEF IInv

LEMMA SwapInv ==
  ASSUME IInv, NEW r \in requests, Swap(r)
  PROVE  IInv'
<1>1. /\ requests' = requests \ {r}
      /\ registry' = r.rows
      /\ reflects' = r.loaded
      /\ excuses' = IF r.loaded < reflects THEN excuses \cup {"overtaken"} ELSE excuses
      /\ UNCHANGED <<hub, manifest, agents, lastId, writes>>
      /\ r.step = "swap"
  BY DEF Swap, process
<1>2. /\ r.wrote \in Nat /\ r.loaded \in Nat /\ writes \in Nat /\ reflects \in Nat
      /\ r.rows \subseteq Row
      /\ r.loaded <= writes /\ r.wrote <= r.loaded /\ r.wrote <= writes
      /\ r.loaded = writes => r.rows = Enabled(agents)
  BY <1>1 DEF IInv, Shapes, Request, VersionsKnown, LoadedAfterWrite
<1>3. Shapes' /\ VersionsKnown' /\ LoadedAfterWrite'
  BY <1>1, <1>2 DEF IInv, Shapes, VersionsKnown, LoadedAfterWrite
<1>4. RegistryAsLoaded'
  BY <1>1, <1>2 DEF RegistryAsLoaded
<1>5. LastWriterPending'
  <2> SUFFICES ASSUME hub = "up", excuses' = {}, r.loaded < writes
               PROVE  \E q \in requests' : q.wrote = writes
    BY <1>1 DEF LastWriterPending
  <2>1. ~(r.loaded < reflects) /\ excuses = {}
    BY <1>1
  <2>2. r.wrote # writes /\ reflects < writes
    BY <1>2, <2>1
  <2> QED
    BY <1>1, <2>1, <2>2 DEF IInv, LastWriterPending
<1> QED
  BY <1>3, <1>4, <1>5 DEF IInv

LEMMA LoadInv ==
  ASSUME IInv, NEW r \in requests, Load(r)
  PROVE  IInv'
<1> DEFINE q == [r EXCEPT !.step = "swap", !.rows = Enabled(agents), !.loaded = writes]
<1>0. Enabled(agents) \in SUBSET Row /\ r \in Request /\ writes \in Nat
  BY DEF IInv, Shapes, Enabled
<1>1. /\ q \in Request /\ q.step = "swap" /\ q.wrote = r.wrote
      /\ q.loaded = writes /\ q.rows = Enabled(agents)
  BY <1>0 DEF Request, Steps
<1>2. /\ requests' = (requests \ {r}) \cup {q}
      /\ UNCHANGED <<hub, manifest, agents, lastId, registry, writes, reflects, excuses>>
  BY DEF Load, Become, process
<1> HIDE DEF q
<1>3. r.wrote <= writes /\ writes \in Nat
  BY DEF IInv, Shapes, VersionsKnown
<1>4. Shapes'
  BY <1>1, <1>2 DEF IInv, Shapes
<1>5. VersionsKnown' /\ LoadedAfterWrite' /\ RegistryAsLoaded' /\ LastWriterPending'
  BY <1>1, <1>2, <1>3 DEF IInv, VersionsKnown, LoadedAfterWrite, RegistryAsLoaded,
                          LastWriterPending
<1> QED
  BY <1>4, <1>5 DEF IInv


-----------------------------------------------------------------------------
\* What every step of a handler may take for granted.
LEMMA InFlight ==
  ASSUME IInv, NEW r \in requests
  PROVE  /\ r \in Request /\ hub = "up"
         /\ agents \subseteq Row /\ writes \in Nat /\ lastId \in Nat
         /\ r.loaded \in Nat /\ r.loaded <= writes
         /\ r.read \in Row \cup {None} /\ r.entries \in Seq(Entry)
         /\ r.step \in {"update", "write", "enable", "move"} => r.patch \in Patch
         /\ r.step = "enable" => r.patch.enabled # None
         /\ r.step \in {"find", "upsert"} => r.entries # <<>>
  BY DEF IInv, Shapes, VersionsKnown, Request

\* A statement of handler r that rewrites rows, and the step it goes on to.
LEMMA StatementInv ==
  ASSUME IInv, NEW r \in requests, NEW step \in Steps, NEW new \in SUBSET Row,
         Table(new), Wrote(r, step), UNCHANGED lastId,
         step \notin {"swap", "find", "upsert"},
         step \in {"update", "write", "enable", "move"} => r.patch \in Patch,
         step = "enable" => r.patch.enabled # None
  PROVE  IInv'
<1> DEFINE q == [r EXCEPT !.step = step, !.wrote = writes + 1]
<1>1. writes + 1 \in Nat /\ r \in Request
  BY InFlight
<1>2. /\ q \in Request /\ q.step = step /\ q.wrote = writes + 1
      /\ q.loaded = r.loaded /\ q.patch = r.patch
  BY <1>1 DEF Request
<1>3. /\ requests' = (requests \ {r}) \cup {q}
      /\ UNCHANGED <<hub, manifest, registry, reflects, excuses>>
      /\ agents' \subseteq Row /\ lastId' \in Nat /\ writes' = writes + 1
  BY InFlight DEF Wrote, Become, process, Table
<1> HIDE DEF q
<1> QED
  BY <1>2, <1>3, InFlight, WriteInv

\* A handler goes on to another step without a statement that changes the table.
LEMMA GotoInv ==
  ASSUME IInv, NEW r \in requests, NEW step \in Steps, Goto(r, step),
         UNCHANGED <<agents, lastId, writes>>,
         step \notin {"swap", "find", "upsert"},
         step \in {"update", "write", "enable", "move"} => r.patch \in Patch,
         step = "enable" => r.patch.enabled # None
  PROVE  IInv'
<1> DEFINE q == [r EXCEPT !.step = step]
<1>1. /\ q \in Request /\ q.step = step /\ q.wrote = r.wrote
      /\ q.loaded = r.loaded /\ q.patch = r.patch
  BY InFlight DEF Request
<1>2. Become(r, q)
  BY DEF Goto
<1> HIDE DEF q
<1> QED
  BY <1>1, <1>2, QuietInv

LEMMA UpdateInv ==
  ASSUME IInv, NEW r \in requests, UpdateRead(r) \/ UpdateWrite(r)
  PROVE  IInv'
<1>1. CASE UpdateRead(r)
  <2> DEFINE q == [r EXCEPT !.step = "write", !.read = Find(r.cur.id)]
  <2>1. Find(r.cur.id) \in Row \cup {None} /\ r \in Request /\ "write" \in Steps
    BY FindRow, InFlight DEF IInv, Steps
  <2>2. /\ q \in Request /\ q.step = "write" /\ q.wrote = r.wrote
        /\ q.loaded = r.loaded /\ q.patch = r.patch
    BY <2>1 DEF Request
  <2>3. Become(r, q) /\ r.step = "update" /\ UNCHANGED <<agents, lastId, writes>>
    BY <1>1 DEF UpdateRead
  <2> HIDE DEF q
  <2> QED
    BY <2>2, <2>3, InFlight, QuietInv
<1>2. CASE UpdateWrite(r)
  <2>1. /\ r.step = "write" /\ r.patch \in Patch
        /\ AfterWrite(r) \in {"enable", "move"} /\ AfterWrite(r) \in Steps
        /\ AfterWrite(r) = "enable" => r.patch.enabled # None
    BY <1>2, InFlight DEF UpdateWrite, AfterWrite, Steps
  <2>2. CASE r.read = None
    BY <1>2, <2>1, <2>2, GotoInv DEF UpdateWrite
  <2>3. CASE r.read # None
    <3> DEFINE c == Or(r.patch.cadence, r.read.cadence)
               p == Or(r.patch.platform, r.read.platform)
               new == {IF a.id = r.cur.id
                         THEN [a EXCEPT !.cadence = c, !.platform = p]
                         ELSE a : a \in agents}
    <3>1. c \in Cadences /\ p \in Platforms
      BY <2>1, <2>3, InFlight DEF Or, Patch, Row
    <3>2. new \in SUBSET Row
      <4> HIDE DEF c, p
      <4>1. \A a \in agents : [a EXCEPT !.cadence = c, !.platform = p] \in Row
        BY <3>1, InFlight DEF Row
      <4> QED
        BY <4>1, InFlight
    <3>3. Table(new) /\ Wrote(r, AfterWrite(r)) /\ UNCHANGED lastId
      BY <1>2, <2>3 DEF UpdateWrite
    <3> HIDE DEF new
    <3> QED
      BY <2>1, <3>2, <3>3, StatementInv
  <2> QED
    BY <2>2, <2>3
<1> QED
  BY <1>1, <1>2

LEMMA SetEnabledInv ==
  ASSUME IInv, NEW r \in requests, SetEnabled(r)
  PROVE  IInv'
<1> DEFINE e == r.patch.enabled
           new == {IF a.id = r.cur.id THEN [a EXCEPT !.enabled = e] ELSE a
                     : a \in agents}
<1>1. r.patch \in Patch /\ e \in Switch
  BY InFlight DEF SetEnabled, Patch
<1>2. new \in SUBSET Row
  <2> HIDE DEF e
  <2>1. \A a \in agents : [a EXCEPT !.enabled = e] \in Row
    BY <1>1, InFlight DEF Row
  <2> QED
    BY <2>1, InFlight
<1>3. Table(new) /\ Wrote(r, "move") /\ UNCHANGED lastId
  BY DEF SetEnabled
<1> HIDE DEF new
<1> QED
  BY <1>1, <1>2, <1>3, StatementInv DEF Steps

LEMMA ChangeRegionInv ==
  ASSUME IInv, NEW r \in requests, ChangeRegion(r)
  PROVE  IInv'
<1>1. r.patch \in Patch
  BY InFlight DEF ChangeRegion
<1>2. CASE r.patch.region \in {None, r.cur.region}
  BY <1>2, GotoInv DEF ChangeRegion, Steps
<1>3. CASE r.patch.region \notin {None, r.cur.region}
  <2> DEFINE g == r.patch.region
             new == {IF a.id = r.cur.id THEN [a EXCEPT !.region = g] ELSE a
                       : a \in agents}
  <2>1. g \in Regions
    BY <1>1, <1>3 DEF ChangeRegion, Patch
  <2>2. new \in SUBSET Row
    <3> HIDE DEF g
    <3>1. \A a \in agents : [a EXCEPT !.region = g] \in Row
      BY <2>1, InFlight DEF Row
    <3> QED
      BY <3>1, InFlight
  <2>3. Table(new) /\ Wrote(r, "load") /\ UNCHANGED lastId
    BY <1>3 DEF ChangeRegion
  <2> HIDE DEF new
  <2> QED
    BY <2>2, <2>3, StatementInv DEF Steps
<1> QED
  BY <1>2, <1>3

LEMMA SetTokenHashInv ==
  ASSUME IInv, NEW r \in requests, SetTokenHash(r)
  PROVE  IInv'
<1>1. PICK t \in Minted :
        Table({IF a.id = r.cur.id THEN [a EXCEPT !.token = t] ELSE a : a \in agents})
  BY DEF SetTokenHash
<1> DEFINE new == {IF a.id = r.cur.id THEN [a EXCEPT !.token = t] ELSE a : a \in agents}
<1>2. new \in SUBSET Row
  <2>1. \A a \in agents : [a EXCEPT !.token = t] \in Row
    BY InFlight, RosterAssumptions DEF Row
  <2> QED
    BY <2>1, InFlight
<1>3. Table(new) /\ Wrote(r, "load") /\ UNCHANGED lastId
  BY <1>1 DEF SetTokenHash
<1> HIDE DEF new
<1> QED
  BY <1>2, <1>3, StatementInv DEF Steps

LEMMA DeleteInv ==
  ASSUME IInv, NEW r \in requests, Delete(r)
  PROVE  IInv'
<1>1. agents \ RowsWith(r.cur.id) \in SUBSET Row
  BY InFlight
<1> QED
  BY <1>1, StatementInv DEF Delete, Steps

LEMMA ImportInv ==
  ASSUME IInv, NEW r \in requests, FindByTokenHash(r) \/ Upsert(r)
  PROVE  IInv'
<1>1. CASE FindByTokenHash(r)
  <2> DEFINE found == {a \in agents : a.token = Head(r.entries).token}
             row == IF found = {} THEN None ELSE CHOOSE a \in found : TRUE
             q == [r EXCEPT !.step = "upsert", !.read = row]
  <2>1. row \in Row \cup {None} /\ r \in Request /\ "upsert" \in Steps
    BY InFlight DEF Steps
  <2>2. Become(r, q) /\ r.step = "find" /\ UNCHANGED <<agents, lastId, writes>>
    BY <1>1 DEF FindByTokenHash
  <2> HIDE DEF row
  <2>3. /\ q \in Request /\ q.step = "upsert" /\ q.wrote = r.wrote
        /\ q.loaded = r.loaded /\ q.entries = r.entries
    BY <2>1 DEF Request
  <2> HIDE DEF q
  <2> QED
    BY <2>2, <2>3, InFlight, QuietInv
<1>2. CASE Upsert(r)
  <2> DEFINE entry == Head(r.entries)
             rest == Tail(r.entries)
             step == IF rest = <<>> THEN "load" ELSE "find"
             q == [r EXCEPT !.step = step, !.entries = rest, !.wrote = writes + 1]
  <2>1. entry \in Entry /\ rest \in Seq(Entry) /\ step \in Steps /\ writes + 1 \in Nat
    <3>1. r.entries \in Seq(Entry) /\ r.entries # <<>> /\ writes \in Nat
      BY <1>2, InFlight DEF Upsert
    <3>2. entry \in Entry /\ rest \in Seq(Entry)
      BY <3>1
    <3> QED
      BY <3>1, <3>2 DEF Steps
  <2>2. Become(r, q)
    BY <1>2 DEF Upsert
  <2>3. agents' \subseteq Row /\ lastId' \in Nat /\ writes' = writes + 1
    <3>1. CASE r.read = None
      BY <1>2, <2>1, <3>1, InsertRow DEF Upsert, IInv
    <3>2. CASE r.read # None
      <4> DEFINE new == {IF a.id = r.read.id
                           THEN [a EXCEPT !.region = entry.region,
                                          !.platform = entry.platform,
                                          !.cadence = entry.cadence,
                                          !.enabled = entry.enabled,
                                          !.provision = entry.provision]
                           ELSE a : a \in agents}
      <4>1. Table(new) /\ UNCHANGED lastId
        BY <1>2, <3>2 DEF Upsert
      <4>2. \A a \in agents : [a EXCEPT !.region = entry.region,
                                        !.platform = entry.platform,
                                        !.cadence = entry.cadence,
                                        !.enabled = entry.enabled,
                                        !.provision = entry.provision] \in Row
        <5>1. /\ entry.region \in Regions /\ entry.platform \in Platforms
              /\ entry.cadence \in Cadences /\ entry.enabled \in Switch
              /\ entry.provision \in Provisions \cup {None}
          BY <2>1 DEF Entry
        <5> HIDE DEF entry
        <5> QED
          BY <5>1, InFlight DEF Row
      <4>3. new \in SUBSET Row
        <5> HIDE DEF entry
        <5> QED
          BY <4>2, InFlight
      <4> HIDE DEF new
      <4> QED
        BY <4>1, <4>3, InFlight DEF Table
    <3> QED
      BY <3>1, <3>2
  <2> HIDE DEF entry, rest, step
  <2>4. /\ q \in Request /\ q.step = step /\ q.wrote = writes + 1
        /\ q.loaded = r.loaded /\ q.entries = rest
    BY <2>1, InFlight DEF Request
  <2>5. step \in {"load", "find"} /\ (step = "find" => rest # <<>>)
    BY DEF step
  <2> HIDE DEF q
  <2>6. /\ requests' = (requests \ {r}) \cup {q}
        /\ UNCHANGED <<hub, manifest, registry, reflects, excuses>>
    BY <2>2 DEF Become, process
  <2> QED
    BY <2>3, <2>4, <2>5, <2>6, InFlight, WriteInv
<1> QED
  BY <1>1, <1>2


LEMMA IncomingFields ==
  ASSUME NEW id \in RequestIds, NEW op \in Operations, NEW step \in Steps
  PROVE  /\ Incoming(id, op, step) \in Request
         /\ Incoming(id, op, step).step = step
         /\ Incoming(id, op, step).patch = None
         /\ Incoming(id, op, step).entries = <<>>
         /\ Incoming(id, op, step).wrote = 0
         /\ Incoming(id, op, step).loaded = 0
<1>1. <<>> \in Seq(Entry) /\ {} \in SUBSET Row /\ 0 \in Nat
  OBVIOUS
<1> QED
  BY <1>1 DEF Incoming, Request

LEMMA CreateInv ==
  ASSUME IInv, NEW id \in RequestIds, NEW t \in Minted, NEW region \in Regions,
         NEW p \in Platforms, Create(id, t, region, p)
  PROVE  IInv'
<1> DEFINE entry == [token |-> t, region |-> region, platform |-> p,
                     cadence |-> NoOverride, enabled |-> "on", provision |-> None]
           x == Incoming(id, "create", "load")
           q == [x EXCEPT !.wrote = writes + 1]
<1>1. entry \in Entry
  BY RosterAssumptions DEF Entry, Switch
<1>2. agents' \subseteq Row /\ lastId' \in Nat /\ writes' = writes + 1 /\ writes \in Nat
  BY <1>1, InsertRow DEF Create, IInv, Shapes
<1>3. x \in Request /\ x.step = "load" /\ x.loaded = 0
  BY IncomingFields DEF Operations, Steps
<1>4. /\ requests' = requests \cup {q} /\ hub = "up"
      /\ UNCHANGED <<hub, manifest, registry, reflects, excuses>>
  BY DEF Create, process
<1> HIDE DEF x
<1>5. /\ q \in Request /\ q.step = "load" /\ q.wrote = writes + 1 /\ q.loaded = 0
  BY <1>2, <1>3 DEF Request
<1> HIDE DEF q
<1> QED
  BY <1>2, <1>4, <1>5, WriteInv

\* The requests that open a handler.
LEMMA ArrivalsInv ==
  ASSUME IInv, NEW id \in RequestIds,
         \/ \E n \in 1 .. lastId :
              \/ \E patch \in Patches : ArriveFor(id, "patch", "update", patch, n)
              \/ ArriveFor(id, "rotate", "rotate", None, n)
              \/ ArriveFor(id, "delete", "delete", None, n)
         \/ \E entries \in Files : ArriveImport(id, entries)
  PROVE  IInv'
<1>1. ASSUME NEW n \in 1 .. lastId, NEW op \in Operations, NEW step \in Steps,
             NEW patch \in Patch \cup {None}, ArriveFor(id, op, step, patch, n),
             step \in {"rotate", "delete"} \/ (step = "update" /\ patch \in Patch)
      PROVE  IInv'
  <2> DEFINE x == Incoming(id, op, step)
             q == [x EXCEPT !.cur = Find(n), !.patch = patch]
  <2>1. Find(n) \in Row /\ x \in Request /\ x.step = step /\ x.wrote = 0 /\ x.loaded = 0
    BY <1>1, FindRow, IncomingFields DEF ArriveFor, IInv
  <2>3. Arrive(q)
    BY <1>1 DEF ArriveFor
  <2> HIDE DEF x
  <2>2. /\ q \in Request /\ q.step = step /\ q.wrote = 0 /\ q.loaded = 0
        /\ q.patch = patch
    BY <2>1 DEF Request
  <2> HIDE DEF q
  <2> QED
    BY <1>1, <2>2, <2>3, ArriveInv
<1>2. ASSUME NEW entries \in Files, ArriveImport(id, entries)
      PROVE  IInv'
  <2> DEFINE step == IF entries = <<>> THEN "load" ELSE "find"
             x == Incoming(id, "import", step)
             q == [x EXCEPT !.entries = entries]
  <2>1. entries \in Seq(Entry) /\ x \in Request /\ x.step = step /\ x.wrote = 0
        /\ x.loaded = 0
    BY RosterAssumptions, IncomingFields DEF Steps, Operations
  <2>3. Arrive(q)
    BY <1>2 DEF ArriveImport
  <2> HIDE DEF x
  <2>2. /\ q \in Request /\ q.step = step /\ q.wrote = 0 /\ q.loaded = 0
        /\ q.entries = entries
    BY <2>1 DEF Request
  <2>4. step \in {"load", "find"} /\ (step = "find" => entries # <<>>)
    OBVIOUS
  <2> HIDE DEF q, step
  <2> QED
    BY <2>2, <2>3, <2>4, ArriveInv
<1> QED
  BY <1>1, <1>2, RosterAssumptions DEF Operations, Steps

LEMMA HandleInv ==
  ASSUME IInv, NEW r \in requests, Handle(r)
  PROVE  IInv'
BY UpdateInv, SetEnabledInv, ChangeRegionInv, SetTokenHashInv, DeleteInv, ImportInv,
   LoadInv, SwapInv, AbandonInv
DEF Handle, RefuseRegion, RefuseEntry, Fail

\* Crashes and boots: no handler runs, and Serve loads what the table holds.
LEMMA ProcessInv ==
  ASSUME IInv, Crash \/ Boot \/ Provision \/ Serve
  PROVE  IInv'
<1>1. CASE Crash
  BY <1>1 DEF Crash, IInv, Shapes, VersionsKnown, LoadedAfterWrite, RegistryAsLoaded,
              LastWriterPending
<1>2. CASE Boot
  BY <1>2, RosterAssumptions
  DEF Boot, IInv, Shapes, VersionsKnown, LoadedAfterWrite, RegistryAsLoaded,
      LastWriterPending
<1>3. CASE Provision
  <2> DEFINE entry == Head(manifest)
             known == {a \in agents : a.provision = entry.provision}
             new == {IF a \in known
                       THEN [a EXCEPT !.token = entry.token, !.region = entry.region,
                                      !.platform = entry.platform]
                       ELSE a : a \in agents}
  <2>1. /\ entry \in Entry /\ Tail(manifest) \in Seq(Provisioned) /\ agents \subseteq Row
        /\ writes \in Nat /\ reflects \in Nat /\ lastId \in Nat
        /\ requests = {} /\ reflects <= writes
    <3>1. manifest \in Seq(Provisioned) /\ manifest # <<>>
      BY <1>3 DEF Provision, IInv, Shapes
    <3>2. entry \in Provisioned /\ Tail(manifest) \in Seq(Provisioned)
      BY <3>1
    <3> QED
      BY <1>3, <3>2 DEF Provisioned, Provision, IInv, Shapes, VersionsKnown
  <2>2. agents' \subseteq Row /\ lastId' \in Nat /\ writes' = writes + 1
    <3>1. CASE known = {}
      BY <1>3, <2>1, <3>1, InsertRow DEF Provision, IInv
    <3>2. CASE known # {}
      <4>1. Table(new) /\ UNCHANGED lastId
        BY <1>3, <3>2 DEF Provision
      <4>2. \A a \in agents : [a EXCEPT !.token = entry.token,
                                        !.region = entry.region,
                                        !.platform = entry.platform] \in Row
        <5>1. /\ entry.token \in Tokens /\ entry.region \in Regions
              /\ entry.platform \in Platforms
          BY <2>1 DEF Entry
        <5> HIDE DEF entry
        <5> QED
          BY <2>1, <5>1 DEF Row
      <4>3. new \in SUBSET Row
        <5> HIDE DEF entry, known
        <5> QED
          BY <2>1, <4>2
      <4> HIDE DEF new
      <4> QED
        BY <2>1, <4>1, <4>3 DEF Table
    <3> QED
      BY <3>1, <3>2
  <2>3. /\ manifest' = Tail(manifest) /\ hub = "provisioning"
        /\ UNCHANGED <<hub, registry, requests, reflects, excuses>>
    BY <1>3 DEF Provision
  <2> QED
    BY <2>1, <2>2, <2>3
    DEF IInv, Shapes, VersionsKnown, LoadedAfterWrite, RegistryAsLoaded,
        LastWriterPending
<1>4. CASE Serve
  <2>1. /\ registry' = Enabled(agents) /\ reflects' = writes /\ requests = {}
        /\ UNCHANGED <<agents, lastId, requests, manifest, writes>> /\ hub' = "up"
    BY <1>4 DEF Serve, IInv, Shapes
  <2>2. Shapes'
    BY <2>1 DEF IInv, Shapes, Enabled
  <2> QED
    BY <2>1, <2>2
    DEF IInv, Shapes, VersionsKnown, LoadedAfterWrite, RegistryAsLoaded,
        LastWriterPending, Enabled
<1> QED
  BY <1>1, <1>2, <1>3, <1>4

LEMMA InitInv == Init => IInv
  BY DEF Init, IInv, Shapes, VersionsKnown, LoadedAfterWrite, RegistryAsLoaded,
         LastWriterPending

LEMMA NextInv == IInv /\ [Next]_vars => IInv'
<1> SUFFICES ASSUME IInv, [Next]_vars PROVE IInv'
  OBVIOUS
<1>1. CASE UNCHANGED vars
  BY <1>1 DEF vars, IInv, Shapes, VersionsKnown, LoadedAfterWrite, RegistryAsLoaded,
              LastWriterPending, Enabled
<1> QED
  BY <1>1, CreateInv, ArrivalsInv, HandleInv, ProcessInv DEF Next

LEMMA RosterInv == Spec => []IInv
  BY InitInv, NextInv, PTL DEF Spec

-----------------------------------------------------------------------------
\* However many handlers run at once, a registry that is out of date is accounted
\* for: somebody is still to reload it, returned early, or was overtaken.
THEOREM RosterStaleOnlyWithCause == Spec => []StaleOnlyWithCause
<1>1. IInv => StaleOnlyWithCause
  <2> SUFFICES ASSUME IInv, hub = "up", excuses = {}, registry # Enabled(agents)
               PROVE  \E r \in requests : r.wrote > 0
    BY DEF StaleOnlyWithCause
  <2>1. reflects < writes /\ reflects \in Nat /\ writes \in Nat
    BY DEF IInv, Shapes, VersionsKnown, RegistryAsLoaded
  <2> QED
    BY <2>1 DEF IInv, LastWriterPending
<1> QED
  BY <1>1, RosterInv, PTL

-----------------------------------------------------------------------------
\* An id, a token hash and a provision id name one row, and every token hash in the
\* table is known to have been issued.
KeysUnique ==
  /\ \A a, b \in agents :
       \/ a.id = b.id
       \/ a.token = b.token
       \/ a.provision = b.provision /\ a.provision # None
       => a = b
  /\ \A a \in agents : 0 < a.id /\ a.id <= lastId /\ a.token \in issued

KInv ==
  /\ IInv
  /\ KeysUnique
  /\ issued \subseteq Tokens
  /\ excuses \subseteq {"refusal", "fault", "overtaken"}

\* A statement that rewrites rows without taking a key of another row.
LEMMA RewriteKeepsKeys ==
  ASSUME KeysUnique, NEW f, Table({f[a] : a \in agents}), UNCHANGED lastId,
         \A a \in agents : f[a].id = a.id,
         \A a, b \in agents : f[a].token = f[b].token => a = b,
         \A a, b \in agents :
           f[a].provision = f[b].provision /\ f[a].provision # None => a = b
  PROVE  KeysUnique'
<1> DEFINE new == {f[a] : a \in agents}
<1>1. agents' = new /\ issued' = issued \cup {r.token : r \in new} /\ lastId' = lastId
  BY DEF Table
<1>2. ASSUME NEW x \in new, NEW y \in new,
             x.id = y.id \/ x.token = y.token
               \/ (x.provision = y.provision /\ x.provision # None)
      PROVE  x = y
  <2>1. PICK a \in agents : x = f[a]
    OBVIOUS
  <2>2. PICK b \in agents : y = f[b]
    OBVIOUS
  <2>3. a = b
    BY <1>2, <2>1, <2>2 DEF KeysUnique
  <2> QED
    BY <2>1, <2>2, <2>3
<1>3. ASSUME NEW x \in new
      PROVE  0 < x.id /\ x.id <= lastId /\ x.token \in issued'
  <2>1. PICK a \in agents : x = f[a]
    OBVIOUS
  <2> QED
    BY <1>1, <2>1 DEF KeysUnique
<1> HIDE DEF new
<1> QED
  BY <1>1, <1>2, <1>3 DEF KeysUnique

\* A new row whose keys are free.
LEMMA InsertKeepsKeys ==
  ASSUME KeysUnique, Shapes, NEW entry, Insert(entry),
         \A a \in agents : a.token # entry.token,
         \A a \in agents : a.provision = entry.provision => a.provision = None
  PROVE  KeysUnique'
<1> DEFINE row == [id |-> lastId + 1, token |-> entry.token, region |-> entry.region,
                   platform |-> entry.platform, cadence |-> entry.cadence,
                   enabled |-> entry.enabled, provision |-> entry.provision]
<1>1. /\ agents' = agents \cup {row} /\ lastId' = lastId + 1
      /\ issued' = issued \cup {r.token : r \in agents \cup {row}}
  BY DEF Insert, Table
<1>2. /\ row.id = lastId + 1 /\ row.token = entry.token
      /\ row.provision = entry.provision /\ lastId \in Nat
  BY DEF Shapes
<1>3. \A a \in agents : a.id \in Nat
  BY DEF Shapes, Row
<1> HIDE DEF row
<1>4. \A a \in agents' : 0 < a.id /\ a.id <= lastId' /\ a.token \in issued'
  BY <1>1, <1>2, <1>3 DEF KeysUnique
<1>5. ASSUME NEW a \in agents', NEW b \in agents',
             a.id = b.id \/ a.token = b.token
               \/ (a.provision = b.provision /\ a.provision # None)
      PROVE  a = b
  <2>1. CASE a \in agents /\ b \in agents
    BY <1>5, <2>1 DEF KeysUnique
  <2>2. CASE a \in agents /\ b = row
    BY <1>2, <1>3, <1>5, <2>2 DEF KeysUnique
  <2>3. CASE a = row /\ b \in agents
    BY <1>2, <1>3, <1>5, <2>3 DEF KeysUnique
  <2> QED
    BY <1>1, <2>1, <2>2, <2>3
<1> QED
  BY <1>4, <1>5 DEF KeysUnique

LEMMA QuietKeepsKeys ==
  ASSUME KeysUnique, UNCHANGED <<agents, lastId, issued>>
  PROVE  KeysUnique'
  BY DEF KeysUnique

\* The statements of a patch touch no key.
LEMMA PatchKeepsKeys ==
  ASSUME KInv, NEW r \in requests, UpdateWrite(r) \/ SetEnabled(r) \/ ChangeRegion(r)
  PROVE  KeysUnique'
<1> USE DEF KInv
<1>0. \A a \in agents : a \in Row
  BY DEF IInv, Shapes
<1>1. CASE UpdateWrite(r)
  <2>1. CASE r.read = None
    BY <1>1, <2>1, QuietKeepsKeys DEF UpdateWrite
  <2>2. CASE r.read # None
    <3> DEFINE c == Or(r.patch.cadence, r.read.cadence)
               p == Or(r.patch.platform, r.read.platform)
               f == [a \in agents |-> IF a.id = r.cur.id
                                       THEN [a EXCEPT !.cadence = c, !.platform = p] ELSE a]
    <3>1. Table({f[a] : a \in agents}) /\ UNCHANGED lastId
      BY <1>1, <2>2 DEF UpdateWrite
    <3> HIDE DEF c, p
    <3>2. \A a \in agents :
            f[a].id = a.id /\ f[a].token = a.token /\ f[a].provision = a.provision
      BY <1>0 DEF Row
    <3> HIDE DEF f
    <3> QED
      BY <3>1, <3>2, RewriteKeepsKeys DEF KeysUnique
  <2> QED
    BY <2>1, <2>2
<1>2. CASE SetEnabled(r)
  <2> DEFINE e == r.patch.enabled
             f == [a \in agents |-> IF a.id = r.cur.id THEN [a EXCEPT !.enabled = e] ELSE a]
  <2>1. Table({f[a] : a \in agents}) /\ UNCHANGED lastId
    BY <1>2 DEF SetEnabled
  <2> HIDE DEF e
  <2>2. \A a \in agents :
          f[a].id = a.id /\ f[a].token = a.token /\ f[a].provision = a.provision
    BY <1>0 DEF Row
  <2> HIDE DEF f
  <2> QED
    BY <2>1, <2>2, RewriteKeepsKeys DEF KeysUnique
<1>3. CASE ChangeRegion(r)
  <2>1. CASE r.patch.region \in {None, r.cur.region}
    BY <1>3, <2>1, QuietKeepsKeys DEF ChangeRegion
  <2>2. CASE r.patch.region \notin {None, r.cur.region}
    <3> DEFINE g == r.patch.region
               f == [a \in agents |-> IF a.id = r.cur.id THEN [a EXCEPT !.region = g] ELSE a]
    <3>1. Table({f[a] : a \in agents}) /\ UNCHANGED lastId
      BY <1>3, <2>2 DEF ChangeRegion
    <3> HIDE DEF g
    <3>2. \A a \in agents :
            f[a].id = a.id /\ f[a].token = a.token /\ f[a].provision = a.provision
      BY <1>0 DEF Row
    <3> HIDE DEF f
    <3> QED
      BY <3>1, <3>2, RewriteKeepsKeys DEF KeysUnique
  <2> QED
    BY <2>1, <2>2
<1> QED
  BY <1>1, <1>2, <1>3

\* A token that was never issued is in no row; only one row has the id.
LEMMA RotateKeepsKeys ==
  ASSUME KInv, NEW r \in requests, SetTokenHash(r)
  PROVE  KeysUnique'
<1> USE DEF KInv
<1>1. PICK t \in Minted :
        /\ Fresh(t)
        /\ Table({IF a.id = r.cur.id THEN [a EXCEPT !.token = t] ELSE a : a \in agents})
  BY DEF SetTokenHash
<1> DEFINE f == [a \in agents |-> IF a.id = r.cur.id THEN [a EXCEPT !.token = t] ELSE a]
<1>2. Table({f[a] : a \in agents}) /\ UNCHANGED lastId
  BY <1>1 DEF SetTokenHash
<1>3. \A a \in agents :
        /\ f[a].id = a.id /\ f[a].provision = a.provision
        /\ f[a].token = IF a.id = r.cur.id THEN t ELSE a.token
  BY DEF IInv, Shapes, Row
<1>4. \A a \in agents : a.token # t
  BY <1>1 DEF Fresh, KeysUnique
<1> HIDE DEF f
<1> QED
  BY <1>2, <1>3, <1>4, RewriteKeepsKeys DEF KeysUnique

LEMMA DeleteKeepsKeys ==
  ASSUME KInv, NEW r \in requests, Delete(r)
  PROVE  KeysUnique'
<1>1. agents' \subseteq agents /\ issued \subseteq issued' /\ lastId' = lastId
  BY DEF Delete, Table
<1> QED
  BY <1>1 DEF KInv, KeysUnique

\* What the table refuses is what Conflicts says.
LEMMA UpsertKeepsKeys ==
  ASSUME KInv, NEW r \in requests, Upsert(r)
  PROVE  KeysUnique'
<1> USE DEF KInv
<1> DEFINE entry == Head(r.entries)
<1>1. r.read = None \/ r.read \in Row
  BY InFlight
<1>2. CASE r.read = None
  <2>1. Insert(entry) /\ ~TokenTaken(entry.token, 0) /\ ~ProvisionTaken(entry.provision, 0)
    BY <1>2 DEF Upsert, Conflicts
  <2> HIDE DEF entry
  <2>2. \A a \in agents : a.id # 0
    BY DEF KeysUnique
  <2> QED
    BY <2>1, <2>2, InsertKeepsKeys DEF IInv, TokenTaken, ProvisionTaken
<1>3. CASE r.read # None
  <2> DEFINE n == r.read.id
             f == [a \in agents |->
                     IF a.id = n
                       THEN [a EXCEPT !.region = entry.region,
                                      !.platform = entry.platform,
                                      !.cadence = entry.cadence,
                                      !.enabled = entry.enabled,
                                      !.provision = entry.provision]
                       ELSE a]
  <2>1. Table({f[a] : a \in agents}) /\ UNCHANGED lastId
    BY <1>3 DEF Upsert
  <2>2. RowsWith(n) = {} \/ ~ProvisionTaken(entry.provision, n)
    BY <1>3 DEF Upsert, Conflicts
  <2> HIDE DEF entry, n
  <2>3. \A a \in agents :
          /\ f[a].id = a.id /\ f[a].token = a.token
          /\ f[a].provision = IF a.id = n THEN entry.provision ELSE a.provision
    BY DEF IInv, Shapes, Row
  <2> HIDE DEF f
  <2>4. \A a, b \in agents :
          f[a].provision = f[b].provision /\ f[a].provision # None => a = b
    BY <2>2, <2>3 DEF RowsWith, ProvisionTaken, KeysUnique
  <2> QED
    BY <2>1, <2>3, <2>4, RewriteKeepsKeys DEF KeysUnique
<1> QED
  BY <1>2, <1>3

LEMMA CreateKeepsKeys ==
  ASSUME KInv, NEW id \in RequestIds, NEW t \in Minted, NEW region \in Regions,
         NEW p \in Platforms, Create(id, t, region, p)
  PROVE  KeysUnique'
<1> DEFINE entry == [token |-> t, region |-> region, platform |-> p,
                     cadence |-> NoOverride, enabled |-> "on", provision |-> None]
<1>1. Insert(entry) /\ Fresh(t) /\ entry.token = t /\ entry.provision = None
  BY DEF Create
<1> HIDE DEF entry
<1> QED
  BY <1>1, InsertKeepsKeys DEF KInv, IInv, Fresh, KeysUnique

\* A manifest entry has an id of its own, so that it is one agent's.
LEMMA ProvisionKeepsKeys ==
  ASSUME KInv, Provision
  PROVE  KeysUnique'
<1> USE DEF KInv
<1> DEFINE entry == Head(manifest)
           known == {a \in agents : a.provision = entry.provision}
<1>1. entry.provision # None
  <2>1. manifest \in Seq(Provisioned) /\ manifest # <<>>
    BY DEF Provision, IInv, Shapes
  <2>2. entry \in Provisioned
    BY <2>1
  <2> QED
    BY <2>2 DEF Provisioned
<1>2. CASE known = {}
  <2>1. Insert(entry) /\ ~TokenTaken(entry.token, 0)
    BY <1>2 DEF Provision
  <2>2. \A a \in agents : a.provision # entry.provision
    BY <1>2
  <2> HIDE DEF entry, known
  <2>3. \A a \in agents : a.id # 0
    BY DEF KeysUnique
  <2> QED
    BY <2>1, <2>2, <2>3, InsertKeepsKeys DEF IInv, TokenTaken
<1>3. CASE known # {}
  <2> DEFINE f == [a \in agents |->
                     IF a \in known
                       THEN [a EXCEPT !.token = entry.token, !.region = entry.region,
                                      !.platform = entry.platform]
                       ELSE a]
  <2>1. /\ \A a \in known : ~TokenTaken(entry.token, a.id)
        /\ Table({IF a \in known
                    THEN [a EXCEPT !.token = entry.token, !.region = entry.region,
                                   !.platform = entry.platform]
                    ELSE a : a \in agents})
        /\ UNCHANGED lastId
    BY <1>3 DEF Provision
  <2>2. \A a, b \in known : a = b
    BY <1>1 DEF KeysUnique
  <2> HIDE DEF entry
  <2>3. Table({f[a] : a \in agents})
    BY <2>1
  <2>4. \A a \in agents :
          /\ f[a].id = a.id /\ f[a].provision = a.provision
          /\ f[a].token = IF a \in known THEN entry.token ELSE a.token
    BY DEF IInv, Shapes, Row
  <2> HIDE DEF f
  <2>5. \A a \in known, b \in agents : b.token = entry.token => b = a
    BY <2>1 DEF TokenTaken, KeysUnique
  <2>6. \A a, b \in agents : a.token = b.token => a = b
    BY DEF KeysUnique
  <2>7. \A a, b \in agents : f[a].provision = f[b].provision /\ f[a].provision # None => a = b
    BY <2>4 DEF KeysUnique
  <2> HIDE DEF known, KInv
  <2>8. \A a, b \in agents : f[a].token = f[b].token => a = b
    BY <2>2, <2>4, <2>5, <2>6
  <2> QED
    BY <2>1, <2>3, <2>4, <2>7, <2>8, RewriteKeepsKeys DEF KInv
<1> QED
  BY <1>2, <1>3

LEMMA KeysStep ==
  ASSUME KInv, [Next]_vars
  PROVE  KeysUnique'
<1>1. CASE UNCHANGED vars
  BY <1>1, QuietKeepsKeys DEF KInv, vars
<1>2. CASE Crash \/ Boot \/ Serve
  BY <1>2, QuietKeepsKeys DEF KInv, Crash, Boot, Serve
<1>3. ASSUME NEW r \in requests, Handle(r)
      PROVE  KeysUnique'
  <2>1. CASE UpdateRead(r) \/ RefuseRegion(r) \/ FindByTokenHash(r) \/ RefuseEntry(r)
             \/ Load(r) \/ Swap(r) \/ Fail(r)
    BY <2>1, QuietKeepsKeys
    DEF KInv, UpdateRead, RefuseRegion, FindByTokenHash, RefuseEntry, Load, Swap, Fail,
        Abandon
  <2> QED
    BY <1>3, <2>1, PatchKeepsKeys, RotateKeepsKeys, DeleteKeepsKeys, UpsertKeepsKeys
    DEF Handle
<1>4. ASSUME NEW request, Arrive(request)
      PROVE  KeysUnique'
  BY <1>4, QuietKeepsKeys DEF KInv, Arrive
<1> QED
  BY <1>1, <1>2, <1>3, <1>4, CreateKeepsKeys, ProvisionKeepsKeys
  DEF Next, ArriveFor, ArriveImport

\* The two history variables.
LEMMA HistoryStep ==
  ASSUME KInv, [Next]_vars
  PROVE  /\ issued' \subseteq Tokens
         /\ excuses' \subseteq {"refusal", "fault", "overtaken"}
<1>1. issued' = issued \/ issued' = issued \cup {r.token : r \in agents'}
  <2>1. ASSUME NEW r \in requests, Handle(r)
        PROVE  issued' = issued \/ issued' = issued \cup {q.token : q \in agents'}
    <3>1. CASE UpdateWrite(r) \/ SetEnabled(r) \/ ChangeRegion(r) \/ Delete(r)
      BY <3>1 DEF UpdateWrite, SetEnabled, ChangeRegion, Delete, Table
    <3>2. CASE SetTokenHash(r)
      BY <3>2 DEF SetTokenHash, Table
    <3>3. CASE Upsert(r)
      BY <3>3 DEF Upsert, Insert, Table
    <3>4. CASE UpdateRead(r) \/ RefuseRegion(r) \/ FindByTokenHash(r) \/ RefuseEntry(r)
               \/ Load(r) \/ Swap(r) \/ Fail(r)
      BY <3>4 DEF UpdateRead, RefuseRegion, FindByTokenHash, RefuseEntry, Load, Swap, Fail,
                  Abandon
    <3> QED
      BY <2>1, <3>1, <3>2, <3>3, <3>4 DEF Handle
  <2>2. ASSUME NEW id, NEW t, NEW region, NEW p, Create(id, t, region, p)
        PROVE  issued' = issued \cup {q.token : q \in agents'}
    BY <2>2 DEF Create, Insert, Table
  <2>3. ASSUME NEW request, Arrive(request)
        PROVE  issued' = issued
    BY <2>3 DEF Arrive
  <2>4. CASE Provision
    BY <2>4 DEF Provision, Insert, Table
  <2>5. CASE Crash \/ Boot \/ Serve \/ UNCHANGED vars
    BY <2>5 DEF Crash, Boot, Serve, vars
  <2> QED
    BY <2>1, <2>2, <2>3, <2>4, <2>5 DEF Next, ArriveFor, ArriveImport
<1>2. agents' \subseteq Row
  BY NextInv DEF KInv, IInv, Shapes
<1>3. excuses' \subseteq excuses \cup {"refusal", "fault", "overtaken"}
  BY DEF Next, vars, Create, ArriveFor, ArriveImport, Arrive, Handle, UpdateRead,
         UpdateWrite, SetEnabled, ChangeRegion, RefuseRegion, SetTokenHash, Delete,
         FindByTokenHash, Upsert, RefuseEntry, Load, Swap, Fail, Abandon, Goto, Wrote,
         Become, Crash, Boot, Provision, Serve
<1> QED
  BY <1>1, <1>2, <1>3 DEF KInv, Row

LEMMA RosterKeysInv == Spec => []KInv
<1>1. Init => KInv
  BY InitInv DEF Init, KInv, KeysUnique
<1>2. KInv /\ [Next]_vars => KInv'
  BY NextInv, KeysStep, HistoryStep DEF KInv
<1> QED
  BY <1>1, <1>2, PTL DEF Spec

\* The type invariant of the roster.  An id, a token hash and a manifest id name one
\* agent, whatever handlers, imports and boots are interleaved: a report is credited to
\* the agent whose token it brings.
THEOREM RosterTypeOK == Spec => []TypeOK
<1>1. KInv => TypeOK
  BY DEF KInv, IInv, Shapes, KeysUnique, TypeOK
<1> QED
  BY <1>1, RosterKeysInv, PTL

-----------------------------------------------------------------------------
\* No row of S opens with the token agent cur had.
Gone(S, cur) == \A a \in S : ~(a.id = cur.id /\ a.token = cur.token)

\* A rotation or a deletion found an agent of the table; once it has written, that
\* agent's token is in no row, and in none of those it has read for the registry.
Revokes(r) ==
  /\ r.cur.token \in issued /\ r.cur.id <= lastId
  /\ r.step \in {"rotate", "delete", "load", "swap"}
  /\ r.step \in {"load", "swap"} => Gone(agents, r.cur)
  /\ r.step = "swap" => Gone(r.rows, r.cur)

Revocations ==
  \A r \in requests : r.op \in {"rotate", "delete"} => r.cur \in Row /\ Revokes(r)

\* While the hub serves, a row has the id and the token of a row of before, or else a
\* new id or a token that was never issued: no statement brings an old token back.
LEMMA PairsAreOldOrFresh ==
  ASSUME KInv, hub = "up", Next, NEW b \in agents'
  PROVE  \/ \E a \in agents : a.id = b.id /\ a.token = b.token
         \/ b.token \notin issued
         \/ b.id > lastId
<1> USE DEF KInv
<1>0. agents \subseteq Row /\ lastId \in Nat
  BY DEF IInv, Shapes
<1>1. ASSUME NEW r \in requests, UpdateWrite(r) \/ SetEnabled(r) \/ ChangeRegion(r)
      PROVE  \E a \in agents : a.id = b.id /\ a.token = b.token
  <2>1. CASE UpdateWrite(r)
    <3> DEFINE new(a) == [a EXCEPT !.cadence = Or(r.patch.cadence, r.read.cadence),
                                   !.platform = Or(r.patch.platform, r.read.platform)]
    <3>1. \/ UNCHANGED agents
          \/ agents' = {IF a.id = r.cur.id THEN new(a) ELSE a : a \in agents}
      BY <2>1 DEF UpdateWrite, Table
    <3>2. \A a \in agents : new(a).id = a.id /\ new(a).token = a.token
      BY <1>0 DEF Row
    <3> HIDE DEF new
    <3> QED
      BY <3>1, <3>2
  <2>2. CASE SetEnabled(r)
    <3> DEFINE new(a) == [a EXCEPT !.enabled = r.patch.enabled]
    <3>1. agents' = {IF a.id = r.cur.id THEN new(a) ELSE a : a \in agents}
      BY <2>2 DEF SetEnabled, Table
    <3>2. \A a \in agents : new(a).id = a.id /\ new(a).token = a.token
      BY <1>0 DEF Row
    <3> HIDE DEF new
    <3> QED
      BY <3>1, <3>2
  <2>3. CASE ChangeRegion(r)
    <3> DEFINE new(a) == [a EXCEPT !.region = r.patch.region]
    <3>1. \/ UNCHANGED agents
          \/ agents' = {IF a.id = r.cur.id THEN new(a) ELSE a : a \in agents}
      BY <2>3 DEF ChangeRegion, Table
    <3>2. \A a \in agents : new(a).id = a.id /\ new(a).token = a.token
      BY <1>0 DEF Row
    <3> HIDE DEF new
    <3> QED
      BY <3>1, <3>2
  <2> QED
    BY <1>1, <2>1, <2>2, <2>3
<1>2. ASSUME NEW r \in requests, SetTokenHash(r)
      PROVE  \/ \E a \in agents : a.id = b.id /\ a.token = b.token
             \/ b.token \notin issued
  BY <1>0, <1>2 DEF SetTokenHash, Table, Fresh, Row
<1>3. ASSUME NEW entry, Insert(entry)
      PROVE  b \in agents \/ b.id > lastId
  BY <1>0, <1>3 DEF Insert, Table
<1>4. ASSUME NEW r \in requests, Upsert(r)
      PROVE  b.id > lastId \/ \E a \in agents : a.id = b.id /\ a.token = b.token
  <2>1. CASE r.read = None
    BY <1>3, <1>4, <2>1 DEF Upsert
  <2>2. CASE r.read # None
    <3> DEFINE entry == Head(r.entries)
               new(a) == [a EXCEPT !.region = entry.region, !.platform = entry.platform,
                                   !.cadence = entry.cadence, !.enabled = entry.enabled,
                                   !.provision = entry.provision]
    <3>1. agents' = {IF a.id = r.read.id THEN new(a) ELSE a : a \in agents}
      BY <1>4, <2>2 DEF Upsert, Table
    <3> HIDE DEF entry
    <3>2. \A a \in agents : new(a).id = a.id /\ new(a).token = a.token
      BY <1>0 DEF Row
    <3> HIDE DEF new
    <3> QED
      BY <3>1, <3>2
  <2> QED
    BY <2>1, <2>2
<1>5. ASSUME NEW r \in requests, Handle(r)
      PROVE  \/ \E a \in agents : a.id = b.id /\ a.token = b.token
             \/ b.token \notin issued
             \/ b.id > lastId
  <2>1. CASE Delete(r)
    BY <2>1 DEF Delete, Table
  <2>2. CASE UpdateRead(r) \/ RefuseRegion(r) \/ FindByTokenHash(r) \/ RefuseEntry(r)
             \/ Load(r) \/ Swap(r) \/ Fail(r)
    BY <2>2 DEF UpdateRead, RefuseRegion, FindByTokenHash, RefuseEntry, Load, Swap, Fail,
                Abandon
  <2> QED
    BY <1>1, <1>2, <1>4, <1>5, <2>1, <2>2 DEF Handle
<1>6. ASSUME NEW id, NEW t, NEW region, NEW p, Create(id, t, region, p)
      PROVE  b \in agents \/ b.id > lastId
  BY <1>3, <1>6 DEF Create
<1>7. ASSUME NEW request, Arrive(request)
      PROVE  b \in agents
  BY <1>7 DEF Arrive
<1>8. CASE Crash
  BY <1>8 DEF Crash
<1> QED
  BY <1>5, <1>6, <1>7, <1>8 DEF Next, ArriveFor, ArriveImport, Boot, Provision, Serve

\* Ids given and tokens issued are never taken back.
LEMMA HistoryGrows ==
  ASSUME KInv, Next
  PROVE  issued \subseteq issued' /\ lastId' \in Nat /\ lastId <= lastId'
<1>1. lastId \in Nat
  BY DEF KInv, IInv, Shapes
<1>2. ASSUME NEW entry, Insert(entry)
      PROVE  issued \subseteq issued' /\ lastId' = lastId + 1
  BY <1>2 DEF Insert, Table
<1>3. ASSUME NEW r \in requests, Handle(r)
      PROVE  issued \subseteq issued' /\ lastId' \in {lastId, lastId + 1}
  <2>1. CASE Upsert(r)
    BY <1>2, <2>1 DEF Upsert, Table
  <2>2. CASE UpdateWrite(r) \/ SetEnabled(r) \/ ChangeRegion(r) \/ SetTokenHash(r)
             \/ Delete(r)
    BY <2>2 DEF UpdateWrite, SetEnabled, ChangeRegion, SetTokenHash, Delete, Table
  <2>3. CASE UpdateRead(r) \/ RefuseRegion(r) \/ FindByTokenHash(r) \/ RefuseEntry(r)
             \/ Load(r) \/ Swap(r) \/ Fail(r)
    BY <2>3 DEF UpdateRead, RefuseRegion, FindByTokenHash, RefuseEntry, Load, Swap, Fail,
                Abandon
  <2> QED
    BY <1>3, <2>1, <2>2, <2>3 DEF Handle
<1>4. ASSUME NEW id, NEW t, NEW region, NEW p, Create(id, t, region, p)
      PROVE  issued \subseteq issued' /\ lastId' = lastId + 1
  BY <1>2, <1>4 DEF Create
<1>5. ASSUME NEW request, Arrive(request)
      PROVE  UNCHANGED <<issued, lastId>>
  BY <1>5 DEF Arrive
<1>6. Provision => issued \subseteq issued' /\ lastId' \in {lastId, lastId + 1}
  <2> HAVE Provision
  <2> DEFINE entry == Head(manifest)
             known == {a \in agents : a.provision = entry.provision}
             new == {IF a \in known
                       THEN [a EXCEPT !.token = entry.token, !.region = entry.region,
                                      !.platform = entry.platform]
                       ELSE a : a \in agents}
  <2>1. Insert(entry) \/ (Table(new) /\ UNCHANGED lastId)
    BY DEF Provision
  <2> HIDE DEF entry, known, new
  <2> QED
    BY <1>1, <1>2, <2>1 DEF Table
<1>7. Crash \/ Boot \/ Serve => UNCHANGED <<issued, lastId>>
  BY DEF Crash, Boot, Serve
<1>8. issued \subseteq issued' /\ lastId' \in {lastId, lastId + 1}
  BY <1>1, <1>3, <1>4, <1>5, <1>6, <1>7 DEF Next, ArriveFor, ArriveImport
<1> QED
  BY <1>1, <1>8

\* A request nobody moves keeps what it has achieved.
LEMMA RevocationStays ==
  ASSUME KInv, hub = "up", Next, NEW r \in requests, r.cur \in Row, Revokes(r)
  PROVE  Revokes(r)'
<1>1. r.cur.token \in issued' /\ r.cur.id <= lastId'
  BY HistoryGrows DEF Revokes, KInv, IInv, Shapes, Row
<1>2. ASSUME Gone(agents, r.cur)
      PROVE  Gone(agents', r.cur)
  <2> SUFFICES ASSUME NEW b \in agents', b.id = r.cur.id, b.token = r.cur.token
               PROVE  FALSE
    BY DEF Gone
  <2>1. b.token \in issued /\ ~(b.id > lastId)
    BY DEF Revokes, KInv, IInv, Shapes, Row
  <2> QED
    BY <1>2, <2>1, PairsAreOldOrFresh DEF Gone
<1> QED
  BY <1>1, <1>2 DEF Revokes

\* A handler keeps its kind and the agent it is about, and goes on as the code says.
LEMMA HandlerGoesOn ==
  ASSUME KInv, NEW r \in requests, Handle(r), NEW q \in requests' \ requests
  PROVE  /\ q.op = r.op /\ q.cur = r.cur
         /\ SetTokenHash(r) \/ Delete(r) => q.step = "load"
         /\ r.step = "load" => q.step = "swap" /\ q.rows = Enabled(agents)
<1>1. r \in Request
  BY InFlight DEF KInv
<1>2. CASE UpdateRead(r)
  BY <1>1, <1>2 DEF UpdateRead, SetTokenHash, Delete, Become, Request
<1>3. ASSUME NEW step, Goto(r, step) \/ Wrote(r, step)
      PROVE  q.op = r.op /\ q.cur = r.cur
  BY <1>1, <1>3 DEF Goto, Wrote, Become, Request
<1>4. CASE UpdateWrite(r) \/ SetEnabled(r) \/ ChangeRegion(r)
  <2>1. r.step \in {"write", "enable", "move"}
        /\ \E step \in {AfterWrite(r), "move", "load"} : Goto(r, step) \/ Wrote(r, step)
    BY <1>4 DEF UpdateWrite, SetEnabled, ChangeRegion
  <2> QED
    BY <1>3, <2>1 DEF SetTokenHash, Delete
<1>5. CASE SetTokenHash(r) \/ Delete(r)
  <2>1. r.step \in {"rotate", "delete"} /\ Wrote(r, "load")
    BY <1>5 DEF SetTokenHash, Delete
  <2> QED
    BY <1>1, <2>1 DEF Wrote, Become, Request
<1>6. CASE FindByTokenHash(r)
  BY <1>1, <1>6 DEF FindByTokenHash, SetTokenHash, Delete, Become, Request
<1>7. CASE Upsert(r)
  <2> DEFINE rest == Tail(r.entries)
             step == IF rest = <<>> THEN "load" ELSE "find"
  <2>1. r.step = "upsert"
        /\ Become(r, [r EXCEPT !.step = step, !.entries = rest, !.wrote = writes + 1])
    BY <1>7 DEF Upsert
  <2> HIDE DEF rest, step
  <2> QED
    BY <1>1, <2>1 DEF Become, SetTokenHash, Delete, Request
<1>8. CASE Load(r)
  BY <1>1, <1>8 DEF Load, SetTokenHash, Delete, Become, Request
<1>9. CASE RefuseRegion(r) \/ RefuseEntry(r) \/ Swap(r) \/ Fail(r)
  BY <1>9 DEF RefuseRegion, RefuseEntry, Swap, Fail, Abandon
<1> QED
  BY <1>2, <1>4, <1>5, <1>6, <1>7, <1>8, <1>9 DEF Handle

\* A step of the handler itself.
LEMMA RevocationGoesOn ==
  ASSUME KInv, hub = "up", NEW r \in requests, r.cur \in Row, Revokes(r), Handle(r),
         Next, NEW q \in requests' \ requests
  PROVE  q.cur = r.cur /\ Revokes(q)'
<1>1. /\ q.cur = r.cur
      /\ SetTokenHash(r) \/ Delete(r) => q.step = "load"
      /\ r.step = "load" => q.step = "swap" /\ q.rows = Enabled(agents)
  BY HandlerGoesOn
<1>2. r.cur.token \in issued' /\ r.cur.id <= lastId'
  BY HistoryGrows DEF Revokes, KInv, IInv, Shapes, Row
<1>3. r.step \in {"rotate", "delete", "load", "swap"}
  BY DEF Revokes
<1>4. CASE SetTokenHash(r)
  <2>1. Gone(agents', r.cur)
    <3>1. PICK t \in Minted :
            /\ t \notin issued
            /\ agents' = {IF a.id = r.cur.id THEN [a EXCEPT !.token = t] ELSE a
                            : a \in agents}
      BY <1>4 DEF SetTokenHash, Table, Fresh
    <3>2. agents \subseteq Row
      BY DEF KInv, IInv, Shapes
    <3> QED
      BY <3>1, <3>2 DEF Gone, Revokes, Row
  <2> QED
    BY <1>1, <1>2, <1>4, <2>1 DEF Revokes
<1>5. CASE Delete(r)
  <2>1. Gone(agents', r.cur)
    BY <1>5 DEF Delete, Table, RowsWith, Gone
  <2> QED
    BY <1>1, <1>2, <1>5, <2>1 DEF Revokes
<1>6. CASE Load(r)
  <2>1. r.step = "load" /\ UNCHANGED agents
    BY <1>6 DEF Load
  <2> QED
    BY <1>1, <1>2, <2>1 DEF Revokes, Gone, Enabled
<1>7. CASE Swap(r) \/ Fail(r)
  BY <1>7 DEF Swap, Fail, Abandon
<1>8. Handle(r) => SetTokenHash(r) \/ Delete(r) \/ Load(r) \/ Swap(r) \/ Fail(r)
  BY <1>3 DEF Handle, UpdateRead, UpdateWrite, SetEnabled, ChangeRegion, RefuseRegion,
              FindByTokenHash, Upsert, RefuseEntry
<1> QED
  BY <1>1, <1>4, <1>5, <1>6, <1>7, <1>8

\* A rotation or a deletion arrives for an agent of the table.
LEMMA RevocationArrives ==
  ASSUME KInv, NEW id \in RequestIds, NEW op \in {"rotate", "delete"}, NEW n,
         ArriveFor(id, op, op, None, n), NEW q \in requests' \ requests
  PROVE  q.cur \in Row /\ Revokes(q)'
<1> DEFINE x == Incoming(id, op, op)
<1>1. x \in Request
  BY IncomingFields DEF Operations, Steps
<1>2. Find(n) \in agents
  BY DEF ArriveFor, Find, RowsWith
<1>3. q = [x EXCEPT !.cur = Find(n), !.patch = None] /\ UNCHANGED <<agents, lastId, issued>>
  BY DEF ArriveFor, Arrive
<1>4. x.step = op
  BY IncomingFields DEF Operations, Steps
<1> HIDE DEF x
<1>5. q.cur = Find(n) /\ q.step = op
  BY <1>1, <1>3, <1>4 DEF Request
<1> QED
  BY <1>2, <1>3, <1>5 DEF KInv, IInv, Shapes, KeysUnique, Revokes

\* Any other request.
LEMMA OthersArrive ==
  ASSUME KInv, NEW id \in RequestIds,
         \/ \E t \in Minted, region \in Regions, p \in Platforms :
              Create(id, t, region, p)
         \/ \E n \in 1 .. lastId, patch \in Patches :
              ArriveFor(id, "patch", "update", patch, n)
         \/ \E entries \in Files : ArriveImport(id, entries),
         NEW q \in requests' \ requests
  PROVE  q.op \notin {"rotate", "delete"}
<1>1. ASSUME NEW op \in Operations, NEW step \in Steps
      PROVE  Incoming(id, op, step).op = op /\ Incoming(id, op, step) \in Request
  BY <1>1, IncomingFields DEF Incoming
<1>2. ASSUME NEW t \in Minted, NEW region \in Regions, NEW p \in Platforms,
             Create(id, t, region, p)
      PROVE  q.op = "create"
  <2> DEFINE x == Incoming(id, "create", "load")
  <2>1. q = [x EXCEPT !.wrote = writes + 1]
    BY <1>2 DEF Create
  <2>2. x.op = "create" /\ x \in Request
    BY <1>1 DEF Operations, Steps
  <2> HIDE DEF x
  <2> QED
    BY <2>1, <2>2 DEF Request
<1>3. ASSUME NEW n, NEW patch, ArriveFor(id, "patch", "update", patch, n)
      PROVE  q.op = "patch"
  <2> DEFINE x == Incoming(id, "patch", "update")
  <2>1. q = [x EXCEPT !.cur = Find(n), !.patch = patch]
    BY <1>3 DEF ArriveFor, Arrive
  <2>2. x.op = "patch" /\ x \in Request
    BY <1>1 DEF Operations, Steps
  <2> HIDE DEF x
  <2> QED
    BY <2>1, <2>2 DEF Request
<1>4. ASSUME NEW entries \in Files, ArriveImport(id, entries)
      PROVE  q.op = "import"
  <2> DEFINE step == IF entries = <<>> THEN "load" ELSE "find"
             x == Incoming(id, "import", step)
  <2>1. q = [x EXCEPT !.entries = entries]
    BY <1>4 DEF ArriveImport, Arrive
  <2>2. x.op = "import" /\ x \in Request
    BY <1>1 DEF Operations, Steps
  <2> HIDE DEF x
  <2> QED
    BY <2>1, <2>2 DEF Request
<1> QED
  BY <1>2, <1>3, <1>4

LEMMA RevocationStep ==
  ASSUME KInv, Revocations, [Next]_vars
  PROVE  Revocations'
<1>1. CASE UNCHANGED vars
  BY <1>1 DEF vars, Revocations, Revokes, Gone
<1>2. CASE hub # "up" /\ Next
  <2>1. requests = {}
    BY <1>2 DEF KInv, IInv, Shapes
  <2>2. requests' = {}
    BY <1>2, <2>1 DEF Next, Create, ArriveFor, ArriveImport, Arrive, Crash, Boot,
                      Provision, Serve
  <2> QED
    BY <2>2 DEF Revocations
<1>3. CASE hub = "up" /\ Next
  <2> SUFFICES ASSUME NEW q \in requests', q.op \in {"rotate", "delete"}
               PROVE  q.cur \in Row /\ Revokes(q)'
    BY DEF Revocations
  <2>1. CASE q \in requests
    BY <1>3, <2>1, RevocationStays DEF Revocations
  <2>2. CASE q \notin requests
    <3>1. ASSUME NEW r \in requests, Handle(r)
          PROVE  q.cur \in Row /\ Revokes(q)'
      <4>1. r.op = q.op
        BY <2>2, <3>1, HandlerGoesOn
      <4> QED
        BY <1>3, <2>2, <3>1, <4>1, RevocationGoesOn DEF Revocations
    <3>2. requests' = {} \/ UNCHANGED requests
          \/ (\E r \in requests : Handle(r))
          \/ \E id \in RequestIds :
               \/ \E t \in Minted, region \in Regions, p \in Platforms :
                    Create(id, t, region, p)
               \/ \E n \in 1 .. lastId, patch \in Patches :
                    ArriveFor(id, "patch", "update", patch, n)
               \/ \E entries \in Files : ArriveImport(id, entries)
               \/ \E n \in 1 .. lastId, op \in {"rotate", "delete"} :
                    ArriveFor(id, op, op, None, n)
      BY <1>3 DEF Next, Crash, Boot, Provision, Serve
    <3> QED
      BY <2>2, <3>1, <3>2, RevocationArrives, OthersArrive
  <2> QED
    BY <2>1, <2>2
<1> QED
  BY <1>1, <1>2, <1>3

\* An answered rotation or deletion has revoked the token its agent had: no registry
\* stored by a handler of its own accord brings it back, whatever rows others write to
\* the table between its statement, its reload and its exchange of the pointer.
THEOREM RosterRevokedWhenAnswered == Spec => RevokedWhenAnswered
<1>1. Init => Revocations
  BY DEF Init, Revocations
<1>2. KInv /\ Revocations /\ [Next]_vars => Revocations'
  BY RevocationStep
<1>3. Revocations =>
        \A r \in requests : Swap(r) /\ r.op \in {"rotate", "delete"} =>
          \A a \in registry' : ~(a.id = r.cur.id /\ a.token = r.cur.token)
  BY DEF Revocations, Revokes, Swap, Gone
<1> QED
  BY <1>1, <1>2, <1>3, RosterKeysInv, PTL DEF Spec, RevokedWhenAnswered

=============================================================================
