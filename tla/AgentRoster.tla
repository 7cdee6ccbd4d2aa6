---------------------------- MODULE AgentRoster ----------------------------
(***************************************************************************)
(* The agents table, the registry built from it, and the admin handlers    *)
(* that change the one and rebuild the other: create, patch, rotate,       *)
(* delete and import of internal/httpapi/admin_agents*.go, over            *)
(* AgentsRepo, and Provider.Reload.                                        *)
(*                                                                         *)
(* Handlers run concurrently.  A step is one SQL statement (the database   *)
(* has one connection, so statements do not overlap) or the exchange of    *)
(* the registry pointer.  What a handler reads in one statement it may use *)
(* in a later one, and any statement may fail, which ends the handler with *)
(* what it has written so far.  The readings a handler orphans or deletes  *)
(* and the tile it evicts are ReadingStore's.                              *)
(***************************************************************************)
EXTENDS Integers, Sequences, FiniteSets

CONSTANTS
  RequestIds,     \* admin requests that may be in flight at once
  Tokens,         \* token hashes
  Minted,         \* those token.Generate may come up with
  Regions,
  UnknownRegion,  \* stands for what domain.IsKnownRegion refuses
  Platforms,
  Cadences,       \* (poll_min, poll_max) overrides
  NoOverride,     \* the one of an agent that follows the global cadence
  Provisions,     \* provision ids
  None,           \* NULL, an absent field of a body, no row
  Patches,        \* bodies of patch requests
  Files,          \* bodies of import requests, sequences of entries
  Manifest,       \* the provisioned agents of the boot configuration, a sequence
  MaxAgents,      \* bound on the agents ever created
  MaxWrites       \* bound on the statements that change the table

Switch == {"on", "off"}

Row == [id : Nat, token : Tokens, region : Regions, platform : Platforms,
        cadence : Cadences, enabled : Switch, provision : Provisions \cup {None}]

Patch == [region   : Regions \cup {UnknownRegion, None},
          platform : Platforms \cup {None},
          cadence  : Cadences \cup {None},
          enabled  : Switch \cup {None}]

Entry == [token : Tokens, region : Regions, platform : Platforms,
          cadence : Cadences, enabled : Switch,
          provision : Provisions \cup {None}]

\* registry.resolve refuses a manifest entry without an id.
Provisioned == {e \in Entry : e.provision # None}

Operations == {"create", "patch", "rotate", "delete", "import"}

Steps == {"insert", "update", "write", "enable", "move", "rotate", "delete",
          "find", "upsert", "load", "swap"}

Request ==
  [id      : RequestIds,
   op      : Operations,
   step    : Steps,
   cur     : Row \cup {None},     \* the row GetByID found first
   read    : Row \cup {None},     \* the row the next write was computed from
   patch   : Patch \cup {None},
   entries : Seq(Entry),          \* entries of an import still to come
   rows    : SUBSET Row,          \* what ListEnabled returned
   loaded  : Nat,                 \* history: the table version of rows
   wrote   : Nat]                 \* history: the version of its last write, or 0

ASSUME RosterAssumptions ==
  /\ None \notin Row \cup Patch
  /\ None \notin Regions \cup Platforms \cup Cadences \cup Switch \cup Provisions
  /\ UnknownRegion \notin Regions \cup {None}
  /\ Minted \subseteq Tokens
  /\ NoOverride \in Cadences
  /\ Patches \subseteq Patch
  /\ Files \subseteq Seq(Entry)
  /\ Manifest \in Seq(Provisioned)
  /\ MaxAgents \in Nat
  /\ MaxWrites \in Nat

VARIABLES
  hub,        \* "down", "provisioning" or "up"
  agents,     \* the agents table
  lastId,     \* AUTOINCREMENT: ids are never given twice
  registry,   \* the rows of the registry Provider.Current returns
  requests,   \* admin requests in flight
  manifest,   \* manifest entries not applied yet while the hub boots
  issued,     \* history: every token hash the table has held
  writes,     \* history: the version of the table
  reflects,   \* history: the version the registry was loaded from
  excuses     \* history: why the registry may be out of date since the boot

vars == <<hub, agents, lastId, registry, requests, manifest, issued, writes,
          reflects, excuses>>

process == <<hub, manifest>>

\* ListEnabled, and what New keeps of it.
Enabled(table) == {r \in table : r.enabled = "on"}

RowsWith(n) == {r \in agents : r.id = n}

Find(n) == IF RowsWith(n) = {} THEN None ELSE CHOOSE r \in RowsWith(n) : TRUE

Init ==
  /\ hub = "down"
  /\ agents = {}
  /\ lastId = 0
  /\ registry = {}
  /\ requests = {}
  /\ manifest = <<>>
  /\ issued = {}
  /\ writes = 0
  /\ reflects = 0
  /\ excuses = {}

-----------------------------------------------------------------------------
\* One statement on the table: an INSERT, UPDATE or DELETE.
Table(new) ==
  /\ writes < MaxWrites
  /\ agents' = new
  /\ writes' = writes + 1
  /\ issued' = issued \cup {r.token : r \in new}

Insert(entry) ==
  /\ lastId < MaxAgents
  /\ lastId' = lastId + 1
  /\ Table(agents \cup
       {[id |-> lastId + 1, token |-> entry.token, region |-> entry.region,
         platform |-> entry.platform, cadence |-> entry.cadence,
         enabled |-> entry.enabled, provision |-> entry.provision]})

\* The UNIQUE columns, apart from row n itself.
TokenTaken(token, n) == \E r \in agents : r.id # n /\ r.token = token

ProvisionTaken(provision, n) ==
  \E r \in agents : r.id # n /\ r.provision = provision /\ provision # None

Fresh(token) == token \in Minted \ issued

-----------------------------------------------------------------------------
Incoming(id, op, step) ==
  [id |-> id, op |-> op, step |-> step, cur |-> None, read |-> None,
   patch |-> None, entries |-> <<>>, rows |-> {}, loaded |-> 0, wrote |-> 0]

Arrive(request) ==
  /\ hub = "up"
  /\ \A r \in requests : r.id # request.id
  /\ requests' = requests \cup {request}
  /\ UNCHANGED <<process, agents, lastId, registry, issued, writes, reflects,
                 excuses>>

\* The handlers that open with GetByID, and answer 404 when it finds nothing.
ArriveFor(id, op, step, patch, n) ==
  /\ Find(n) # None
  /\ Arrive([Incoming(id, op, step) EXCEPT !.cur = Find(n), !.patch = patch])

ArriveImport(id, entries) ==
  Arrive([Incoming(id, "import", IF entries = <<>> THEN "load" ELSE "find")
            EXCEPT !.entries = entries])

Become(r, next) ==
  /\ requests' = (requests \ {r}) \cup {next}
  /\ UNCHANGED <<process, registry, reflects, excuses>>

Goto(r, step) == Become(r, [r EXCEPT !.step = step])

\* The same after a write of its own.
Wrote(r, step) == Become(r, [r EXCEPT !.step = step, !.wrote = writes + 1])

\* The handler returns early; what it wrote stays, and no Reload follows.
Abandon(r, excuse) ==
  /\ requests' = requests \ {r}
  /\ excuses' = IF r.wrote > 0 THEN excuses \cup {excuse} ELSE excuses
  /\ UNCHANGED <<process, agents, lastId, registry, issued, writes, reflects>>

\* AgentsRepo.Create, with a token minted for it.
Create(id, token, region, platform) ==
  /\ hub = "up"
  /\ \A r \in requests : r.id # id
  /\ Fresh(token)
  /\ Insert([token |-> token, region |-> region, platform |-> platform,
             cadence |-> NoOverride, enabled |-> "on", provision |-> None])
  /\ requests' = requests \cup
       {[Incoming(id, "create", "load") EXCEPT !.wrote = writes + 1]}
  /\ UNCHANGED <<process, registry, reflects, excuses>>

-----------------------------------------------------------------------------
\* The two statements of AgentsRepo.Update.
UpdateRead(r) ==
  /\ r.step = "update"
  /\ Become(r, [r EXCEPT !.step = "write", !.read = Find(r.cur.id)])
  /\ UNCHANGED <<agents, lastId, issued, writes>>

Or(field, old) == IF field # None THEN field ELSE old

AfterWrite(r) == IF r.patch.enabled # None THEN "enable" ELSE "move"

UpdateWrite(r) ==
  /\ r.step = "write"
  /\ IF r.read = None
       THEN /\ Goto(r, AfterWrite(r))
            /\ UNCHANGED <<agents, issued, writes>>
       ELSE /\ Table({IF a.id = r.cur.id
                        THEN [a EXCEPT
                                !.cadence = Or(r.patch.cadence, r.read.cadence),
                                !.platform = Or(r.patch.platform, r.read.platform)]
                        ELSE a : a \in agents})
            /\ Wrote(r, AfterWrite(r))
  /\ UNCHANGED lastId

SetEnabled(r) ==
  /\ r.step = "enable"
  /\ Table({IF a.id = r.cur.id THEN [a EXCEPT !.enabled = r.patch.enabled] ELSE a
              : a \in agents})
  /\ Wrote(r, "move")
  /\ UNCHANGED lastId

\* changeAgentRegion, for a region that is not the one the handler found first.
ChangeRegion(r) ==
  /\ r.step = "move"
  /\ IF r.patch.region \in {None, r.cur.region}
       THEN /\ Goto(r, "load")
            /\ UNCHANGED <<agents, issued, writes>>
       ELSE /\ r.patch.region # UnknownRegion
            /\ Table({IF a.id = r.cur.id
                        THEN [a EXCEPT !.region = r.patch.region] ELSE a
                        : a \in agents})
            /\ Wrote(r, "load")
  /\ UNCHANGED lastId

\* It answers 400 to a region it does not know, the patch being half applied.
RefuseRegion(r) ==
  /\ r.step = "move"
  /\ r.patch.region = UnknownRegion
  /\ Abandon(r, "refusal")

\* Mutant: regenToken without its Reload.
SetTokenHashOnly(r) ==
  /\ r.step = "rotate"
  /\ \E token \in Minted :
       /\ Fresh(token)
       /\ Table({IF a.id = r.cur.id THEN [a EXCEPT !.token = token] ELSE a
                   : a \in agents})
  /\ requests' = requests \ {r}
  /\ UNCHANGED <<process, lastId, registry, reflects, excuses>>

\* regenToken.
SetTokenHash(r) ==
  /\ r.step = "rotate"
  /\ \E token \in Minted :
       /\ Fresh(token)
       /\ Table({IF a.id = r.cur.id THEN [a EXCEPT !.token = token] ELSE a
                   : a \in agents})
  /\ Wrote(r, "load")
  /\ UNCHANGED lastId

Delete(r) ==
  /\ r.step = "delete"
  /\ Table(agents \ RowsWith(r.cur.id))
  /\ Wrote(r, "load")
  /\ UNCHANGED lastId

\* The two statements of AgentsRepo.UpsertByTokenHash, for every entry of the file.
FindByTokenHash(r) ==
  /\ r.step = "find"
  /\ LET found == {a \in agents : a.token = Head(r.entries).token}
     IN  Become(r, [r EXCEPT
           !.step = "upsert",
           !.read = IF found = {} THEN None ELSE CHOOSE a \in found : TRUE])
  /\ UNCHANGED <<agents, lastId, issued, writes>>

\* What the table refuses: an INSERT of a taken value, or an UPDATE to one of a row
\* that is still there; the token hash is not updated.
Conflicts(r) ==
  LET entry == Head(r.entries)
  IN  IF r.read = None
        THEN TokenTaken(entry.token, 0) \/ ProvisionTaken(entry.provision, 0)
        ELSE RowsWith(r.read.id) # {} /\ ProvisionTaken(entry.provision, r.read.id)

Upsert(r) ==
  /\ r.step = "upsert"
  /\ ~Conflicts(r)
  /\ LET entry == Head(r.entries)
         rest  == Tail(r.entries)
     IN  /\ IF r.read = None
              THEN Insert(entry)
              ELSE /\ Table({IF a.id = r.read.id
                               THEN [a EXCEPT !.region = entry.region,
                                              !.platform = entry.platform,
                                              !.cadence = entry.cadence,
                                              !.enabled = entry.enabled,
                                              !.provision = entry.provision]
                               ELSE a : a \in agents})
                   /\ UNCHANGED lastId
         /\ Become(r, [r EXCEPT !.step = IF rest = <<>> THEN "load" ELSE "find",
                                !.entries = rest, !.wrote = writes + 1])

\* A UNIQUE column refuses the entry, the ones before it being imported.
RefuseEntry(r) ==
  /\ r.step = "upsert"
  /\ Conflicts(r)
  /\ Abandon(r, "refusal")

-----------------------------------------------------------------------------
\* Mutant: a reload that finds another one under way shares its rows.
LoadShared(r) ==
  /\ r.step = "load"
  /\ LET others == {q \in requests : q.step = "swap"}
         source == CHOOSE q \in others : TRUE
     IN  Become(r, IF others = {}
           THEN [r EXCEPT !.step = "swap", !.rows = Enabled(agents),
                          !.loaded = writes]
           ELSE [r EXCEPT !.step = "swap", !.rows = source.rows,
                          !.loaded = source.loaded])
  /\ UNCHANGED <<agents, lastId, issued, writes>>

\* Provider.Reload: the rows are read, and then the pointer is exchanged.
Load(r) ==
  /\ r.step = "load"
  /\ Become(r, [r EXCEPT !.step = "swap", !.rows = Enabled(agents),
                         !.loaded = writes])
  /\ UNCHANGED <<agents, lastId, issued, writes>>

\* After the exchange the handler answers.
Swap(r) ==
  /\ r.step = "swap"
  /\ registry' = r.rows
  /\ reflects' = r.loaded
  /\ excuses' = IF r.loaded < reflects THEN excuses \cup {"overtaken"} ELSE excuses
  /\ requests' = requests \ {r}
  /\ UNCHANGED <<process, agents, lastId, issued, writes>>

\* A statement fails: 500.
Fail(r) ==
  /\ r.step # "swap"
  /\ Abandon(r, "fault")

-----------------------------------------------------------------------------
\* The process dies, or gives up booting.
Crash ==
  /\ hub # "down"
  /\ hub' = "down"
  /\ registry' = {}
  /\ requests' = {}
  /\ manifest' = <<>>
  /\ UNCHANGED <<agents, lastId, issued, writes, reflects, excuses>>

Boot ==
  /\ hub = "down"
  /\ hub' = "provisioning"
  /\ manifest' = Manifest
  /\ UNCHANGED <<agents, lastId, registry, requests, issued, writes, reflects,
                 excuses>>

(***************************************************************************)
(* ApplyProvisioning, one entry: UpsertProvisioned updates the agent of    *)
(* that provision id or creates it.  Nothing else runs, and an entry the   *)
(* table refuses ends the boot (Crash).                                    *)
(***************************************************************************)
Provision ==
  /\ hub = "provisioning"
  /\ manifest # <<>>
  /\ manifest' = Tail(manifest)
  /\ LET entry == Head(manifest)
         known == {a \in agents : a.provision = entry.provision}
     IN  IF known = {}
           THEN ~TokenTaken(entry.token, 0) /\ Insert(entry)
           ELSE /\ \A a \in known : ~TokenTaken(entry.token, a.id)
                /\ Table({IF a \in known
                            THEN [a EXCEPT !.token = entry.token,
                                           !.region = entry.region,
                                           !.platform = entry.platform]
                            ELSE a : a \in agents})
                /\ UNCHANGED lastId
  /\ UNCHANGED <<hub, registry, requests, reflects, excuses>>

\* NewProvider; then the server listens.
Serve ==
  /\ hub = "provisioning"
  /\ manifest = <<>>
  /\ hub' = "up"
  /\ registry' = Enabled(agents)
  /\ reflects' = writes
  /\ excuses' = {}
  /\ UNCHANGED <<agents, lastId, requests, manifest, issued, writes>>

Handle(r) ==
  \/ UpdateRead(r)
  \/ UpdateWrite(r)
  \/ SetEnabled(r)
  \/ ChangeRegion(r)
  \/ RefuseRegion(r)
  \/ SetTokenHash(r)
  \/ Delete(r)
  \/ FindByTokenHash(r)
  \/ Upsert(r)
  \/ RefuseEntry(r)
  \/ Load(r)
  \/ Swap(r)
  \/ Fail(r)

Next ==
  \/ \E id \in RequestIds :
       \/ \E t \in Minted, region \in Regions, p \in Platforms :
            Create(id, t, region, p)
       \/ \E n \in 1 .. lastId :
            \/ \E patch \in Patches : ArriveFor(id, "patch", "update", patch, n)
            \/ ArriveFor(id, "rotate", "rotate", None, n)
            \/ ArriveFor(id, "delete", "delete", None, n)
       \/ \E entries \in Files : ArriveImport(id, entries)
  \/ \E r \in requests : Handle(r)
  \/ Crash
  \/ Boot
  \/ Provision
  \/ Serve

Spec == Init /\ [][Next]_vars

-----------------------------------------------------------------------------
\* The state is well formed; token hashes, ids and provision ids are unique.
TypeOK ==
  /\ hub \in {"down", "provisioning", "up"}
  /\ agents \subseteq Row
  /\ \A a, b \in agents :
       \/ a.id = b.id
       \/ a.token = b.token
       \/ a.provision = b.provision /\ a.provision # None
       => a = b
  /\ lastId \in Nat
  /\ \A a \in agents : 0 < a.id /\ a.id <= lastId
  /\ registry \subseteq Row
  /\ requests \subseteq Request
  /\ manifest \in Seq(Provisioned)
  /\ issued \subseteq Tokens
  /\ writes \in Nat
  /\ reflects \in Nat
  /\ excuses \subseteq {"refusal", "fault", "overtaken"}

\* Agents are authenticated, counted and scheduled by the registry: it is out of
\* date only while a handler that changed the table is still to reload it.  Excused
\* are the known ways out of that rule since the boot: a handler that returned early,
\* and a reload that overtook another (Provider.Reload is not serialised).
StaleOnlyWithCause ==
  hub = "up" /\ excuses = {} /\ registry # Enabled(agents) =>
    \E r \in requests : r.wrote > 0

\* When a deletion or a rotation is answered, the agent's old token opens nothing any
\* more, whatever other handlers were doing to the same agent: each reads the table
\* for the registry after its own write.
RevokedWhenAnswered ==
  [][\A r \in requests :
       Swap(r) /\ r.op \in {"rotate", "delete"} =>
         \A a \in registry' : ~(a.id = r.cur.id /\ a.token = r.cur.token)]_vars

-----------------------------------------------------------------------------
\* "Provider holds the current registry and rebuilds it on roster changes": with no
\* handler in flight and none abandoned, the registry is the table's.
RegistryFollowsTable ==
  hub = "up" /\ requests = {} /\ excuses \subseteq {"overtaken"} =>
    registry = Enabled(agents)

=============================================================================
