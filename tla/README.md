# A TLA+ development of the Bloodpoint Incentive Hub

The program is a hub in Go (`cmd/hub`, `internal/`), agents in TypeScript
(`src/agent`) and a dashboard (`src/web`). Agents poll a game service for the
bloodpoint incentives of one (platform, region) pair, called a *group* here, and
report them to the hub. The hub keeps the latest reading of every group in memory,
a history in SQLite, and streams the incentives to dashboards. Administrators edit
the roster of agents and the accounts.

The modules are translated from the code. The repository's guide (`docs/`), its
comments and its tests are used as statements of what the program promises, and
where the code does something else a run shows it (*Disagreements* below).
Paths in this file are relative to the repository root.

## The system

| Component | Code | State | Operations | Modelled by |
| --- | --- | --- | --- | --- |
| Reading store | `internal/store`, `internal/cache`, `internal/report`, `internal/db/readings.go` | tile and refresh time of each group, listeners, the readings table | `Ingest`, `Evict`, `Hydrate`, prune and delete, `OnChange`/`emitChange` | `ReadingStore`, `LatestTile` |
| Report limiter | `internal/httpapi/agent.go` | time of the last accepted report of each key | `allowReport` | `ReportLimiter` |
| Agent roster | `internal/db/agents.go`, `internal/registry`, `internal/httpapi/admin_agents*.go` | the agents table, the registry pointer | create, patch, rotate, delete, import, `Reload`, provisioning | `AgentRoster` |
| Incentive stream | `internal/httpapi/stream.go`, `internal/store` | slots, listeners, a channel and the last payload of each connection | subscribe, push, stale tick, disconnect | `IncentiveStream`, `LiveFeed` |
| Orchestrator, cadence | `internal/orchestrator`, `internal/cadence` | none: functions of the registry and of a refresh time | `AssignmentFor`, `ComputePhaseOffsets`, `ResolveCadence` | `Orchestrator`, `AgentCadence` |
| Accounts, sessions, settings | `internal/auth`, `internal/db/auth.go`, `internal/httpapi/authroutes*.go`, `admin_users.go` | users, sessions, factors, settings, login throttle | setup, login in steps, policy, user administration, factors and devices | `UserAccounts` (several users), `SignIn` and `AccountPage` (one account) |
| Agent polling | `src/agent/poll`, `schedule.ts`, `reporter.ts`, `hubClient.ts`, `config.ts`, `src/common/cadence.ts` | assignment, backoff, failure counts, health, bounds | `cycle`, `recordReal`, `enforceRange`, `triggerFatal`, `shutdown`, `evaluateExpression` | `AgentPoller`, `BuildTrial`, `AgentCadence`, `CadenceExpression` |
| Version resolver | `src/agent/version` | active, last working and candidate build; a file | `init`, `refreshFromDiscovery`, `reportPassResult` | `VersionResolver`, `BuildTrial` |
| Steam session | `src/agent/auth` | connection promise, session timer, api-key, login in flight | `connect`, `refreshSession`, `getApiKey`, `teardown` | `SteamSession` |
| Dashboard live data | `src/web/hooks` | event source, reconnect and banner timers, requests under way | open, error, message, switch platform, abort, settle | `LiveIncentives`, `RegionPage` |
| Dashboard views | `src/web/App.tsx`, `components`, `auth`, `i18n`, `hooks/useRoute.ts`, `useViewState.ts`, `useClosestRegion.ts` | route and view, session known to the page, lists and dialogs of the administrators, window of the chart, cached region, language and banners | navigation, redirects, login steps, administration, debounce, detection, choices | `Navigation`, `SignIn`, `AdminPage`, `RegionPage`, `RegisterPage`, `ClosestRegion`, `Preferences` |
| History and forecast, presence, HTTP middleware, docs | | | | not modelled |

How they interact. An agent's `submit-reading` request goes through the token
lookup (registry), the validation, the assignment (orchestrator, which reads the
registry and the store's refresh time), the limiter and `Store.Ingest`. `Ingest`
changes the tile under `ingestMu`, inserts the row after the unlock and then calls
the listeners; a stream's listener puts a token in a channel of capacity one and
the stream's own goroutine reads the store again. An admin handler writes the
agents table and calls `Provider.Reload`, which reads the table and exchanges a
pointer; some handlers also evict a group's tile and orphan or delete its
readings. At boot the hub provisions the roster, builds the registry, hydrates
the store from the table and only then listens. The pages of the dashboard know the
hub by their requests alone: each keeps a copy of what it was last answered.

What is hard. Every request is a goroutine, and each of the paths above is made of
several critical sections or statements, so two requests may cross anywhere between
them. The memory and the table of the hub are written in two steps, and a crash or
a failed insert may come between. Reports are retried and late. Notifications are
lossy by design (a full channel drops the token). The clock of the limiter is read
before its mutex is taken. Handlers read a row in one statement and write it in
another, and return early on a bad field after they wrote another one. In the
browser, answers come in any order, timers and effects outlive what they were set
for, two tabs share a session and a storage, and a visitor goes Back while a page is
still settling.

What makes each component correct:

* store: tiles only move forward; memory and table agree well enough that a restart
  goes unnoticed; the same reading is recorded once; every change is announced;
* limiter: accepted reports are spaced;
* roster: the registry follows the table; a revoked token opens nothing;
* accounts: an administrator who can log in remains; an account that needs a factor
  keeps one, and the one it keeps is one its owner has;
* stream: no stream sleeps on a change, and slots and listeners are given back;
* agent: one that is not stopped for good polls again; a game build that does not work
  is given up for one that did; a bound on the cadence means what it says;
* cadence: polls of an agent are as far apart as its assignment says, those of a group
  are spread, and agent and hub agree on the cadence in the end;
* Steam session: nothing is left once polling has stopped, and failures pass;
* dashboard: the banner tells the truth, what is shown is what was asked for last, and
  both catch up once the hub answers; the guessed region is the nearest of those
  measured; a visitor who keeps trying gets in; a link and the Back button show what
  was left, and no page loads for ever; a choice is kept; administrators see what
  they did, and the only sight of a token is not taken away.

## Modules

Three modules are abstract specifications, which others are shown to implement by a
refinement mapping, on TLC's instances and, as theorems, for every instance. `LatestTile`
is what a client of the store may rely on, without handlers, locks or a database
(`ReadingStore` implements it: `KeepsPromise`). `LiveFeed` is what the streams promise:
each shows its groups all at once, none in a state that was not there yet, and never goes
back (`IncentiveStream`: `StreamsMoveForward`; what a client has `seen` is the last payload
its handler sent). `BuildTrial` is the game builds of an agent: a process tries newer and
newer ones, confirms one that brought data or gives it up for one that did, and leaves a
confirmed one for a newer one only. It gives up none whose data it has, unless in the very
pass that brought it (`AgentPoller` with `VersionResolver`: `TriesBuildsOnce`; what is
`kept` is in memory, in the file, or on its way there, and `useful` is the last build that
brought this process data).

`ReadingStore`: `live` and `refresh` are the two maps of `Store`, `readings` is the
table, `requests` the submit-reading handlers in flight. A request is `accepted`
(validated and let through), then `stored` (the section of `Ingest` under
`ingestMu`, `internal/store/store.go:126-143`), then `recorded` (the insert, which
may fail), and ends after its `emitChange`. `Evict` deletes and announces in two
steps. `Crash` keeps the table alone. `Boot` hydrates from
one newest row of each group, either one when two share an instant, or starts empty
when the query fails, which `main` only logs. `announced` is what a subscriber that
re-reads the store when it is called has seen. `behind` and `ahead` are
history variables: they name the groups for which memory and table are known to
differ, because an insert failed or rows were deleted (`behind`), or because the
tile was evicted or never hydrated (`ahead`). Values are opaque, and the bounds on
percentages that `report.Validate` also applies are left out. Reading ids are left
out too: rows are a set, which is why `NothingRecordedTwice` looks at the inserts.

`ReportLimiter`: a request in `pending` carries the time and the gap read before the
mutex; `lastReport` is the limiter's map, and `granted` remembers what it forgets.

`AgentRoster`: a request is the handler with its local variables (`cur`, `read`,
`patch`, `entries`, `rows`); `step` is the statement it executes next. Versions
(`writes`, `loaded`, `wrote`, `reflects`) are history: they say which state of the
table a copy was made of. `excuses` records why the registry may lag. Boot is
`Boot`, one `Provision` per manifest entry, then `Serve`.

`UserAccounts`: the users table under setup, creation, patches and deletions, each a
sequence of statements (`step`), any of which may fail, with restarts and the seeded
administrator. `hadAdmin`, `overtaken` (of a request: the administrators changed after
it had decided) and `raced` (such a request removed one) are history.

`IncentiveStream`: `stage` says where the handler of a connection stands; `signal`
is its channel; a push is `BeginPush`, one `Read` per group, `Built`, then
`Deliver` or `Skip`. Writers are the goroutines in `emitChange`: `written`, then
`calling` the listeners they copied. A group shows a version, so that "up to date"
is an inequality, and `told` is the version announced last.

`VersionResolver` and `AgentPoller`: one agent process and its restarts. The resolver
has no loop of its own, so its methods are operators over its fields (`active`,
`candidate`, `verified`, `lastWorking`, `rejected`), the state file (`disk`) and the
writes nobody awaits (`writing`); `AgentPoller` calls them. `at` is the `await` where
the process stands, and an action runs from one `await` to the next, as JavaScript
does. A request to the game service is one step with four outcomes (real data, a
fallback, an error, an error no retry helps); the two multiplications of the backoff in
one pass are one factor, 2 for a fallback, 3 for a network error and 4 for an error of
the service. A report that was taken may still end badly: with an assignment out of the
agent's range, which is fatal, or with one of its bounds that has no value at the refresh
time just shown (`BoundFails`), which `queryRegion` catches like a network error, so that
the pass counts as one without data. `outcome`, `answered`, `brought` (the last build that
brought this process data) and `fellBack` (the builds it was answered a fallback for) are
history.

`SteamSession`: what one request of that loop does on its way. `conn` is `connectPromise`,
which a failed log-on leaves rejected; `timer` is `refreshTimer`; `pc` is the `await` where
the single caller stands. Tickets and api-keys are opaque: what matters is how many session
cycles they have outlived, and that number is what `key` and `ticket` hold. The library's
own events (`SteamEnds`, `Relogin`) come at any time; the Epic stub and the mode that
brings its own key are two outcomes of a request. `AgentPoller` and `SteamSession` share
no variable: the loop sees of a session only that a request ends, and how.

`Orchestrator` and `AgentCadence`: the assignment is a function of the refresh time the
hub knows, so an agent's assignment is kept as that refresh time (`basis`), and the
sleep until the next poll (`wait`) is computed from it as `schedule.ts` does, on a
clock that ticks. `service` is what the game shows and `refresh` what the hub makes of
it, in whole seconds (`Learnt`). A poll is one action: `Refused` (429), `Reported`,
`Rejected` (the reply is out of the agent's range), `ReportLost` or `PollWithout`; the
hub's part of it (`Take`) charges the limiter and learns the refresh time after the
reply was computed. `regular` is history: whether the two polls a gap is measured
between are both at slots of one assignment. All agents of the group have the same
cadence here, and agents of other groups do not matter to them.

`CadenceExpression`: the agent's bounds as they are written. One side is the evaluator
of `src/common/cadence.ts`, position by position, on a text into which the refresh time
was put by its digits. The other is the grammar its comment documents
(`src/common/cadence.ts:6`), read on the text as it was written, as sets of values of its
sums, products and atoms: an atom is a numeral, with one point at most and a digit, a
placeholder, which stands for the refresh time whatever is next to it, or parentheses.
`LoadBound` tries a bound as the start does, and `EvaluateBound` evaluates it with an
observed refresh time. Arithmetic is of fractions. A numeral of two points, and digits
next to a placeholder, are no expression of the grammar (`Garbled`); `RefusesGarbled` shows
that the code takes some for one.

`LiveIncentives`: `useIncentives.ts`, one effect with an `EventSource`, the timer that
reopens it and the timer of the banner (`source`, `reopen`, `grace`), over a hub that goes
down and comes back. `RegionPage`: `RegionHistoryPage.tsx` and its three fetching hooks; a
request keeps what it was made for (`want`) and whether its effect was cleaned up
(`aborted`), and requests are answered in any order. `RegisterPage`: the coverage request
of the platform shown, aborted by the next one. `ClosestRegion`: the workers of
`regionLatency.ts`, the deadline, the day-long cache, the pin, and a detection that was
aborted and has not ended (`orphan`). `SignIn`: the redirects, the session the page knows
(`me`) beside the session the hub has, the pages' one request at a time, and the hub's
handlers with what an administrator, an expiry and a restart do meanwhile. The handlers
that store or check a factor ignore the error of `UpgradeToMfa`, or stop before it
(`UpgradeFails`). A passkey is enrolled in one step, whose challenge is not modelled.
After a logout the page asks who the visitor is, whatever the answer, and goes home.

`Navigation`: one tab between its address bar and its pages. `trail` is the history of
the browser, each entry with its route and query; `app` is the last render; `late` is a
route an effect has set and no render has shown yet, and `effects` those still to run.
After a click or a traversal React renders and runs the effects at once; what an answer
or an effect asks for is rendered later, and the visitor may act in between. The bare root
is taken for the default platform's home: the `replaceState` that writes its path, and
drops the query, is left out. Which links
there are on which page is part of the module (`Offers`). `carried` and `overtaken` are history.

`AdminPage`: `onHub` is a version of each of the three lists, `shown` what the page has,
`asks` the requests its buttons sent, `dialog` the one dialog. A load is three requests
answered apart. The set of roles that need a second factor is kept as a set, since the
page sends all of it. `told`, `chosen`, `hurried` and `blind` are history. `AccountPage`:
two pages of one session over the factors of its account; `pending` and `challenge` are
what the session holds in memory, `request` what each page waits for. Its lists are
loaded unordered and left out. `Preferences`: what `localStorage` holds, what each tab
shows, and the guess of the language from the browser's tags.

The `MC*` modules give the constants their values, and the `*Proofs` modules hold
the theorems.

## Runs

| Run | Instance | Distinct states |
| --- | --- | --- |
| `reading_store` | store: one group, two requests, four readings (two of the same instant); limiter: two keys, two requests, gaps 1 and 3, one key remembered at most, TTL 2 | 1.1 million |
| `administration` | roster: two handlers, two agents, four table writes, a manifest of one; users: two requests, three users; administrators' page: two requests, two changes, two loads, one role; account: two pages, two secrets, two passkeys; symmetry in handlers | 1.9 million |
| `roster_race` | the roster, smaller (violation) | |
| `stream` | one slot, two writers, two changes; one connection to two groups, or two connections to one | 36 thousand |
| `agent_poller` | loop: three builds; Steam session: the three modes, with and without a shared secret; bounds: see below | 401 thousand |
| `version_guard` | the loop, two builds (violation) | |
| `cadence_grammar` | the bounds of `agent_poller` (violation) | |
| `steam_stuck` | the Steam session alone, under fairness (violation) | |
| `agent_cadence` | two agents, refresh times of a whole number of seconds and with a fraction | 427 thousand |
| `cadence_reply` | one agent with the default expressions on both sides (violation) | |
| `dashboard` | seven parts: two platforms; a region with late readings and one without; three regions, four latencies; every kind of account; a history of two entries; two tabs, two tags, two choices | 323 thousand |
| `login_stuck` | signing in alone (violation) | |

Runs of several parts. `reading_store`, `administration`, `stream`, `agent_poller` and
`dashboard` each check several components that share no variable, or (`stream`) two
instances of one. Their `MC` module has a variable `part`; a behaviour
runs one part and leaves the others in one of their initial states, so the states of the
run are the sum and not the product of those of its parts, and what holds of a part in the run holds of
its own specification. Fairness is stated part by part, and the liveness properties
are conditional on the part that runs. The account page is two parts: its factors, and
the rest of it.

Why these bounds are enough.

* `reading_store`: groups never touch each other's
  tile, refresh time or rows, so one group is enough for every property that
  is not about several groups; two requests in flight are what a race takes; the
  readings are older than, equal to and newer than each other, one of them too far
  ahead at first and acceptable a tick later; a skew, an age and a retention of one
  tick with a clock of three let a reading become acceptable, expire and be pruned. The
  limiter's TTL is shorter than the larger gap, as in the code where the minimum of the
  cadence is above 75 minutes (the gap is 80 % of it, the TTL an hour), so that forgetting
  a key within its gap does happen, within five instants;
  two keys with room for one make the map overflow.
* `administration`: four writes allow a create and three changes by two handlers that
  overlap, the import file meets the manifest's provision id, and a patch has a good and a
  bad half. With three users one administrator may be removed while another is promoted,
  and two may remove each other. On the administrators' page two requests and two loads
  are what it takes to answer in another order, and one role what it takes to lose a
  click: the roles of the set are toggled one by one, and a click that is lost, is lost by
  a stale set, whatever else is in it. Two pages, two secrets and two passkeys make the
  replacement of a factor cross another, and the last factor be one of either kind.
* `stream`: one part has a connection that watches two groups, so that payloads tear, with
  a writer and a group of the other platform; in the other two
  connections compete for one slot while two writers cross. Two changes are
  what it takes for the second to come while the first is being pushed.
* `agent_poller`: three builds are one that works, its replacement, which
  may be rejected, and a later one; restarts and bad passes are unbounded. The bounds on
  the cadence are all texts of up to five characters over seven (a digit, the point, the placeholder,
  an operator of each precedence, the parentheses) and of up to three over twelve, and some longer
  ones: five characters are two operators with their operands, which is where precedence
  and associativity show, and the longer ones have parentheses around an operation. One
  digit of a refresh time stands for hundreds of seconds.
* `agent_cadence`: two agents are what spacing is about, and the refresh times are one
  that is a whole number of seconds and one with a fraction, below the hard minimum;
  seconds stand for the minutes of the code (the hard minimum is 300 s), and the cap on the
  sleep cuts the longest of them, as 20 minutes cut a cadence of 20 to 25. The clock is
  modulo a multiple of the periods, which is all `schedule.ts` sees of it (`Day`).
  `LongAgo` is longer than any gap the limiter asks for.
* `dashboard`: two platforms are a switch and its return; late, overlapping and aborted
  requests need two of each kind. The four latencies are two pairs of which one is within
  the margins of 12 ms and 115 % of each other and one is not; two workers for three
  regions leave one waiting. A history of two entries is one to leave and one to come back
  to, and drops a third. Of the tags one has a catalogue of its own script (`zh-hk`) and one
  has none (`eo`).

What each run shows:

* `reading_store`: `QuietRestartInvisible` (a restart between two bursts shows the tiles
  that were shown), `NothingRecordedTwice`, `AnnouncedWhenQuiet`, `KeepsPromise`
  (`ReadingStore` implements `LatestTile`: tiles only move forward), `ReportsSpaced`.
* `administration`: `StaleOnlyWithCause` (the registry lags only while a handler is to
  reload it), `RevokedWhenAnswered`, `AdminRemainsUnlessRaced`, `ListsShowOwnActions`,
  `RolesAsClicked`, `TokenStaysUntilRead`, `PhoneHasSecret`, `LastFactorStays`.
* `stream`: `NoLostUpdate`, `NothingLeftBehind`, `StreamsMoveForward` (`IncentiveStream`
  implements `LiveFeed`), and under `FairSpec` `AnnouncedShown`, `SilentChangeShown`,
  `SlotComesBack`.
* `agent_poller`: `TriesBuildsOnce` (`AgentPoller` implements `BuildTrial`),
  `LoggedOffOnceStopped`, `BoundMeansWhatItSays`, and under fairness `Recovers`,
  `StopsOnSignal`, `ServesAgain`.
* `agent_cadence`: `GapWithinInterval`, `AgentsSpaced`, `RejectedOnlyWithCause`, and under
  fairness `CadenceLearnt`.
* `dashboard`: `BannerTellsTruth`, `SettledIsCurrent`, `LocatedBest`, `LinkKeepsView`,
  `BackShowsWhatWasLeft`, `ChoiceComesBack`, `CompleteHasFactor`, and
  under fairness
  `LiveCatchesUp`, `PageComesToRest`, `VisitorSignsIn`,
  `PageIsReached`.

Several of them hold only with an exception that the property names. They are
worth reading, because each is something the code does:

* `ahead`, `behind`: an eviction forgets the instant of the tile, so an old reading may
  come back after it; a failed insert is logged and forgotten, so a restart may go back
  in time.
* `TriesBuildsOnce`: a build whose data was just reported is given up in that very pass
  when a bound of the agent has no value at the refresh time it showed (`BoundFails`).
* `excuses`: a reload that overtakes another, or a handler that returns early, leaves
  the registry out of date until the next change.
* `raced`: the guard of the last administrator reads, counts and writes in three
  statements, so two administrators who remove each other at once both succeed.
* `meddled`: an administrator may change what is asked of an account while its session
  lasts, and a choice of policy that is cut short between its statements, or whose upgrade
  of the session fails, leaves the session and the policy apart; a complete session without the factor it should have
  comes of nothing else.
* `overlapped`: likewise two removals from two pages may each find the other's factor,
  and leave an account that must have one with none.
* `blind`: two quick clicks on the roles that need a second factor are two sets made from
  the same list, and the second undoes the first.
* `hurried`: an answer that comes when its dialog was already closed opens or closes
  whatever dialog is there now, a token not yet copied included.
* `carried`: a view kept over a click on the page's own link is no longer in the address.
* `overtaken`: a traversal between a redirect's effect and its render leaves the page on
  "Loading…" until the visitor navigates; the effect does not run again for the same name.
* `rejected = published` in `Recovers`: an agent that gave the newest build up keeps to
  the old one, whether or not that still brings data. And the time `Recovers` speaks of is
  one in which the agent's bounds have a value at the refresh times shown: with a bound that
  has none, every pass counts as bad (`BoundFails` in `Disturbed`), and the status stays
  degraded or paused although readings are reported.
* `BoundMeansWhatItSays`: a bound that divides by an expression of the refresh time may
  pass the start, which tries 300 alone, and fail at a later refresh time. Garbled bounds
  mean nothing in the grammar; what they do is `cadence_grammar`.
* `GapWithinInterval` holds between two polls at slots
  of an unchanged assignment only: after the immediate first poll, a backoff, a change of
  the assignment or a sleep cut at `MAX_SLEEP_MS` (`src/agent/poll/poller.ts:14`), the next
  slot may be nearer than the minimum; with a cadence longer than that cap an agent polls
  off its grid.
* `CadenceLearnt` is about the end: a 429 carries no assignment, so an agent whose
  cadence has become too fast keeps it until a report is accepted.

## Fairness

What is only about safety needs none. `stream` assumes what the Go runtime gives
(`SchedulerFairness`): a goroutine that can run does run (weak fairness of `Emit`,
`Subscribe`, `Push`, `Release`); a send does not block forever, since
`internal/httpapi/stream.go` sets a write deadline per message; and `select` picks
at random among the ready cases, so a case that is ready again and again is
taken in the end (strong fairness of `TakeSignal` and `Unsubscribe`). Browsers,
writers and the ticker are not assumed to do anything: `SilentChangeShown` has the
ticker as its hypothesis, because a change nobody announces reaches a stream by it alone.

`agent_poller` assumes for the loop (`FairSpec`) that timers fire, that the version
refresh falls due
again, and that a request ends: those to the hub and to the game service have a
deadline (`src/agent/hubClient.ts:80`, `src/agent/bhvr/client.ts:119`), the
runtime bounds the other HTTP requests, and a login to Steam, which has no deadline in
this code, is assumed to end. Nothing is assumed of the outcomes: what `Recovers` says,
it says of a time after which errors, fallbacks for the newest build, missed discoveries
and new builds have stopped (`Disturbed`). For the session (`SteamFairSpec`) it assumes that
the loop keeps asking (strong fairness of `Fetch`, which stops and starts with the
pauses, weak of `PassGate`), that every `await` ends, and that the cycle's timer, which an
operation under way may postpone, does not find one every time (strong fairness of `Cycle`).

`agent_cadence` assumes (`FairSpec`) that time passes and that a poll that is due is
made, which is the loop of `Poller.run`; what kind of poll is not assumed, and the
property speaks of a time after which neither the refresh time nor the hub changes and
polls bring data (`Disturbed`).

`dashboard` assumes that timers fire, that effects run and renders are made, that requests
are answered or fail, and that the browser notices a dead connection (`LiveFairness`,
`PageFairness`, `NavFairness`). Of the visitor it assumes something in `SignInFairness` alone:
one who wants to get in submits what the page asks for and reloads a page that
has nothing left to offer (`VisitorSignsIn` is about such a visitor, in a time after
which administrators, expiries and restarts leave the account alone). `PageIsReached`
assumes nothing of the visitor.

## Proofs

All theorems are about the unbounded systems: any sets of agents, groups, keys,
connections, handlers, builds, platforms, regions, pages, and any values of the bounds.
They assume what the named `ASSUME`s say, which TLC evaluates on every run. Most are typing
facts (`StoreAssumptions`, `LimiterAssumptions`, `RosterAssumptions`,
`ResolverAssumptions`, `AccountAssumptions`, `OrchestratorAssumptions`, `PageAssumption`,
`NavigationAssumptions`; `StreamAssumptions`, with a finite set of connections, so that
they can be counted). What the others add is this:

* `CadenceAssumptions`: the bounds of the clock and of `LongAgo` are long enough, and a
  tick is fine enough for every period.
* `ClosestAssumption`: the ratio of the margins is at least 100 percent (the code's is
  1.15, `useClosestRegion.ts`), without which the fastest region would not be
  within its own margin; regions are probed in one order.
* `PreferencesAssumption`: the key of the language in `localStorage` is no banner's.
* `ButtonsAssumption`: "nothing", the name for a dialog that waits for no request, is no
  request's.

Two theorems have a hypothesis on top: `RoomForAll`, about how many agents a group has, and
`SameExpressions`, an agent whose range is the hub's cadence; see `AgentCadenceProofs`
below. TLC's instance satisfies both.

* `ReadingStoreProofs`. The inductive invariant adds three facts to `TypeOK`:
  `LiveKept` (the tile of a group that is not `behind` is in the table or pending),
  `TableNotAhead` and `PendingNotAhead` (a row, or an insert under way, of a group
  that is not `ahead` is no newer than its tile). `QuietRestartInvisible` alone is
  not inductive: it says nothing while an insert is pending, and the insert must be
  known to bring the tile's row. `NothingRecordedTwice` follows from the strict
  comparison under the mutex, `TileNeverRegresses` and `LockoutBounded` (a reading dated
  in the future keeps a group for no longer than the skew) from their own
  case analysis (the latter needs the same bound for requests in flight), and
  `StoreKeepsPromise` maps each step to a step of `LatestTile` or a stutter.
  `AnnouncedWhenQuiet` is inductive with `TypeOK`: what the store shows and what was told
  differ only in groups a request or an eviction is still to announce. The same module has
  the limiter's: with `GrantsRemembered` (whatever was granted to a key within
  the TTL is in the map, or a later grant of the same key is) `ReportsSpaced` and
  `RefusedOnlyIfEarly` follow.
* `AgentRosterProofs`. `LastWriterPending` (when the table is newer than the
  registry, a handler that wrote at least as late is still in flight, unless excused),
  with `LoadedAfterWrite` and `RegistryAsLoaded`, gives `StaleOnlyWithCause`. `TypeOK`,
  which says that ids, token hashes and the ids of the manifest are unique in the table,
  has an invariant of its own (`KInv`): every token hash in the table is known to have
  been issued and every id to be one given out, so that a new one is nobody's, and no
  statement takes the key of another row. `RevokedWhenAnswered` stands on `Revocations`: from
  its own write on, the old token of a rotation or a deletion is in no row, and
  from its own read on it is not in what was read. Uniqueness is what it takes: no other
  handler can bring a token back.
* `UserAccountsProofs`. `AdminRemainsUnlessRaced` needs `Spared`: a request that stands
  at the write that removes an administrator, and that nobody overtook, leaves another
  one. It is established where the request counts, by a set of more than one element
  having another element, and kept because any change of the administrators marks it as
  overtaken. `Passed` says what a request has checked when it stands at its step.
* `IncentiveStreamProofs`. `Counted` (slots and listeners are those of the running
  handlers) is inductive with `TypeOK`. `NoLostUpdate` needs `Covered`, the same
  claim in the middle of a push, where the payload sent and the one being built
  together must be up to date for the groups already read, and that told versions
  are shown versions (`ToldShown`). `StreamMovesForward` maps each step to a step of
  `LiveFeed` or a stutter; what it needs is that the payload sent, the one being built and
  the store follow one another, group by group, and that a payload is whole when it is
  sent (`Ordered`). That a stream is open is that its handler holds a slot, so the room of
  `LiveFeed` is `Counted` again.
* `AgentPollerProofs`. `HealthTellsTruth` needs `Telling` (only a signal or a fatal
  error aborts, and the status is an error nowhere but at the end). The refinement of
  `BuildTrial` needs `ReportsProven` (a report under way is about data the active build has
  just brought), and both need `Fresh` (a process that starts remembers nothing). That no
  build is given up whose data the process has, but in the pass that brought it, is
  `Unchallenged`: a build still on trial outside that pass although its data came has
  nothing it could be given up for, because a pass with data confirms it, and one whose
  report goes wrong gives it up at once where there is another. It stands on `Origins`: what
  is active is the candidate or the last working build, and what brought data last is the
  latter or no newer than the former. The lemmas go
  method by method through the resolver: a pass confirms, gives up or changes nothing, a
  discovery tries a newer build or changes nothing, and a write may only lose.
  `PollerFallsBackOnProven` (a build that is fallen back to has brought data) and
  `PollerSettledStays` (a process does not go back from the build it settled on) are then
  consequences of `BuildTrial` alone. `RejectedStaysOut` is
  inductive with `ReadState`'s and `Adopt`'s guards, `BadCyclesSlowDown` with the
  arithmetic of one pass (`Slower`).
  The same module has the Steam session's invariant (`Flags`: what the connection, the timer
  and the place of the caller say of each other; `Ages`: how old a key or a ticket may be
  where): no key outlives its session by more than a cycle, a cycle does not take
  the connection from under an operation, and nothing is left once polling has stopped.
* `AgentCadenceProofs`. `TypeOK` needs that intervals are natural numbers and periods
  positive (`IntervalType`, `WaitType`). `RejectionHasCause` is `RejectedOnlyWithCause` for
  any two expressions of which the maximum is no smaller than the minimum, used on both
  sides: rounding is monotonic, so that equal refresh times give equal bounds and only
  the hard minimum can lift the interval above the ceiling (`SameInRange`).

  `GapWithinInterval` and `AgentsSpaced` stand on `SlotsKept`: an agent that awaits a
  regular poll will make it a whole number of periods and at most its jitter after its
  phase. A sleep leads there (`SleepIsOnSlot`), time keeps it (`TickKeepsSlots`: the clock
  starts again after whole periods), and so does a refusal or a lost answer. The gap then
  is a period, more or less a jitter. Spacing is arithmetic on top: phases are
  shares of the period rounded to whole seconds, so what is left of a share
  (`ShareIsEnough`) has to hold the jitters of both neighbours. It does under `RoomForAll`:
  a group has no more agents than its minimum has seconds, nor more than a third of that
  where the interval leaves a choice. The hard minimum of 300 s
  (`internal/orchestrator/orchestrator.go:14`) is room for a hundred agents of a group, and
  for three hundred polling at fixed instants; with more agents than seconds rounded phases do
  coincide. The instance TLC checks satisfies it.
* `DashboardProofs`, in the order of its parts. `CoverageSettles`: a request under
  way is for the platform that is shown (`AskedIsActive`), since a switch aborts the
  others. `BannerTellsTruth`: the timer that opens the stream again runs only
  while there is none (`ReopensNone`). `SettledIsCurrent`: a request that was not aborted asks for what its hook
  wants (`AskedIsWanted`), which every change of inputs has to keep, because it runs the
  effects that abort. `LocatedBest`: a detection that is over, cut short or not, chose
  among what it measured; the lemmas say that the fastest of a finite set of measures
  exists and is within its own margin. `ChoiceComesBack`: what is stored is the last
  choice (`ChoiceStored`). `LinkKeepsView` and `BackShowsWhatWasLeft` have one invariant
  (`NavIInv`): every entry but the one the tab is at reads as what it showed when it was
  left (`Linked`), a redirect is due only over "Loading" and a view is mirrored only where
  there is one (`EffectsFit`); `ParseOfQuery` says that a link gives its view back, but for
  the blanks around a search. `SignInOneRedirect`: where a redirect leads,
  no other is due, whatever the session says; two pages that sent a visitor to one another
  would also be seen by `VisitorSignsIn`. `CompleteHasFactor` needs the pages as well as the hub (`EnrollsWhereOwed`): the
  choice of policy, which may complete a session, is offered on the enrollment step alone, and
  to an account whose policy is not chosen yet and which owes no factor nothing leads
  there.
* `AccountPagesProofs`. `PhoneHasSecret`: a code under way is for a secret that was scanned
  (`CodesAreScanned`). `LastFactorStays`: what a removal has checked still holds when it
  writes, unless another one has overlapped (`CheckedStillHolds`). `ListsShowOwnActions`:
  a load shows at least what had been told when it began, and the newest is the last of them
  (`LoadsFollow`). `RolesAsClicked`: until a click is made on an old list, there is one set
  on its way at a time, made from the roles there are (`RolesFollow`).
  `TokenStaysUntilRead`: a request that may still change the dialog is the one the dialog waits
  for, if the administrator waits as well (`DialogWaits`).

Five theorems are the safety halves of liveness properties: fairness brings about what is
pending, and these say that something is pending. `SteamCycleAhead` (of `ServesAgain`): once
a log-on has succeeded a cycle is scheduled until polling stops, since every session, also
one that Steam has ended, has its timer (`SessionIsTimed`). `LiveScreenMovesOn`
(`LiveCatchesUp`): a stream that is gone has its timer, a spinner has a stream.
`RegionLoadingIsAsked` (`PageComesToRest`): a hook is loading exactly while a request it
listens to is under way, as two such requests would be one (`OneIsHeard`).
`NavRedirectAhead` (`PageIsReached`): over "Loading" a redirect is due or about to be
shown, since the effect is keyed by where the last render leads (`RedirectIInv`).
`SignInSomethingToDo` (`VisitorSignsIn`): a page that waits for nothing offers something
(`WaitIInv`), if only a reason to load it again, as in the state `login_stuck` shows.

Proved, and no longer checked by a run of its own: the type invariants,
`TileNeverRegresses`, `LockoutBounded`, `RefusedOnlyIfEarly`, `HealthTellsTruth`,
`FallsBackOnProven`, `RejectedStaysOut`, `BadCyclesSlowDown`, `KeyOutlivesOneCycle`,
`CycleSparesOperations`, `CoverageSettles`, and the five invariants above.

Only model-checked: that what is pending happens in the end, which is the rest of the
liveness properties and outside this prover's reach, as is ENABLED; and
`BoundMeansWhatItSays`, whose two sides are recursive, so that it would take induction over
the text. Every other property of the passing runs, invariant, action property or
refinement, is a theorem.

## Disagreements between the code and its documents

* `roster_race`: `Provider.Reload` (`internal/registry/registry.go:147`) reads the
  rows and stores the pointer with no lock around the two. The earlier read may be
  stored last; the registry then misses a change that was answered, a deletion
  of another agent for instance, until the next change or restart. (A handler that revokes
  a token always reads after its own write, so its *own* answer is truthful:
  `RevokedWhenAnswered`. It is a reload that began earlier and is stored later that
  brings the revoked token back.)
* `cadence_reply`: a reply to a report is computed before the report is ingested
  (`internal/httpapi/agent.go:93`), and the agent compares it with its range at the
  refresh time it has just seen. With `%refreshTime%` on both sides, the defaults of
  the guide, an agent gives up on its first report when that refresh time is above the
  bootstrap interval, and again whenever it rises. `RejectedOnlyWithCause` says what else can
  make it give up: the hub keeps whole seconds only (`internal/report/validation.go:82`)
  where the agent rounds, so that 8.6 s are 8 to the one and 9 to the other; and a
  refresh time so short that the ceiling is below the hard minimum.
* `version_guard`: the resolver is told whether a pass had data and not why it had none
  (`src/agent/version/resolver.ts:95`), so a new build whose first pass meets a network
  error, a 429 or a 5xx is rejected like one the service answered with fallbacks. The
  process does not try it again until a newer build appears; a restart does.
* `cadence_grammar`: a bound is accepted that is no expression of numbers, placeholders and
  operators (`src/common/cadence.ts:6`), where `src/common/cadence.test.ts:29` expects
  malformed ones to throw: `1.1.1` is read as 1.1, and the digits of the refresh time
  join those next to the placeholder (line 47), `2%auto%` with 300 being 2300.
* `steam_stuck`: `connect` (`src/agent/auth/steam/steamClient.ts:86`) keeps the promise of
  a log-on that failed, and only a cycle clears it, which only a log-on that succeeded
  schedules. An agent whose first log-on meets a passing trouble asks the same rejected
  promise for ever, where the comment at line 11 says that it is backed off. After one
  success all failures pass (`ServesAgain`).
* `login_stuck`: after a reload between the two factors the login page resumes at the
  second (`src/web/auth/LoginPage.tsx:19`), also when an administrator's reset or a relaxed
  policy has left none to ask for. It then offers nothing, and every route leads back
  to it until the session expires.

Some more have no run of their own.

* A patch with an unknown region answers 400 after two writes and before the reload
  (`internal/httpapi/admin_agents.go:134`), and so does an import that meets a taken
  provision id: the registry then contradicts the table like that of `roster_race`.
  `StaleOnlyWithCause` excuses it by name (`refusal`), and would not hold otherwise.
* When a reading was reported and one of the agent's bounds has no value at the refresh time
  it showed (`600 / (%refreshTime% - 250)` passes the start, and fails at 250),
  `enforceRange` throws an error that is not fatal (`src/agent/reporter.ts:82`), and
  `queryRegion` takes it for a failed request. `reportPassResult` is called "with whether
  any region returned real data" (`src/agent/version/resolver.ts:94`), is told there was
  none, and may give up a build that has just brought some. `BuildTrial` allows for that
  pass (`GiveUp`), and `Recovers` for its repetition.
* The payload that `push` compares (`internal/httpapi/stream.go:77`) contains
  `generatedAt`, so the de-duplication the guide describes
  (`docs/guide/how-it-works.md:86`) drops nothing on the stale tick.
* A view that is kept over a click on the page's own link is not in its address
  (`src/web/hooks/useViewState.ts:38`).

## Not modelled, and why

History, forecast and presence only read or count; the forecast is floating-point
statistics. Middleware, SEO and static files are stateless. Parsing of environment,
YAML and CSV is input handling. The cryptography of accounts is outside what a model
checker can say, and the throttle of logins is a counter whose races cost an attempt.
Close to a third of the dashboard's lines are translations; rendering, icons and charts
have no protocol. These lines are why the modules do not stand for more of the
repository. Within the modelled components, percentage bounds, labels,
listing and export, heartbeats and the presence count are left out because no property
depends on them.

Left out in particular: the choice of an anchor at login (`loginAnchor.ts`); overrides of
single agents, and with them unequal periods (`spacing.go`); the rate gate, which is
not applied to the login's POST and to the anchor's fetch; the lists of the account page,
loaded in no order; the profile and attempt budgets of accounts; the reset of what the page has
received by its Refresh button (`useIncentives.ts:62`) and a failed metadata request that
replaces the metadata by the fallback (`useIncentives.ts:149`), as far as they only
change what is drawn; the region page's refs that survive a switch of platform; the `lang`
of the document; a malformed address that `toRoute` cannot decode. `Navigation` assumes
how React 18 schedules: renders of discrete events are synchronous and flush
their effects, others are not.

What a next step would take, in this order: a `HubCore` that composes roster, store and
limiter, for reports in flight across an eviction, a move of the agent and a change of its
slot; the phases of agents with unequal periods; the choice of the anchor; the buckets of
the history against their definition.
