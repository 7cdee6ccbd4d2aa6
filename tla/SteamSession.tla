----------------------------- MODULE SteamSession -----------------------------
(***************************************************************************)
(* How the agent is let into Steam and the game service: the connection    *)
(* promise, the session cycle and the operations of steamClient.ts, the    *)
(* api-key of steamProvider.ts (or of quick mode, or epic's stub), the two *)
(* caches on the way to a login, and the 401 retry of bhvr/client.ts.      *)
(*                                                                         *)
(* There is one caller, the polling loop, whose requests come one after    *)
(* the other.  The cycle timer, what Steam tells unasked, expiring caches  *)
(* and the shutdown interleave with it at the awaits of input and output,  *)
(* which are the values of pc.  What the loop asks for when, and what it   *)
(* makes of a failure, is in AgentPoller.  A ticket, and the api-key given *)
(* for it, is known by its age: how often the session was cycled since.    *)
(***************************************************************************)
EXTENDS Naturals

Modes == {"steam", "quick", "epic"}

\* Steam is being asked something.
AtSteam == {"connect", "ticket", "depot"}

Waiting == {"gate", "anchor", "login", "call"} \cup AtSteam

VARIABLES
  mode,      \* what createAuth wired; "quick" has Steam for the discovery only
  secret,    \* STEAM_SHARED_SECRET is set
  conn,      \* connectPromise: "none", "opening", "open" or "failed"; it stays open
             \* when Steam ends the session for good: "dead"
  token,     \* a refresh token was captured
  timer,     \* refreshTimer: "off", "cycle", or "retry" in 30 s
  busy,      \* SteamClient.busy
  stopped,   \* SteamClient.stopped
  key,       \* the api-key, as the set of its age, or {}
  fresh,     \* which of "version" and "anchor" are cached
  pc,        \* where the loop waits; "idle" between requests, "halted" after a fatal
             \* error, "ended" by the shutdown
  task,      \* "discover", "fetch", "refresh" after a 401, "refetch" after that
  ticket     \* the ticket of the login in flight, as the set of its age, or {}

loginVars == <<key, fresh, ticket>>
steamVars == <<mode, secret, conn, token, timer, busy, stopped, loginVars, pc, task>>

SteamInit ==
  /\ mode \in Modes
  /\ secret \in BOOLEAN
  /\ conn = "none"
  /\ token = FALSE
  /\ timer = "off"
  /\ busy = FALSE
  /\ stopped = FALSE
  /\ key = IF mode = "quick" THEN {0} ELSE {}
  /\ fresh = {}
  /\ pc = "idle"
  /\ task = "discover"
  /\ ticket = {}

-----------------------------------------------------------------------------
\* A request fails, and the loop will make another one.
Fail ==
  /\ pc' = "idle"
  /\ busy' = FALSE
  /\ ticket' = {}
  /\ UNCHANGED <<mode, secret, token, timer, stopped, key, fresh, task>>

\* Mutant: the session is left to Steam.
ShutdownTimer == stopped' = TRUE /\ timer' = "off" /\ UNCHANGED conn

\* SteamClient.shutdown.
Shutdown == stopped' = TRUE /\ timer' = "off" /\ conn' = "none"

\* scheduleSessionRefresh.
ScheduleRefresh == timer' = IF stopped THEN timer ELSE "cycle"

\* A fatal error: the loop stops, and onFatal disposes of the session.
Halt ==
  /\ pc' = "halted"
  /\ busy' = FALSE
  /\ ticket' = {}
  /\ Shutdown
  /\ UNCHANGED <<mode, secret, token, key, fresh, task>>

\* SteamClient.connect at the start of an operation that goes on at next: a promise
\* that was rejected is returned once more.
AskSteam(next) ==
  \/ conn = "none" /\ conn' = "opening" /\ busy' = TRUE /\ pc' = "connect"
  \/ conn \in {"open", "dead"} /\ busy' = TRUE /\ pc' = next /\ UNCHANGED conn
  \/ conn = "failed" /\ pc' = "idle" /\ UNCHANGED <<conn, busy>>

\* AnchorResolver.getAnchor on the way to next.
Anchored(next) == pc' = IF "anchor" \in fresh THEN next ELSE "anchor"

-----------------------------------------------------------------------------
\* VersionResolver wants the latest build.
DiscoverVersion ==
  /\ pc = "idle"
  /\ mode # "epic"
  /\ "version" \notin fresh
  /\ task' = "discover"
  /\ AskSteam("depot")
  /\ UNCHANGED <<mode, secret, token, timer, stopped, loginVars>>

\* The loop queries its region.
Fetch ==
  /\ pc = "idle"
  /\ pc' = "gate"
  /\ task' = "fetch"
  /\ UNCHANGED <<mode, secret, conn, token, timer, busy, stopped, loginVars>>

\* EpicAuthProvider: every operation throws NotImplementedError, which is fatal.
EpicRefuses == mode = "epic" /\ Halt

\* doFetch after the rate gate: getApiKey, which may mean a login.
PassGate ==
  /\ pc = "gate"
  /\ \/ /\ key # {}
        /\ Anchored("call")
        /\ UNCHANGED <<mode, secret, conn, token, timer, busy, stopped, loginVars, task>>
     \/ /\ key = {} /\ mode = "steam"
        /\ AskSteam("ticket")
        /\ UNCHANGED <<mode, secret, token, timer, stopped, loginVars, task>>
     \/ key = {} /\ EpicRefuses

\* 'loggedOn' for the connection that is waited for.
LoggedOn ==
  /\ conn = "opening"
  /\ conn' = "open"
  /\ ScheduleRefresh
  /\ token' \in {token, TRUE}
  /\ pc' = IF task = "discover" THEN "depot" ELSE "ticket"
  /\ UNCHANGED <<mode, secret, busy, stopped, loginVars, task>>

\* Steam Guard asks for a code, which a refresh token makes unnecessary.
GuardAsks ==
  /\ conn = "opening"
  /\ ~token /\ ~secret
  /\ Halt

\* 'error' with wrong credentials, or with anything else.
LogOnDenied == conn = "opening" /\ Halt

LogOnFails == conn = "opening" /\ conn' = "failed" /\ Fail

\* getWebApiTicketHex: ownership ticket, GC token and registration succeeded; doLogin
\* goes on to the version, cached or in the depot.
TicketIssued ==
  /\ pc = "ticket"
  /\ conn = "open"
  /\ ticket' = {0}
  /\ \/ "version" \in fresh /\ busy' = FALSE /\ Anchored("login")
     \/ "version" \notin fresh /\ pc' = "depot" /\ UNCHANGED busy
  /\ UNCHANGED <<mode, secret, conn, token, timer, stopped, key, fresh, task>>

\* readVersionString through the cache of SteamVersionDiscovery.
DepotRead ==
  /\ pc = "depot"
  /\ conn = "open"
  /\ fresh' = fresh \cup {"version"}
  /\ busy' = FALSE
  /\ \/ task = "discover" /\ pc' = "idle"
     \/ task # "discover" /\ Anchored("login")
  /\ UNCHANGED <<mode, secret, conn, token, timer, stopped, key, ticket, task>>

\* AccessDenied: the account does not own the game.
DepotDenied == pc = "depot" /\ conn = "open" /\ Halt

\* No answer, no token within 10 s, no such file; what a dead session comes to.
SteamFails == pc \in {"ticket", "depot"} /\ Fail /\ UNCHANGED conn

AnchorRead ==
  /\ pc = "anchor"
  /\ fresh' = fresh \cup {"anchor"}
  /\ pc' = IF ticket = {} THEN "call" ELSE "login"
  /\ UNCHANGED <<mode, secret, conn, token, timer, busy, stopped, key, ticket, task>>

\* The end of doLogin; after a refresh doFetch starts again at the gate.
LoginAnswered ==
  /\ pc = "login"
  /\ key' = ticket
  /\ ticket' = {}
  /\ \/ task = "refresh" /\ pc' = "gate" /\ task' = "refetch"
     \/ task # "refresh" /\ Anchored("call") /\ UNCHANGED task
  /\ UNCHANGED <<mode, secret, conn, token, timer, busy, stopped, fresh>>

\* InvalidToken: Steam mode cannot work with this account.
LoginDenied == pc = "login" /\ Halt

CallAnswered ==
  /\ pc = "call"
  /\ pc' = "idle"
  /\ UNCHANGED <<mode, secret, conn, token, timer, busy, stopped, loginVars, task>>

\* ApiKeyProvider: the key is never another, and its rejection is fatal.
QuickRefused == mode = "quick" /\ Halt

\* A 401, once in a request: AuthProvider.refresh.
Unauthorized ==
  /\ pc = "call"
  /\ task = "fetch"
  /\ \/ /\ mode = "steam"
        /\ key' = {}
        /\ task' = "refresh"
        /\ AskSteam("ticket")
        /\ UNCHANGED <<mode, secret, token, timer, stopped, fresh, ticket>>
     \/ QuickRefused

\* Statuses, timeouts and network errors; a second 401 among them.
ServiceFails == pc \in {"anchor", "login", "call"} /\ Fail /\ UNCHANGED conn

-----------------------------------------------------------------------------
\* 'error' after the log-on: nobody hears of it.
SteamEnds ==
  /\ conn = "open"
  /\ conn' = "dead"
  /\ UNCHANGED <<mode, secret, token, timer, busy, stopped, loginVars, pc, task>>

\* The library logs on again by itself: 'loggedOn' schedules anew.
Relogin ==
  /\ conn = "open"
  /\ ScheduleRefresh
  /\ UNCHANGED <<mode, secret, conn, token, busy, stopped, loginVars, pc, task>>

\* refreshSession finds an operation under way.
Postpone ==
  /\ timer # "off"
  /\ busy
  /\ timer' = "retry"
  /\ UNCHANGED <<mode, secret, conn, token, busy, stopped, loginVars, pc, task>>

Aged(ages) == {age + 1 : age \in ages}

\* SteamAuthProvider's callback; in quick mode there is none.
DropKey == key' = IF mode = "steam" THEN {} ELSE key

\* teardown, and what it means for the key and for a login under way.  A request is
\* given up long before a second cycle comes: a fetch after 5 minutes at the latest.
EndSession ==
  /\ ticket \subseteq {0}
  /\ conn' = "none"
  /\ DropKey
  /\ ticket' = Aged(ticket)
  /\ UNCHANGED <<mode, secret, token, busy, stopped, fresh, pc, task>>

\* Mutant: it is left to the next log-on to schedule the next cycle.
CycleOnce == timer # "off" /\ ~busy /\ EndSession /\ timer' = "off"

\* refreshSession.
Cycle == timer # "off" /\ ~busy /\ EndSession /\ ScheduleRefresh

\* A cached version or anchor is too old.
Expire ==
  \E part \in fresh :
    /\ fresh' = fresh \ {part}
    /\ UNCHANGED <<mode, secret, conn, token, timer, busy, stopped, key, ticket, pc, task>>

\* The signal: the loop has returned, and main disposes.
Stop ==
  /\ pc \in {"idle", "halted"}
  /\ pc' = "ended"
  /\ Shutdown
  /\ UNCHANGED <<mode, secret, token, busy, loginVars, task>>

Answer ==
  \/ LoggedOn \/ GuardAsks \/ LogOnDenied \/ LogOnFails
  \/ TicketIssued \/ DepotRead \/ DepotDenied \/ SteamFails
  \/ AnchorRead \/ LoginAnswered \/ LoginDenied
  \/ CallAnswered \/ Unauthorized \/ ServiceFails

SteamNext ==
  \/ DiscoverVersion \/ Fetch \/ PassGate \/ Answer
  \/ SteamEnds \/ Relogin \/ Postpone \/ Cycle \/ Expire \/ Stop

SteamSpec == SteamInit /\ [][SteamNext]_steamVars

\* The loop goes on querying, every await ends, and the cycle timer, which knows nothing
\* of the loop, does not find it busy every time.
SteamFairSpec ==
  /\ SteamSpec
  /\ SF_steamVars(Fetch)
  /\ WF_steamVars(PassGate)
  /\ WF_steamVars(Answer)
  /\ SF_steamVars(Cycle)

-----------------------------------------------------------------------------
\* The state is well formed.
SteamIsTyped ==
  /\ mode \in Modes
  /\ secret \in BOOLEAN
  /\ conn \in {"none", "opening", "open", "dead", "failed"}
  /\ token \in BOOLEAN
  /\ timer \in {"off", "cycle", "retry"}
  /\ busy \in BOOLEAN
  /\ stopped \in BOOLEAN
  /\ key \in SUBSET Nat
  /\ fresh \subseteq {"version", "anchor"}
  /\ pc \in {"idle", "halted", "ended"} \cup Waiting
  /\ task \in {"discover", "fetch", "refresh", "refetch"}
  /\ ticket \in SUBSET Nat

\* steamProvider.ts drops the api-key with the session it came from; the one key that
\* outlives its session is that of a login the cycle found under way, and it does not
\* outlive the next cycle.
KeyOutlivesOneCycle == mode = "steam" => key \subseteq {0, 1}

\* "Don't interrupt an in-flight operation": the session is not taken from under an
\* operation by anything but the end of polling.
CycleSparesOperations ==
  [][{pc, pc'} \subseteq AtSteam => conn' # "none"]_steamVars

\* "stops polling, logs off Steam": whatever was under way, nothing of the session is
\* left once polling has stopped, and nothing logs on again.
LoggedOffOnceStopped ==
  stopped => conn = "none" /\ timer = "off" /\ pc \notin Waiting

\* Steam or the service refuses something for the time being, or for good.
Trouble ==
  \/ GuardAsks \/ LogOnDenied \/ LogOnFails \/ DepotDenied \/ SteamEnds
  \/ conn = "open" /\ SteamFails
  \/ LoginDenied \/ Unauthorized \/ ServiceFails \/ Stop

Served == []<><<CallAnswered>>_steamVars \/ <>(pc \in {"halted", "ended"})

\* Once a log-on has succeeded, no later failure is for ever: when the trouble is
\* over, a cycle has replaced a session that was lost, or failed to come back, and
\* queries are answered again.
ServesAgain == <>(timer # "off") /\ <>[][~Trouble]_steamVars => Served

\* "Anything else (rate limit, service unavailable, network) is treated as transient
\* and backed off": so the same without a log-on that succeeded.
FailuresAreTransient == <>[][~Trouble]_steamVars => Served

=============================================================================
