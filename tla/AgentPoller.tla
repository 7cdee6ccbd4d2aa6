----------------------------- MODULE AgentPoller -----------------------------
(***************************************************************************)
(* An agent's process: the start of src/agent/index.ts, the loop of        *)
(* poll/poller.ts over the version resolver, what becomes of a pass        *)
(* (bhvr/client.ts, reporter.ts, hubClient.ts), fatal errors, the signal   *)
(* to stop, and restarts.                                                  *)
(*                                                                         *)
(* JavaScript runs a handler to its next await: a step is what happens     *)
(* when an await returns, up to the next one.  Waits are not measured; the *)
(* backoff they are scaled by is.  A request to the game service covers    *)
(* the spacing, the api-key, the anchor and one re-authentication, all of  *)
(* which end in the same outcomes.  The exceptions that run() would pause  *)
(* on are those no callee throws, and are left out.                        *)
(***************************************************************************)
EXTENDS VersionResolver

VARIABLES
  at,         \* where the process stands, see Places
  stopping,   \* shutdown has begun
  aborted,    \* the poller's AbortController
  status,     \* what the health endpoint tells
  backoff,
  bad,        \* consecutiveBadCycles, as far as PAUSE_AFTER_BAD_CYCLES
  due,        \* versionRefreshMs have passed since the last re-resolving
  outcome,    \* history: what the last request brought
  answered,   \* history: builds that brought real data
  brought,    \* history: the last of them to bring this process some, or NoBuild
  fellBack    \* history: builds the service answered this process with a fallback

loopVars == <<at, stopping, aborted, status, backoff, bad, due>>
history == <<outcome, answered, brought, fellBack>>

vars == <<resolverVars, loopVars, history>>

MaxBackoff == 8
PauseAfterBadCycles == 3

\* Where the poller's loop awaits.
Polling == {"waiting", "pausing", "rediscovering", "querying", "reporting",
            "discovering"}

Starting == {"assigning", "resolving"}

Places == Polling \cup Starting \cup {"off", "ended"}

Statuses == {"initializing", "ok", "degraded", "paused", "error"}

Outcomes == {"none", "real", "fallback", "failure"}

Init ==
  /\ ResolverInit
  /\ at = "off"
  /\ stopping = FALSE
  /\ aborted = FALSE
  /\ status = "initializing"
  /\ backoff = 1
  /\ bad = 0
  /\ due = FALSE
  /\ outcome = "none"
  /\ answered = {}
  /\ brought = NoBuild
  /\ fellBack = {}

Goto(place) ==
  /\ at' = place
  /\ UNCHANGED <<stopping, aborted, status, backoff, bad, due>>

-----------------------------------------------------------------------------
\* The process exits or is killed.
Off ==
  /\ at' = "off"
  /\ stopping' = FALSE
  /\ aborted' = FALSE
  /\ status' = "initializing"
  /\ backoff' = 1
  /\ bad' = 0
  /\ due' = FALSE
  /\ outcome' = "none"
  /\ brought' = NoBuild
  /\ fellBack' = {}
  /\ ForgetMemory
  /\ UNCHANGED answered

\* A rejected key, another platform's assignment, a static cadence bound, and what
\* kills any process.
Crash ==
  /\ at # "off"
  /\ Off

Launch ==
  /\ at = "off"
  /\ Goto("assigning")
  /\ UNCHANGED <<resolverVars, history>>

\* awaitAssignment has its assignment.
Assigned ==
  /\ at = "assigning"
  /\ Goto("resolving")
  /\ ReadState
  /\ UNCHANGED history

\* triggerFatal.
Fatal ==
  /\ at' = "ended"
  /\ aborted' = TRUE
  /\ status' = "error"
  /\ UNCHANGED <<stopping, backoff, bad, due>>

\* Mutant: the loop does not look at its signal.
LoopOn ==
  /\ UNCHANGED <<stopping, aborted, backoff, bad, due>>
  /\ IF active' = NoBuild
       THEN at' = "pausing" /\ status' = "degraded"
       ELSE at' = "querying" /\ UNCHANGED status

\* The head of the poller's loop, and cycle down to its first await.
Loop ==
  /\ UNCHANGED <<stopping, aborted, backoff, bad, due>>
  /\ IF aborted
       THEN at' = "ended" /\ UNCHANGED status
     ELSE IF active' = NoBuild
       THEN at' = "pausing" /\ status' = "degraded"
       ELSE at' = "querying" /\ UNCHANGED status

\* poller.start: the lead agent does not wait for its slot.
Start == Goto("waiting") \/ Loop

\* resolver.init ends with a build from the depot or without.
Resolved ==
  /\ at = "resolving"
  /\ Adopt(published) \/ InitWithout
  /\ Start
  /\ UNCHANGED history

\* A fatal error there: the poller is not started.
Unresolved ==
  /\ at = "resolving"
  /\ at' = "ended"
  /\ status' = "error"
  /\ UNCHANGED <<stopping, aborted, backoff, bad, due, resolverVars, history>>

-----------------------------------------------------------------------------
\* A delay that ends, or is cut short by the signal.
Wake ==
  /\ at = "waiting"
  /\ UNCHANGED <<resolverVars, history>>
  /\ Loop

PauseOver ==
  /\ at = "pausing"
  /\ Goto("rediscovering")
  /\ UNCHANGED <<resolverVars, history>>

\* refreshFromDiscovery inside cycle, and the loop goes round ...
Rediscover ==
  /\ at = "rediscovering"
  /\ Adopt(published) \/ UNCHANGED resolverVars
  /\ Loop
  /\ UNCHANGED history

\* ... or at the end of a pass, before the wait for the next.
Discover ==
  /\ at = "discovering"
  /\ Adopt(published) \/ UNCHANGED resolverVars
  /\ Goto("waiting")
  /\ UNCHANGED history

Capped(n) == IF n > MaxBackoff THEN MaxBackoff ELSE n

\* Mutant: the version is re-resolved at the end of a good pass only.
AfterGoodPass ==
  IF due /\ status' = "ok"
    THEN at' = "discovering" /\ due' = FALSE
    ELSE at' = "waiting" /\ UNCHANGED due

\* The end of finishCycle.
AfterPass ==
  IF due
    THEN at' = "discovering" /\ due' = FALSE
    ELSE at' = "waiting" /\ UNCHANGED due

(***************************************************************************)
(* A pass without data.  What handleError adds to the backoff comes before *)
(* finishCycle's doubling and the caps agree, so the two are one factor.   *)
(* After the signal the pass ends there: handleError may have set the      *)
(* status, and nothing reads the backoff any more.                         *)
(***************************************************************************)
PassWithout(factor) ==
  IF aborted
    THEN /\ at' = "ended"
         /\ status' \in IF factor = 4 THEN {"degraded", "paused"} ELSE {status}
         /\ UNCHANGED <<stopping, aborted, backoff, bad, due, resolverVars>>
    ELSE /\ PassResult(FALSE)
         /\ backoff' = Capped(factor * backoff)
         /\ bad' = IF bad < PauseAfterBadCycles THEN bad + 1 ELSE bad
         /\ status' = IF bad' = PauseAfterBadCycles THEN "paused" ELSE "degraded"
         /\ AfterPass
         /\ UNCHANGED <<stopping, aborted>>

\* The service answers without real data.
Fallback ==
  /\ at = "querying"
  /\ PassWithout(2)
  /\ outcome' = "fallback"
  /\ fellBack' = fellBack \cup {active}
  /\ UNCHANGED <<answered, brought>>

\* A network error (factor 3), or one of the service or of authentication (4).
QueryFails ==
  /\ at = "querying"
  /\ \E factor \in {3, 4} : PassWithout(factor)
  /\ outcome' = "failure"
  /\ UNCHANGED <<answered, brought, fellBack>>

\* Real data; recordReal posts the report.
QueryReal ==
  /\ at = "querying"
  /\ Goto("reporting")
  /\ outcome' = "real"
  /\ answered' = answered \cup {active}
  /\ brought' = active
  /\ UNCHANGED <<resolverVars, fellBack>>

\* The hub takes the report, or cannot be reached; any new schedule is in range.
Reported ==
  /\ at = "reporting"
  /\ backoff' = 1
  /\ UNCHANGED <<stopping, aborted, history>>
  /\ IF aborted
       THEN at' = "ended" /\ UNCHANGED <<status, bad, due, resolverVars>>
       ELSE /\ PassResult(TRUE)
            /\ bad' = 0
            /\ status' = "ok"
            /\ AfterPass

\* The hub took the report, and enforceRange cannot evaluate a bound at the refresh time
\* just observed (CadenceExpression): recordReal throws a CadenceError, which is not
\* fatal, and the pass counts as one that met a network error.
BoundFails ==
  /\ at = "reporting"
  /\ PassWithout(3)
  /\ UNCHANGED history

\* A request, the hub's reply (a rejected key, a cadence out of range) or a
\* discovery ends in an error no retry will help.
FailForGood ==
  /\ at \in {"querying", "reporting", "discovering", "rediscovering"}
  /\ Fatal
  /\ UNCHANGED <<resolverVars, history>>

-----------------------------------------------------------------------------
\* SIGTERM once the handlers are set; before that it is a Crash.
Terminate ==
  /\ at \in Polling \cup {"ended"}
  /\ ~stopping
  /\ stopping' = TRUE
  /\ aborted' = TRUE
  /\ UNCHANGED <<at, status, backoff, bad, due, resolverVars, history>>

\* shutdown has awaited the loop.
Exit ==
  /\ stopping
  /\ at = "ended"
  /\ Off

\* Time passes.
RefreshDue ==
  /\ at \in Polling
  /\ ~due
  /\ due' = TRUE
  /\ UNCHANGED <<at, stopping, aborted, status, backoff, bad, resolverVars, history>>

Publish ==
  /\ PublishBuild
  /\ UNCHANGED <<loopVars, history>>

Write ==
  /\ \E build \in writing : WriteEnds(build)
  /\ UNCHANGED <<loopVars, history>>

Poll ==
  \/ Wake
  \/ PauseOver
  \/ Rediscover
  \/ Discover
  \/ Fallback
  \/ QueryFails
  \/ QueryReal
  \/ Reported
  \/ BoundFails
  \/ FailForGood

Next ==
  \/ Launch
  \/ Assigned
  \/ Resolved
  \/ Unresolved
  \/ Poll
  \/ Terminate
  \/ Exit
  \/ Crash
  \/ RefreshDue
  \/ Publish
  \/ Write

Spec == Init /\ [][Next]_vars

(***************************************************************************)
(* Timers fire, hours pass, and a request ends: the requests to the hub    *)
(* and the service have a deadline, the runtime bounds the others, and of  *)
(* a login to Steam it is assumed.                                         *)
(***************************************************************************)
FairSpec ==
  /\ Spec
  /\ WF_vars(Poll)
  /\ WF_vars(Exit)
  /\ WF_vars(RefreshDue)

-----------------------------------------------------------------------------
\* The state is well formed.
TypeOK ==
  /\ ResolverTypeOK
  /\ at \in Places
  /\ stopping \in BOOLEAN
  /\ aborted \in BOOLEAN
  /\ status \in Statuses
  /\ backoff \in 1 .. MaxBackoff
  /\ bad \in 0 .. PauseAfterBadCycles
  /\ due \in BOOLEAN
  /\ outcome \in Outcomes
  /\ answered \subseteq Builds
  /\ brought \in Builds \cup {NoBuild}
  /\ fellBack \subseteq Builds

\* The health endpoint answers 503 exactly when the agent has stopped polling for
\* good: no pass that was under way overwrites the error, and no error is told while
\* the loop still polls.
HealthTellsTruth ==
  at \in Polling \cup {"ended"} /\ ~stopping =>
    (status = "error" <=> at = "ended")

\* What the agent may come back to, in memory, in the file or on its way there.
FallBacks == ({lastWorking, disk} \cup writing) \ {NoBuild}

\* What the agent falls back to, in memory, in the file or on its way there, is a
\* build that did bring real data, on this run or on an earlier one.
FallsBackOnProven == FallBacks \subseteq answered

Trial == INSTANCE BuildTrial WITH
           presented <- active, newest <- candidate, onTrial <- OnTrial,
           proven <- answered, useful <- brought, reporting <- at = "reporting",
           kept <- FallBacks

\* The loop, the resolver and its state file implement BuildTrial: a process tries every
\* build once, comes back only to one that has brought data, does not go back from a
\* confirmed build, and does not give up one that has brought it data, but in the very
\* pass that brought it; whatever fails, crashes or is lost in between.
TriesBuildsOnce == Trial!Spec

\* A build given up is not presented again by the same process, however often the
\* depot shows it.
RejectedStaysOut == rejected # NoBuild => active # rejected

\* An agent whose passes bring nothing polls ever more slowly: after n of them in a
\* row the wait is multiplied by 2^n at least, up to the cap.
BadCyclesSlowDown == ~aborted => backoff >= <<1, 2, 4, 8>>[bad + 1]

\* What keeps an agent from recovering: an error, a fallback for the newest build, a bound
\* of its own that divides by zero at every refresh time the service goes on to show, a
\* discovery that misses it, a new one, or the end of the process.
Disturbed ==
  \/ outcome' = "failure"
  \/ outcome' = "fallback" /\ active = published
  \/ /\ at \in {"discovering", "rediscovering"}
     /\ Worthwhile(published)
     /\ active' # published
  \/ BoundFails
  \/ FailForGood
  \/ Publish
  \/ Terminate
  \/ Crash

\* Once the depot and the services behave, and the bounds have a value at the refresh
\* times shown, an agent that polls gets real data, with whatever build, backoff and state
\* file the troubles before left it; unless the guard has given the newest build up, which
\* it keeps to.
Recovers ==
  <>[][~Disturbed]_vars =>
    []<>(at \notin Polling \/ rejected = published \/ status = "ok")

\* A signal to stop is followed by the end of the process.
StopsOnSignal == stopping ~> at = "off"

-----------------------------------------------------------------------------
\* "if a freshly discovered build returns only fallbacks, revert to the last working
\* category": a build is given up when the service answered it with a fallback.
RejectedForFallbacks == rejected # NoBuild => rejected \in fellBack

=============================================================================
