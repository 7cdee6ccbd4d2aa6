----------------------------- MODULE ClosestRegion -----------------------------
(***************************************************************************)
(* The guess of the visitor's region: hooks/useClosestRegion.ts over the   *)
(* probes of lib/regionLatency.ts, and the pin of useRegionOverride.ts.    *)
(* Workers take regions off a queue and measure each as the best of        *)
(* several round trips; a deadline, or a recheck, aborts them.  A recheck  *)
(* starts over while the detection it aborts still has to end.  A probe    *)
(* that fails, or is cut off before it has an answer, measures Never.      *)
(***************************************************************************)
EXTENDS Naturals, FiniteSets, Sequences

CONSTANTS
  Regions,
  RegionOrder,   \* the order in which the regions are probed
  Latencies,     \* the values a region's measure may have
  Concurrency,
  MarginMs, MarginRatio,  \* the ratio in percent
  MaxMounts      \* bound on rechecks and loads of the page

None == "none"
Never == 1000000   \* Infinity

ASSUME ClosestAssumption ==
  /\ Latencies \subseteq 0..(Never - 1)
  /\ Concurrency \in Nat \ {0}
  /\ RegionOrder \in Seq(Regions)
  /\ MarginMs \in Nat
  /\ MarginRatio \in Nat /\ MarginRatio >= 100

VARIABLES
  cache,       \* localStorage: a region and whether its day has not passed, or NoCache
  stored,      \* whether localStorage works in this browser
  pin,         \* the region the visitor pinned, or None
  region, status,
  queue, measuring, latencies, preferred, cut,  \* the detection: what is to be measured
               \* and is being measured, the result, and whether the deadline has come
  orphan,      \* an aborted detection has not ended
  mounts

NoCache == [region |-> None, fresh |-> FALSE]
detectionVars == <<queue, measuring, latencies, preferred, cut>>
locateVars == <<region, status, detectionVars, orphan>>
closestVars == <<cache, stored, pin, locateVars, mounts>>

NoLatencies == [r \in {} |-> Never]

\* The effect: what a cached region c saves it from measuring.
Start(c) ==
  IF c.fresh
    THEN /\ region' = c.region
         /\ status' = "ready"
         /\ queue' = <<>>
         /\ latencies' = NoLatencies
         /\ preferred' = None
         /\ measuring' = {}
         /\ cut' = FALSE
    ELSE /\ region' = None
         /\ status' = "detecting"
         /\ queue' = RegionOrder
         /\ latencies' = NoLatencies
         /\ preferred' = c.region
         /\ measuring' = {}
         /\ cut' = FALSE

ClosestInit ==
  /\ stored \in BOOLEAN
  /\ cache = NoCache
  /\ pin = None
  /\ region = None
  /\ status = "detecting"
  /\ queue = RegionOrder
  /\ latencies = NoLatencies
  /\ preferred = None
  /\ measuring = {}
  /\ cut = FALSE
  /\ orphan = FALSE
  /\ mounts = 0

Detecting == status = "detecting"

-----------------------------------------------------------------------------
\* A worker takes the next region; after the deadline it stops instead.
Take ==
  /\ Detecting
  /\ queue # <<>>
  /\ Cardinality(measuring) < Concurrency
  /\ measuring' = IF cut THEN measuring ELSE measuring \cup {Head(queue)}
  /\ queue' = IF cut THEN <<>> ELSE Tail(queue)
  /\ UNCHANGED <<cache, stored, pin, region, status, latencies, preferred, cut, orphan,
                 mounts>>

\* measureRegion ends: the best round trip, of those made before the deadline.
Measured ==
  /\ Detecting
  /\ \E r \in measuring, ms \in Latencies \cup {Never} :
       /\ measuring' = measuring \ {r}
       /\ latencies' = [x \in DOMAIN latencies \cup {r} |-> IF x = r THEN ms ELSE latencies[x]]
  /\ UNCHANGED <<cache, stored, pin, region, status, queue, preferred, cut, orphan, mounts>>

Deadline ==
  /\ Detecting
  /\ ~cut
  /\ cut' = TRUE
  /\ UNCHANGED <<cache, stored, pin, region, status, queue, measuring, latencies,
                 preferred, orphan, mounts>>

\* The regions that answered.
Reached == {r \in DOMAIN latencies : latencies[r] # Never}

Fastest == {r \in Reached : \A x \in Reached : latencies[r] <= latencies[x]}

CloseEnough(r, best) ==
  /\ latencies[r] <= latencies[best] + MarginMs
  /\ 100 * latencies[r] <= latencies[best] * MarginRatio

\* The region of the last time, unless another beats it by a clear margin.
Winner(best) ==
  IF preferred \in Reached /\ CloseEnough(preferred, best) THEN preferred ELSE best

\* Every worker has ended, and some region answered: it is shown and cached.
Found ==
  /\ Detecting
  /\ queue = <<>> /\ measuring = {}
  /\ \E best \in Fastest :
       /\ region' = Winner(best)
       /\ cache' = IF stored THEN [region |-> Winner(best), fresh |-> TRUE] ELSE cache
  /\ status' = "ready"
  /\ UNCHANGED <<stored, pin, detectionVars, orphan, mounts>>

FoundNothing ==
  /\ Detecting
  /\ queue = <<>> /\ measuring = {}
  /\ Reached = {}
  /\ region' = None
  /\ status' = "error"
  /\ UNCHANGED <<cache, stored, pin, detectionVars, orphan, mounts>>

\* Mutant: what an aborted detection still found is shown.
OrphanShown ==
  /\ orphan
  /\ orphan' = FALSE
  /\ region' \in Regions
  /\ status' = "ready"
  /\ UNCHANGED <<cache, stored, pin, detectionVars, mounts>>

\* An aborted detection ends, found something or not: nothing is set.
OrphanEnds ==
  /\ orphan
  /\ orphan' = FALSE
  /\ UNCHANGED <<cache, stored, pin, region, status, detectionVars, mounts>>

\* The recheck button: unpins, forgets the cached region and detects again.
Recheck ==
  /\ mounts < MaxMounts
  /\ mounts' = mounts + 1
  /\ pin' = None
  /\ cache' = NoCache
  /\ Start(NoCache)
  /\ orphan' = (orphan \/ Detecting)
  /\ UNCHANGED stored

\* The page is loaded again: only localStorage survives, so a pin that was not stored
\* is gone.
Load ==
  /\ mounts < MaxMounts
  /\ mounts' = mounts + 1
  /\ pin' = IF stored THEN pin ELSE None
  /\ Start(cache)
  /\ orphan' = FALSE
  /\ UNCHANGED <<cache, stored>>

\* setOverride.
Pin ==
  /\ pin' \in Regions \cup {None}
  /\ UNCHANGED <<cache, stored, locateVars, mounts>>

\* CACHE_TTL_MS pass.
CacheExpires ==
  /\ cache.fresh
  /\ cache' = [cache EXCEPT !.fresh = FALSE]
  /\ UNCHANGED <<stored, pin, locateVars, mounts>>

ClosestNext ==
  \/ Take \/ Measured \/ Deadline \/ Found \/ FoundNothing \/ OrphanEnds
  \/ Recheck \/ Load \/ Pin \/ CacheExpires

\* While the page is open: every probe has a timeout, and the workers run.
ClosestFairness ==
  /\ WF_closestVars(Take)
  /\ WF_closestVars(Measured)
  /\ WF_closestVars(Found \/ FoundNothing)

ClosestSpec == ClosestInit /\ [][ClosestNext]_closestVars /\ ClosestFairness

-----------------------------------------------------------------------------
\* The state is well formed.
ClosestTypeOK ==
  /\ cache \in [region : Regions, fresh : BOOLEAN] \cup {NoCache}
  /\ stored \in BOOLEAN
  /\ pin \in Regions \cup {None}
  /\ region \in Regions \cup {None}
  /\ status \in {"detecting", "ready", "error"}
  /\ queue \in Seq(Regions)
  /\ measuring \subseteq Regions
  /\ latencies \in UNION {[S -> Latencies \cup {Never}] : S \in SUBSET Regions}
  /\ preferred \in Regions \cup {None}
  /\ cut \in BOOLEAN
  /\ orphan \in BOOLEAN

\* Whatever detections overlap and however they are cut short, the region shown after
\* one is one that answered, and none that answered beats it by a clear margin.
LocatedBest ==
  status = "ready" /\ latencies # NoLatencies =>
    region \in Reached /\ \A best \in Fastest : region = best \/ CloseEnough(region, best)

=============================================================================
