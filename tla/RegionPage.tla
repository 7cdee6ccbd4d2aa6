------------------------------ MODULE RegionPage ------------------------------
(***************************************************************************)
(* A region's page: components/RegionHistoryPage.tsx and the three hooks   *)
(* that fetch what it shows.  The visitor switches the platform, picks a   *)
(* window and moves the chart; the live data bumps the reload key; and     *)
(* every change starts requests over while the old ones are still on their *)
(* way.  A window always ends now and is named by where it starts.         *)
(***************************************************************************)
EXTENDS Naturals, FiniteSets

CONSTANTS
  PagePlatforms,
  FirstReading,  \* where the readings of a platform's region begin: 1..MaxStart, or 0
                 \* for a region without readings
  MaxStart,      \* the latest start of a window
  MaxReload,     \* bound on the reload key
  Hooks,         \* "history", and "activity" and "forecast", which work alike
  MaxAsked       \* bound on the requests under way when another is made

ASSUME PageAssumption ==
  /\ Hooks \subseteq {"history", "activity", "forecast"}
  /\ "history" \in Hooks
  /\ MaxStart \in Nat \ {0}
  /\ MaxReload \in Nat
  /\ FirstReading \in [PagePlatforms -> 0..MaxStart]

Starts == 1..MaxStart
Nothing == [platform |-> "none", start |-> 0, reload |-> 0]

VARIABLES
  pagePlatform,
  range,         \* the window on screen
  fetchRange,    \* its debounced copy, which the requests are made for
  reload,        \* lastUpdated of the live data plus the nonce of the retry button
  asked,         \* the requests under way, the aborted ones included
  shown,         \* data of every hook
  pageError,
  pageLoading,
  extent,        \* the ref extent: where the readings begin, or 0
  everHadData,   \* the ref of that name
  clampedInit    \* the ref of that name

inputVars == <<pagePlatform, range, fetchRange, reload>>
hookVars == <<shown, pageError, pageLoading>>
chartVars == <<extent, everHadData, clampedInit>>
pageVars == <<inputVars, asked, hookVars, chartVars>>

\* What a hook is to show: the inputs of its effect.
Wanted(h) ==
  [platform |-> pagePlatform,
   start |-> IF h = "history" THEN fetchRange ELSE 0,
   reload |-> reload]

PageInit ==
  /\ pagePlatform \in PagePlatforms
  /\ range = 1
  /\ fetchRange = range
  /\ reload = 0
  /\ asked = {[hook |-> h, want |-> Wanted(h), aborted |-> FALSE] : h \in Hooks}
  /\ shown = [h \in Hooks |-> Nothing]
  /\ pageError = [h \in Hooks |-> FALSE]
  /\ pageLoading = [h \in Hooks |-> TRUE]
  /\ extent = 0
  /\ everHadData = FALSE
  /\ clampedInit = FALSE

-----------------------------------------------------------------------------
\* Mutant: what was asked before is neither aborted nor cancelled.
EffectsKeeping ==
  LET changed == {h \in Hooks : Wanted(h)' # Wanted(h)} IN
  /\ asked' = asked \cup
       {[hook |-> h, want |-> Wanted(h)', aborted |-> FALSE] : h \in changed}
  /\ pageLoading' = [h \in Hooks |-> h \in changed \/ pageLoading[h]]
  /\ UNCHANGED <<shown, pageError>>

\* The effects whose inputs changed clean up and run again.
Effects ==
  LET changed == {h \in Hooks : Wanted(h)' # Wanted(h)} IN
  /\ asked' =
       {IF r.hook \in changed THEN [r EXCEPT !.aborted = TRUE] ELSE r : r \in asked} \cup
       {[hook |-> h, want |-> Wanted(h)', aborted |-> FALSE] : h \in changed}
  /\ pageLoading' = [h \in Hooks |-> h \in changed \/ pageLoading[h]]
  /\ UNCHANGED <<shown, pageError>>

MayAsk == Cardinality(asked) < MaxAsked

SwitchPagePlatform ==
  /\ MayAsk
  /\ pagePlatform' \in PagePlatforms \ {pagePlatform}
  /\ UNCHANGED <<range, fetchRange, reload, chartVars>>
  /\ Effects

\* The live data has another lastUpdated, or the retry button of the chart's error.
ReloadKeyMoves ==
  /\ MayAsk
  /\ reload < MaxReload
  /\ reload' = reload + 1
  /\ UNCHANGED <<pagePlatform, range, fetchRange, chartVars>>
  /\ Effects

\* applyPreset: a window no wider than the readings.
ApplyPreset ==
  /\ \E start \in Starts : range' = IF start < extent THEN extent ELSE start
  /\ UNCHANGED <<pagePlatform, fetchRange, reload, asked, hookVars, chartVars>>

\* handleRangeChange: the chart is zoomed or panned, which takes a chart on screen.
MoveChart ==
  /\ shown["history"] # Nothing
  /\ everHadData
  /\ range' \in Starts \ {range}
  /\ UNCHANGED <<pagePlatform, fetchRange, reload, asked, hookVars, chartVars>>

\* The debounce timer.
Debounced ==
  /\ MayAsk
  /\ fetchRange # range
  /\ fetchRange' = range
  /\ UNCHANGED <<pagePlatform, range, reload, chartVars>>
  /\ Effects

Settle(r) ==
  /\ asked' = asked \ {r}
  /\ pageLoading' = [pageLoading EXCEPT ![r.hook] = FALSE]

\* The render after a history: the extent is latched, and the first time the window on
\* screen is pulled up to it.
ChartSees(first) ==
  /\ extent' = IF first = 0 THEN extent ELSE first
  /\ everHadData' \in IF first = 0 THEN {everHadData} ELSE {TRUE, everHadData}
  /\ clampedInit' = (clampedInit \/ extent' # 0)
  /\ range' = IF clampedInit' /\ ~clampedInit /\ range < extent' THEN extent' ELSE range

Answered(r) ==
  /\ ~r.aborted
  /\ Settle(r)
  /\ shown' = [shown EXCEPT ![r.hook] = r.want]
  /\ pageError' = [pageError EXCEPT ![r.hook] = FALSE]
  /\ IF r.hook = "history"
       THEN ChartSees(FirstReading[r.want.platform])
       ELSE UNCHANGED <<range, chartVars>>
  /\ UNCHANGED <<pagePlatform, fetchRange, reload>>

\* Mutant: only an answer ends the loading.
FailedLoading(r) ==
  /\ ~r.aborted
  /\ asked' = asked \ {r}
  /\ pageError' = [pageError EXCEPT ![r.hook] = TRUE]
  /\ UNCHANGED <<inputVars, shown, pageLoading, chartVars>>

Failed(r) ==
  /\ ~r.aborted
  /\ Settle(r)
  /\ pageError' = [pageError EXCEPT ![r.hook] = TRUE]
  /\ UNCHANGED <<inputVars, shown, chartVars>>

\* An aborted request ends, with an answer already read or without: nothing is set.
Dismissed(r) ==
  /\ r.aborted
  /\ asked' = asked \ {r}
  /\ UNCHANGED <<inputVars, hookVars, chartVars>>

PageVisitor == SwitchPagePlatform \/ ReloadKeyMoves \/ ApplyPreset \/ MoveChart

PageNext ==
  \/ PageVisitor
  \/ Debounced
  \/ \E r \in asked : Answered(r) \/ Failed(r) \/ Dismissed(r)

\* While the page is open: the timer fires, and the browser ends every request, for
\* which it has a timeout of its own.
PageFairness ==
  /\ WF_pageVars(Debounced)
  /\ \A h \in Hooks :
       WF_pageVars(\E r \in asked : r.hook = h /\ (Answered(r) \/ Failed(r)))
  /\ WF_pageVars(\E r \in asked : Dismissed(r))

PageSpec == PageInit /\ [][PageNext]_pageVars /\ PageFairness

-----------------------------------------------------------------------------
\* The state is well formed.
PageTypeOK ==
  LET Wants == [platform : PagePlatforms, start : 0..MaxStart, reload : 0..MaxReload] IN
  /\ pagePlatform \in PagePlatforms
  /\ range \in Starts
  /\ fetchRange \in Starts
  /\ reload \in 0..MaxReload
  /\ asked \subseteq [hook : Hooks, want : Wants, aborted : BOOLEAN]
  /\ shown \in [Hooks -> Wants \cup {Nothing}]
  /\ pageError \in [Hooks -> BOOLEAN]
  /\ pageLoading \in [Hooks -> BOOLEAN]
  /\ extent \in 0..MaxStart
  /\ everHadData \in BOOLEAN
  /\ clampedInit \in BOOLEAN

\* In whatever order the answers to overlapping requests come, a hook that is neither
\* loading nor in error shows what is asked for now: this platform, the fetched window
\* and the latest reload key.
SettledIsCurrent ==
  \A h \in Hooks : ~pageLoading[h] /\ ~pageError[h] => shown[h] = Wanted(h)

\* When nobody touches the page any more, it comes to rest: the window on screen is the
\* one that was fetched, and every hook shows it or its error.
PageSettles ==
  <>[][~PageVisitor]_pageVars =>
    <>[](/\ fetchRange = range
         /\ \A h \in Hooks : ~pageLoading[h] /\ (pageError[h] \/ shown[h] = Wanted(h)))

=============================================================================
