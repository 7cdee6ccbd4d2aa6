---------------------------- MODULE LiveIncentives ----------------------------
(***************************************************************************)
(* The dashboard's live data: hooks/useIncentives.ts in one browser, over  *)
(* a hub whose streams send the current incentives when they open and when *)
(* they change (IncentiveStream).  One effect owns the stream and its two  *)
(* timers, and starts over when the platform is switched or the stream is  *)
(* asked for again; the state it sets outlives it.  React runs an effect   *)
(* after the render that changed its inputs: the two are one step here.    *)
(* Frames that do not parse change nothing and are left out.               *)
(***************************************************************************)
EXTENDS Naturals

CONSTANTS
  Platforms,
  MaxVersion   \* bound on the changes of a platform's incentives

NoData == [of |-> "nothing", version |-> 0]

VARIABLES
  hubUp,         \* the hub answers
  version,       \* the current incentives of every platform
  platform,      \* the platform of the route
  source,        \* the EventSource: "none", "connecting" or "open"
  reopen,        \* the timer that opens it again is running
  grace,         \* the banner timer: "off", "running", or "fired" and not cleared
  gotData,       \* the ref gotData: a frame came since the effect started
  snapshot,      \* what is on screen
  failed,        \* the state error
  loading,
  refreshing,
  disconnected,  \* the banner
  meta           \* the site's metadata: "none", "real" or "fallback", and whether a
                 \* request for it is under way

hubVars == <<hubUp, version>>
streamVars == <<source, reopen, grace, gotData>>
shownVars == <<snapshot, failed, loading, refreshing, disconnected>>
liveVars == <<hubVars, platform, streamVars, shownVars, meta>>

LiveInit ==
  /\ hubUp \in BOOLEAN
  /\ version = [p \in Platforms |-> 0]
  /\ platform \in Platforms
  /\ source = "connecting"
  /\ reopen = FALSE
  /\ grace = "off"
  /\ gotData = FALSE
  /\ snapshot = NoData
  /\ failed = FALSE
  /\ loading = TRUE
  /\ refreshing = FALSE
  /\ disconnected = FALSE
  /\ meta = [known |-> "none", asked |-> TRUE]

Current == [of |-> platform, version |-> version[platform]]

-----------------------------------------------------------------------------
\* The cleanup of both effects, and their next start.
StartOver ==
  /\ source' = "connecting"
  /\ reopen' = FALSE
  /\ grace' = "off"
  /\ gotData' = FALSE
  /\ loading' = TRUE
  /\ meta' = [meta EXCEPT !.asked = TRUE]

SwitchPlatform ==
  /\ platform' \in Platforms \ {platform}
  /\ StartOver
  /\ UNCHANGED <<hubVars, snapshot, failed, refreshing, disconnected>>

\* The refresh button, and the retry of the error screen.
Refresh ==
  /\ refreshing' = TRUE
  /\ failed' = FALSE
  /\ StartOver
  /\ UNCHANGED <<hubVars, platform, snapshot, disconnected>>

\* The page is looked at again while the banner is up.
BecomeVisible ==
  /\ disconnected
  /\ StartOver
  /\ UNCHANGED <<hubVars, platform, snapshot, failed, refreshing, disconnected>>

\* Mutant: the stream is back, and the banner timer keeps running.
OpenedQuietly ==
  /\ source = "connecting"
  /\ hubUp
  /\ source' = "open"
  /\ disconnected' = FALSE
  /\ UNCHANGED <<hubVars, platform, reopen, grace, gotData, snapshot, failed, loading,
                 refreshing, meta>>

\* onopen.
Opened ==
  /\ source = "connecting"
  /\ hubUp
  /\ source' = "open"
  /\ grace' = "off"
  /\ disconnected' = FALSE
  /\ UNCHANGED <<hubVars, platform, reopen, gotData, snapshot, failed, loading,
                 refreshing, meta>>

\* onmessage.
Message ==
  /\ source = "open"
  /\ hubUp
  /\ ~gotData \/ snapshot # Current
  /\ gotData' = TRUE
  /\ grace' = "off"
  /\ snapshot' = Current
  /\ failed' = FALSE
  /\ loading' = FALSE
  /\ refreshing' = FALSE
  /\ disconnected' = FALSE
  /\ UNCHANGED <<hubVars, platform, source, reopen, meta>>

\* Mutant: only a stream that has shown something is opened again.
DroppedForGood ==
  /\ source # "none"
  /\ source' = "none"
  /\ refreshing' = FALSE
  /\ grace' = IF gotData /\ grace = "off" THEN "running" ELSE grace
  /\ loading' = (loading /\ gotData)
  /\ failed' = (failed \/ ~gotData)
  /\ reopen' = gotData
  /\ UNCHANGED <<hubVars, platform, gotData, snapshot, disconnected, meta>>

\* onerror.
Dropped ==
  /\ source # "none"
  /\ source' = "none"
  /\ refreshing' = FALSE
  /\ grace' = IF gotData /\ grace = "off" THEN "running" ELSE grace
  /\ loading' = (loading /\ gotData)
  /\ failed' = (failed \/ ~gotData)
  /\ reopen' = TRUE
  /\ UNCHANGED <<hubVars, platform, gotData, snapshot, disconnected, meta>>

\* The reconnect timer.
Retry ==
  /\ reopen
  /\ reopen' = FALSE
  /\ source' = "connecting"
  /\ UNCHANGED <<hubVars, platform, grace, gotData, shownVars, meta>>

\* The banner timer.
GraceEnds ==
  /\ grace = "running"
  /\ grace' = "fired"
  /\ disconnected' = TRUE
  /\ UNCHANGED <<hubVars, platform, source, reopen, gotData, snapshot, failed, loading,
                 refreshing, meta>>

\* fetchSiteMeta answers, or fails and is replaced by fallbackMeta.
MetaAnswered ==
  /\ meta.asked
  /\ meta' \in [known : IF hubUp THEN {"real", "fallback"} ELSE {"fallback"}, asked : {FALSE}]
  /\ UNCHANGED <<hubVars, platform, streamVars, shownVars>>

\* Readings come in for a platform.
HubChanges ==
  \E p \in Platforms :
    /\ hubUp
    /\ version[p] < MaxVersion
    /\ version' = [version EXCEPT ![p] = @ + 1]
    /\ UNCHANGED <<hubUp, platform, streamVars, shownVars, meta>>

HubStops ==
  /\ hubUp
  /\ hubUp' = FALSE
  /\ UNCHANGED <<version, platform, streamVars, shownVars, meta>>

HubStarts ==
  /\ ~hubUp
  /\ hubUp' = TRUE
  /\ UNCHANGED <<version, platform, streamVars, shownVars, meta>>

Visitor == SwitchPlatform \/ Refresh \/ BecomeVisible

LiveNext ==
  \/ Visitor
  \/ Opened \/ Message \/ Dropped \/ Retry \/ GraceEnds \/ MetaAnswered
  \/ HubChanges \/ HubStops \/ HubStarts

\* While the page is open: timers fire, a hub that is up answers, and a browser notices
\* one that is down.
LiveFairness ==
  /\ WF_liveVars(Opened)
  /\ WF_liveVars(Message)
  /\ WF_liveVars(~hubUp /\ Dropped)
  /\ WF_liveVars(Retry)
  /\ WF_liveVars(GraceEnds)
  /\ WF_liveVars(MetaAnswered)

LiveSpec == LiveInit /\ [][LiveNext]_liveVars /\ LiveFairness

-----------------------------------------------------------------------------
\* The state is well formed.
LiveTypeOK ==
  /\ hubUp \in BOOLEAN
  /\ version \in [Platforms -> 0..MaxVersion]
  /\ platform \in Platforms
  /\ source \in {"none", "connecting", "open"}
  /\ reopen \in BOOLEAN
  /\ grace \in {"off", "running", "fired"}
  /\ gotData \in BOOLEAN
  /\ snapshot \in {NoData} \cup [of : Platforms, version : 0..MaxVersion]
  /\ failed \in BOOLEAN
  /\ loading \in BOOLEAN
  /\ refreshing \in BOOLEAN
  /\ disconnected \in BOOLEAN
  /\ meta \in [known : {"none", "real", "fallback"}, asked : BOOLEAN]

\* The banner and its timer follow the stream they belong to, however reopened streams,
\* timers and the visitor interleave: no banner over an open stream, no timer left over
\* from another stream, and no banner missing over a stream that dropped after it had
\* shown something.
BannerTellsTruth ==
  /\ source = "open" => ~disconnected
  /\ grace # "off" => gotData /\ source # "open"
  /\ gotData /\ source # "open" => disconnected \/ grace = "running"

\* What keeps the screen from catching up.
LiveDisturbed == Visitor \/ HubStops \/ (hubUp /\ Dropped)

\* When the hub answers and nobody touches anything any more, what is on screen is in
\* the end what the hub has for the platform looked at, with no spinner, no error and
\* no banner left over.
ShownCatchesUp ==
  <>[]hubUp /\ <>[][~LiveDisturbed]_liveVars =>
    <>[](/\ snapshot = Current
         /\ meta.known # "none"
         /\ ~loading /\ ~failed /\ ~refreshing /\ ~disconnected)

=============================================================================
