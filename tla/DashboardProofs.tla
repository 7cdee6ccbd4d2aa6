--------------------------- MODULE DashboardProofs ---------------------------
(***************************************************************************)
(* Proofs about the parts of the dashboard, each for every value of its    *)
(* constants: the contributors' page, the live data, a region's page, the  *)
(* guess of the visitor's region, the preferences, the way between pages,  *)
(* and signing in.                                                         *)
(***************************************************************************)
EXTENDS RegisterPage, LiveIncentives, RegionPage, ClosestRegion, Preferences,
        Navigation, SignIn, TLAPS

(* RegisterPage *)

\* What is still heard is about the platform named above the list.
AskedIsActive == requests \subseteq {ActivePlatform}

CoverageIInv == AskedIsActive /\ CoverageSettles

\* The rows listed are those of the platform named above them, or none, whenever no
\* request is under way, for any platforms the live data and the visitor go through.
THEOREM RegisterCoverageSettles == CoverageSpec => []CoverageSettles
<1>1. CoverageInit => CoverageIInv
  BY DEF CoverageInit, CoverageIInv, AskedIsActive, CoverageSettles
<1>2. CoverageIInv /\ [CoverageNext]_coverageVars => CoverageIInv'
  <2> SUFFICES ASSUME CoverageIInv, [CoverageNext]_coverageVars
               PROVE  CoverageIInv'
    OBVIOUS
  <2> USE DEF CoverageIInv, AskedIsActive, CoverageSettles
  <2>1. ASSUME Follow
        PROVE  CoverageIInv'
    BY <2>1 DEF Follow, AskAgain
  <2>2. ASSUME NEW p \in CoveragePlatforms, CoverageCame(p) \/ CoverageFailed(p)
        PROVE  CoverageIInv'
    <3>1. UNCHANGED ActivePlatform
      BY <2>2 DEF CoverageCame, CoverageFailed, ActivePlatform
    <3> QED
      BY <2>2, <3>1 DEF CoverageCame, CoverageFailed
  <2>3. CASE UNCHANGED coverageVars
    BY <2>3 DEF coverageVars, ActivePlatform
  <2> QED
    BY <2>1, <2>2, <2>3 DEF CoverageNext, DataCome, Pick
<1>3. CoverageIInv => CoverageSettles
  BY DEF CoverageIInv
<1> QED
  BY <1>1, <1>2, <1>3, PTL DEF CoverageSpec

-----------------------------------------------------------------------------
(* LiveIncentives *)

\* The timer that opens the stream again runs only while there is none: the property is
\* not inductive without it, for Retry would replace an open stream.
ReopensNone == reopen => source = "none"

LiveIInv == BannerTellsTruth /\ ReopensNone

\* The banner and its timer tell the truth about the stream they belong to, in every
\* interleaving of timers, stream events, answers and what the visitor does.
THEOREM LiveBannerTellsTruth == LiveSpec => []BannerTellsTruth
<1>1. LiveInit => LiveIInv
  BY DEF LiveInit, LiveIInv, BannerTellsTruth, ReopensNone
<1>2. LiveIInv /\ [LiveNext]_liveVars => LiveIInv'
  <2> SUFFICES ASSUME LiveIInv, [LiveNext]_liveVars
               PROVE  LiveIInv'
    OBVIOUS
  <2> USE DEF LiveIInv, BannerTellsTruth, ReopensNone
  <2>1. CASE Visitor
    BY <2>1 DEF Visitor, SwitchPlatform, Refresh, BecomeVisible, StartOver
  <2>2. CASE Opened \/ Message
    BY <2>2 DEF Opened, Message
  <2>3. CASE Dropped
    BY <2>3 DEF Dropped
  <2>4. CASE Retry
    BY <2>4 DEF Retry, shownVars
  <2>5. CASE GraceEnds
    BY <2>5 DEF GraceEnds
  <2>6. CASE UNCHANGED <<streamVars, shownVars>>
    BY <2>6 DEF streamVars, shownVars
  <2>7. MetaAnswered \/ HubChanges \/ HubStops \/ HubStarts \/ UNCHANGED liveVars
        => UNCHANGED <<streamVars, shownVars>>
    BY DEF MetaAnswered, HubChanges, HubStops, HubStarts, liveVars
  <2> QED
    BY <2>1, <2>2, <2>3, <2>4, <2>5, <2>6, <2>7 DEF LiveNext
<1>3. LiveIInv => BannerTellsTruth
  BY DEF LiveIInv
<1> QED
  BY <1>1, <1>2, <1>3, PTL DEF LiveSpec

\* A stream that has shown something has put away all that stood in its way.
ShowsData == gotData => ~loading /\ ~refreshing /\ ~failed /\ snapshot.of = platform

\* The screen always has a way on.  A stream that is gone comes back, a spinner has a
\* stream that can end it, and the incentives of another platform are on screen only
\* under a spinner or an error.
ScreenMovesOn ==
  /\ source = "none" <=> reopen
  /\ loading \/ refreshing => source # "none"
  /\ snapshot.of # platform => loading \/ failed

\* useIncentives.ts sets the state of one effect from its stream, its timers, the visitor
\* and the next effect: whatever their order, ScreenMovesOn holds, which is the safety
\* half of ShownCatchesUp.
THEOREM LiveScreenMovesOn == LiveSpec => []ScreenMovesOn
<1>1. LiveInit => ScreenMovesOn /\ ShowsData
  BY DEF LiveInit, ScreenMovesOn, ShowsData
<1>2. ScreenMovesOn /\ ShowsData /\ [LiveNext]_liveVars => ScreenMovesOn' /\ ShowsData'
  <2> SUFFICES ASSUME ScreenMovesOn, ShowsData, [LiveNext]_liveVars
               PROVE  ScreenMovesOn' /\ ShowsData'
    OBVIOUS
  <2> USE DEF ScreenMovesOn, ShowsData
  <2>1. CASE Visitor
    BY <2>1 DEF Visitor, SwitchPlatform, Refresh, BecomeVisible, StartOver
  <2>2. CASE Opened \/ Message
    BY <2>2 DEF Opened, Message, Current
  <2>3. CASE Dropped
    BY <2>3 DEF Dropped
  <2>4. CASE Retry
    BY <2>4 DEF Retry, shownVars
  <2>5. CASE GraceEnds
    BY <2>5 DEF GraceEnds
  <2>6. CASE UNCHANGED <<platform, streamVars, shownVars>>
    BY <2>6 DEF streamVars, shownVars
  <2>7. MetaAnswered \/ HubChanges \/ HubStops \/ HubStarts \/ UNCHANGED liveVars
        => UNCHANGED <<platform, streamVars, shownVars>>
    BY DEF MetaAnswered, HubChanges, HubStops, HubStarts, liveVars
  <2> QED
    BY <2>1, <2>2, <2>3, <2>4, <2>5, <2>6, <2>7 DEF LiveNext
<1> QED
  BY <1>1, <1>2, PTL DEF LiveSpec

-----------------------------------------------------------------------------
(* RegionPage *)

\* A request that is not aborted is for what its hook is to show.
AskedIsWanted == \A r \in asked : ~r.aborted => r.want = Wanted(r.hook)

PageIInv == PageTypeOK /\ AskedIsWanted /\ SettledIsCurrent

Wants == [platform : PagePlatforms, start : 0..MaxStart, reload : 0..MaxReload]

\* What a hook is to show names a platform, a window and a reload key.
LEMMA WantedIsWants == ASSUME PageTypeOK, NEW h PROVE Wanted(h) \in Wants
  BY PageAssumption DEF PageTypeOK, Wanted, Wants, Starts

\* The effects run over after a change of inputs: a hook that is not loading then has
\* the inputs it had, and only the requests of such hooks stay unaborted.
LEMMA EffectsInv ==
  ASSUME PageIInv, Effects, UNCHANGED <<range, chartVars>>,
         pagePlatform' \in PagePlatforms, fetchRange' \in Starts, reload' \in 0..MaxReload
  PROVE  PageIInv'
<1> DEFINE changed == {h \in Hooks : Wanted(h)' # Wanted(h)}
           stopped(r) == [r EXCEPT !.aborted = TRUE]
           wants == [h \in Hooks |-> Wanted(h)']
           new(h) == [hook |-> h, want |-> wants[h], aborted |-> FALSE]
           Requests == [hook : Hooks, want : Wants, aborted : BOOLEAN]
<1>1. /\ asked' = {IF r.hook \in changed THEN stopped(r) ELSE r : r \in asked}
                    \cup {new(h) : h \in changed}
      /\ pageLoading' = [h \in Hooks |-> h \in changed \/ pageLoading[h]]
      /\ UNCHANGED <<shown, pageError>>
  BY DEF Effects
<1>2. \A h \in Hooks : wants[h] = Wanted(h)' /\ wants[h] \in Wants
  BY PageAssumption DEF Wanted, Wants, Starts
<1>3. asked \subseteq Requests
  BY DEF PageIInv, PageTypeOK, Wants
<1>4. \A r \in asked : stopped(r) \in Requests /\ stopped(r).aborted /\ r.hook \in Hooks
  BY <1>3
<1>5. \A h \in changed : /\ new(h) \in Requests
                         /\ h \in Hooks /\ new(h).hook = h /\ new(h).want = wants[h]
  BY <1>2
<1> HIDE DEF stopped, wants, new
<1>6. asked' \subseteq Requests
  BY <1>1, <1>3, <1>4, <1>5
<1>7. pageLoading' \in [Hooks -> BOOLEAN]
  BY <1>1 DEF PageIInv, PageTypeOK
<1>8. PageTypeOK'
  BY <1>1, <1>6, <1>7 DEF PageIInv, PageTypeOK, Wants, chartVars
<1>9. AskedIsWanted'
  <2> SUFFICES ASSUME NEW r \in asked', ~r.aborted
               PROVE  r.want = Wanted(r.hook)'
    BY DEF AskedIsWanted
  <2>1. CASE r \in asked /\ r.hook \notin changed
    BY <1>4, <2>1 DEF PageIInv, AskedIsWanted
  <2>2. CASE \E h \in changed : r = new(h)
    BY <1>2, <1>5, <2>2
  <2> QED
    BY <1>1, <1>4, <2>1, <2>2
<1>10. SettledIsCurrent'
  BY <1>1 DEF PageIInv, SettledIsCurrent
<1> QED
  BY <1>8, <1>9, <1>10 DEF PageIInv

\* A request ends: what it set is what its hook is to show, for it was not aborted.
LEMMA EndedInv ==
  ASSUME PageIInv, NEW r \in asked, Answered(r) \/ Failed(r) \/ Dismissed(r)
  PROVE  PageIInv'
<1>0. /\ r.hook \in Hooks /\ r.want \in Wants
      /\ asked \subseteq [hook : Hooks, want : Wants, aborted : BOOLEAN]
      /\ pageLoading \in [Hooks -> BOOLEAN] /\ pageError \in [Hooks -> BOOLEAN]
      /\ shown \in [Hooks -> Wants \cup {Nothing}]
  BY DEF PageIInv, PageTypeOK, Wants
<1>1. /\ asked' = asked \ {r}
      /\ UNCHANGED <<pagePlatform, fetchRange, reload>>
      /\ \A h : Wanted(h)' = Wanted(h)
  BY DEF Answered, Failed, Dismissed, Settle, inputVars, Wanted
<1>2. asked' \subseteq [hook : Hooks, want : Wants, aborted : BOOLEAN] /\ AskedIsWanted'
  BY <1>0, <1>1 DEF PageIInv, AskedIsWanted
<1>3. CASE Answered(r)
  <2>1. /\ r.want = Wanted(r.hook)
        /\ pageLoading' = [pageLoading EXCEPT ![r.hook] = FALSE]
        /\ shown' = [shown EXCEPT ![r.hook] = r.want]
        /\ pageError' = [pageError EXCEPT ![r.hook] = FALSE]
    BY <1>3 DEF Answered, Settle, PageIInv, AskedIsWanted
  <2>2. range' \in Starts /\ extent' \in 0..MaxStart
        /\ everHadData' \in BOOLEAN /\ clampedInit' \in BOOLEAN
    <3>1. FirstReading[r.want.platform] \in 0..MaxStart
      BY <1>0, PageAssumption DEF Wants
    <3>2. extent \in 0..MaxStart /\ range \in Starts /\ everHadData \in BOOLEAN
          /\ clampedInit \in BOOLEAN
      BY DEF PageIInv, PageTypeOK
    <3>3. CASE UNCHANGED <<range, chartVars>>
      BY <3>2, <3>3 DEF chartVars
    <3>4. CASE ChartSees(FirstReading[r.want.platform])
      <4> DEFINE first == FirstReading[r.want.platform]
      <4>1. extent' \in 0..MaxStart /\ everHadData' \in BOOLEAN
        BY <3>1, <3>2, <3>4 DEF ChartSees
      <4>2. clampedInit' \in BOOLEAN
        BY <3>4 DEF ChartSees
      <4>3. range' = range \/ (range' = extent' /\ range < extent')
        BY <3>4 DEF ChartSees
      <4> QED
        BY <3>2, <4>1, <4>2, <4>3, PageAssumption DEF Starts
    <3> QED
      BY <1>3, <3>3, <3>4 DEF Answered
  <2>3. PageTypeOK'
    BY <1>0, <1>1, <1>2, <2>1, <2>2 DEF PageIInv, PageTypeOK, Wants
  <2>4. SettledIsCurrent'
    BY <1>0, <1>1, <2>1 DEF PageIInv, SettledIsCurrent
  <2> QED
    BY <1>2, <2>3, <2>4 DEF PageIInv
<1>4. CASE Failed(r)
  <2>1. /\ pageLoading' = [pageLoading EXCEPT ![r.hook] = FALSE]
        /\ pageError' = [pageError EXCEPT ![r.hook] = TRUE]
        /\ UNCHANGED <<inputVars, shown, chartVars>>
    BY <1>4 DEF Failed, Settle
  <2>2. PageTypeOK'
    BY <1>0, <1>1, <1>2, <2>1 DEF PageIInv, PageTypeOK, Wants, inputVars, chartVars
  <2>3. SettledIsCurrent'
    BY <1>0, <1>1, <2>1 DEF PageIInv, SettledIsCurrent
  <2> QED
    BY <1>2, <2>2, <2>3 DEF PageIInv
<1>5. CASE Dismissed(r)
  BY <1>1, <1>2, <1>5
     DEF Dismissed, PageIInv, PageTypeOK, Wants, SettledIsCurrent, inputVars, hookVars,
         chartVars
<1> QED
  BY <1>3, <1>4, <1>5

LEMMA PageStep ==
  ASSUME PageIInv, [PageNext]_pageVars
  PROVE  PageIInv'
<1>1. CASE SwitchPagePlatform \/ ReloadKeyMoves \/ Debounced
  <2>1. /\ Effects
        /\ UNCHANGED <<range, chartVars>>
    BY <1>1 DEF SwitchPagePlatform, ReloadKeyMoves, Debounced
  <2>2. pagePlatform' \in PagePlatforms /\ fetchRange' \in Starts
    BY <1>1 DEF SwitchPagePlatform, ReloadKeyMoves, Debounced, PageIInv, PageTypeOK
  <2>3. reload' \in 0..MaxReload
    BY <1>1, PageAssumption
       DEF SwitchPagePlatform, ReloadKeyMoves, Debounced, PageIInv, PageTypeOK
  <2> QED
    BY <2>1, <2>2, <2>3, EffectsInv
<1>2. CASE ApplyPreset \/ MoveChart
  <2>1. range' \in Starts
    <3>1. CASE ApplyPreset
      BY <3>1, PageAssumption DEF ApplyPreset, PageIInv, PageTypeOK, Starts
    <3>2. CASE MoveChart
      BY <3>2 DEF MoveChart
    <3> QED
      BY <1>2, <3>1, <3>2
  <2>2. UNCHANGED <<pagePlatform, fetchRange, reload, asked, hookVars, chartVars>>
    BY <1>2 DEF ApplyPreset, MoveChart
  <2>3. \A h : Wanted(h)' = Wanted(h)
    BY <2>2 DEF Wanted
  <2> QED
    BY <2>1, <2>2, <2>3
       DEF PageIInv, PageTypeOK, AskedIsWanted, SettledIsCurrent, hookVars, chartVars
<1>3. ASSUME NEW r \in asked, Answered(r) \/ Failed(r) \/ Dismissed(r)
      PROVE  PageIInv'
  BY <1>3, EndedInv
<1>4. CASE UNCHANGED pageVars
  BY <1>4 DEF pageVars, PageIInv, PageTypeOK, AskedIsWanted, SettledIsCurrent, Wanted,
              inputVars, hookVars, chartVars
<1> QED
  BY <1>1, <1>2, <1>3, <1>4 DEF PageNext, PageVisitor

LEMMA PageInv == PageSpec => []PageIInv
<1>1. PageInit => PageIInv
  <2> SUFFICES ASSUME PageInit PROVE PageIInv
    OBVIOUS
  <2> DEFINE new(h) == [hook |-> h, want |-> Wanted(h), aborted |-> FALSE]
  <2>1. \A h \in Hooks : Wanted(h) \in Wants
    BY PageAssumption DEF PageInit, Wanted, Wants, Starts
  <2>2. asked = {new(h) : h \in Hooks}
    BY DEF PageInit
  <2>3. \A h \in Hooks : new(h) \in [hook : Hooks, want : Wants, aborted : BOOLEAN]
                        /\ new(h).want = Wanted(new(h).hook)
    BY <2>1
  <2> HIDE DEF new
  <2>4. AskedIsWanted /\ asked \subseteq [hook : Hooks, want : Wants, aborted : BOOLEAN]
    BY <2>2, <2>3 DEF AskedIsWanted
  <2>5. /\ shown \in [Hooks -> Wants \cup {Nothing}]
        /\ pageError \in [Hooks -> BOOLEAN]
        /\ pageLoading \in [Hooks -> BOOLEAN]
        /\ \A h \in Hooks : pageLoading[h]
    BY DEF PageInit
  <2>6. range \in Starts /\ fetchRange \in Starts /\ reload \in 0..MaxReload
        /\ extent \in 0..MaxStart
    BY PageAssumption DEF PageInit, Starts
  <2>7. pagePlatform \in PagePlatforms /\ everHadData \in BOOLEAN /\ clampedInit \in BOOLEAN
    BY DEF PageInit
  <2> QED
    BY <2>4, <2>5, <2>6, <2>7 DEF PageIInv, PageTypeOK, SettledIsCurrent, Wants
<1> QED
  BY <1>1, PageStep, PTL DEF PageSpec

\* The state of a region's page is well formed: the windows asked for and shown lie
\* within the bounds, and every request belongs to a hook.
THEOREM RegionPageTypeOK == PageSpec => []PageTypeOK
<1>1. PageIInv => PageTypeOK
  BY DEF PageIInv
<1> QED
  BY <1>1, PageInv, PTL

\* A hook at rest shows what is asked for now, for any number of overlapping requests
\* answered in any order: the cleanup of the effect has aborted all but the newest.
THEOREM RegionSettledIsCurrent == PageSpec => []SettledIsCurrent
<1>1. PageIInv => SettledIsCurrent
  BY DEF PageIInv
<1> QED
  BY <1>1, PageInv, PTL

\* A hook is loading while, and only while, there is a request it still listens to.
LoadingIsAsked ==
  \A h \in Hooks : pageLoading[h] <=> \E r \in asked : r.hook = h /\ ~r.aborted

\* Two requests a hook listens to would be one: both are for what it is to show.
LEMMA OneIsHeard ==
  ASSUME PageIInv, NEW r \in asked, NEW s \in asked,
         r.hook = s.hook, ~r.aborted, ~s.aborted
  PROVE  r = s
<1>1. /\ r \in [hook : Hooks, want : Wants, aborted : BOOLEAN]
      /\ s \in [hook : Hooks, want : Wants, aborted : BOOLEAN]
  BY DEF PageIInv, PageTypeOK, Wants
<1>2. r.want = s.want
  BY DEF PageIInv, AskedIsWanted
<1>3. r.aborted = s.aborted
  BY <1>1
<1>4. /\ r = [hook |-> r.hook, want |-> r.want, aborted |-> r.aborted]
      /\ s = [hook |-> s.hook, want |-> s.want, aborted |-> s.aborted]
  BY <1>1
<1> QED
  BY <1>2, <1>3, <1>4

LEMMA EffectsAsk ==
  ASSUME PageIInv, LoadingIsAsked, Effects
  PROVE  LoadingIsAsked'
<1> DEFINE changed == {h \in Hooks : Wanted(h)' # Wanted(h)}
           stopped(r) == [r EXCEPT !.aborted = TRUE]
           wants == [h \in Hooks |-> Wanted(h)']
           new(h) == [hook |-> h, want |-> wants[h], aborted |-> FALSE]
<1>1. /\ asked' = {IF r.hook \in changed THEN stopped(r) ELSE r : r \in asked}
                    \cup {new(h) : h \in changed}
      /\ pageLoading' = [h \in Hooks |-> h \in changed \/ pageLoading[h]]
  BY DEF Effects
<1>2. \A r \in asked : stopped(r).aborted
  BY DEF PageIInv, PageTypeOK
<1>3. \A h \in changed : new(h).hook = h /\ ~new(h).aborted
  OBVIOUS
<1> HIDE DEF stopped, new, wants
<1> SUFFICES ASSUME NEW h \in Hooks
             PROVE  pageLoading'[h] <=> \E r \in asked' : r.hook = h /\ ~r.aborted
  BY DEF LoadingIsAsked
<1>4. CASE h \in changed
  <2>1. new(h) \in asked'
    BY <1>1, <1>4
  <2> QED
    BY <1>1, <1>3, <1>4, <2>1
<1>5. CASE h \notin changed
  <2>1. pageLoading'[h] <=> pageLoading[h]
    BY <1>1, <1>5
  <2>2. ASSUME NEW r \in asked, r.hook = h, ~r.aborted
        PROVE  r \in asked'
    BY <1>1, <1>5, <2>2
  <2>3. ASSUME NEW r \in asked', r.hook = h, ~r.aborted
        PROVE  r \in asked
    BY <1>1, <1>2, <1>3, <1>5, <2>3
  <2> QED
    BY <2>1, <2>2, <2>3 DEF LoadingIsAsked
<1> QED
  BY <1>4, <1>5

\* Aborted requests, late answers and failures never leave a hook of a region's page with a
\* spinner nothing will end, nor end the spinner of a request still on its way.
THEOREM RegionLoadingIsAsked == PageSpec => []LoadingIsAsked
<1>1. PageInit => LoadingIsAsked
  <2> SUFFICES ASSUME PageInit, NEW h \in Hooks
               PROVE  pageLoading[h] /\ \E r \in asked : r.hook = h /\ ~r.aborted
    BY DEF LoadingIsAsked
  <2> DEFINE new == [hook |-> h, want |-> Wanted(h), aborted |-> FALSE]
  <2>1. new \in asked /\ new.hook = h /\ ~new.aborted
    BY DEF PageInit
  <2> HIDE DEF new
  <2> QED
    BY <2>1 DEF PageInit
<1>2. PageIInv /\ LoadingIsAsked /\ [PageNext]_pageVars => LoadingIsAsked'
  <2> SUFFICES ASSUME PageIInv, LoadingIsAsked, [PageNext]_pageVars
               PROVE  LoadingIsAsked'
    OBVIOUS
  <2>1. CASE SwitchPagePlatform \/ ReloadKeyMoves \/ Debounced
    BY <2>1, EffectsAsk DEF SwitchPagePlatform, ReloadKeyMoves, Debounced
  <2>2. ASSUME NEW r \in asked, Answered(r) \/ Failed(r)
        PROVE  LoadingIsAsked'
    <3>1. /\ ~r.aborted /\ asked' = asked \ {r} /\ r.hook \in Hooks
          /\ pageLoading' = [pageLoading EXCEPT ![r.hook] = FALSE]
          /\ pageLoading \in [Hooks -> BOOLEAN]
      BY <2>2 DEF Answered, Failed, Settle, PageIInv, PageTypeOK
    <3>2. ~ \E s \in asked' : s.hook = r.hook /\ ~s.aborted
      BY <3>1, OneIsHeard
    <3> QED
      BY <3>1, <3>2 DEF LoadingIsAsked
  <2>3. ASSUME NEW r \in asked, Dismissed(r)
        PROVE  LoadingIsAsked'
    BY <2>3 DEF Dismissed, hookVars, LoadingIsAsked
  <2>4. CASE ApplyPreset \/ MoveChart \/ UNCHANGED pageVars
    BY <2>4 DEF ApplyPreset, MoveChart, pageVars, hookVars, LoadingIsAsked
  <2> QED
    BY <2>1, <2>2, <2>3, <2>4 DEF PageNext, PageVisitor
<1> QED
  BY <1>1, <1>2, PageInv, PTL DEF PageSpec

-----------------------------------------------------------------------------
(* ClosestRegion *)

Measures == UNION {[S -> Latencies \cup {Never}] : S \in SUBSET Regions}

\* The measures taken are functions on some of the regions, and there are none before.
LEMMA MeasuresAre ==
  \A f : f \in Measures <=>
    DOMAIN f \subseteq Regions /\ f \in [DOMAIN f -> Latencies \cup {Never}]
BY DEF Measures

LEMMA NoMeasures == NoLatencies \in Measures
<1>1. DOMAIN NoLatencies = {} /\ NoLatencies \in [{} -> Latencies \cup {Never}]
  BY DEF NoLatencies
<1> QED
  BY <1>1, MeasuresAre

\* A region reached has a latency, a whole number of milliseconds.
LEMMA ReachedIsTimed ==
  ASSUME latencies \in Measures, NEW r \in Reached
  PROVE  r \in Regions /\ latencies[r] \in Nat
<1>1. latencies[r] \in Latencies
  BY MeasuresAre DEF Reached
<1>2. \A ms \in Latencies : ms \in 0..(Never - 1)
  BY ClosestAssumption
<1>3. Latencies \subseteq Nat
  BY <1>2
<1> QED
  BY <1>1, <1>3, MeasuresAre DEF Reached

\* Of two regions that are the fastest each is close enough to the other.
LEMMA FastestAreClose ==
  ASSUME latencies \in Measures, NEW r \in Fastest, NEW best \in Fastest
  PROVE  latencies[r] = latencies[best] /\ CloseEnough(r, best)
<1>1. latencies[r] \in Nat /\ latencies[best] \in Nat
  BY ReachedIsTimed DEF Fastest
<1>2. latencies[r] = latencies[best]
  BY <1>1 DEF Fastest
<1>3. \A n, k \in Nat : k >= 100 => 100 * n <= n * k
  <2> SUFFICES ASSUME NEW n \in Nat, NEW k \in Nat, k >= 100
               PROVE  100 * n <= n * k
    OBVIOUS
  <2>1. PICK d \in Nat : k = 100 + d
    <3>1. k - 100 \in Nat /\ k = 100 + (k - 100)
      OBVIOUS
    <3> QED
      BY <3>1
  <2>2. n * k = 100 * n + n * d /\ n * d \in Nat
    BY <2>1
  <2> QED
    BY <2>2
<1> QED
  BY <1>1, <1>2, <1>3, ClosestAssumption DEF CloseEnough

\* Whichever of the fastest is looked at, the winner answered and is close to it.
LEMMA WinnerIsBest ==
  ASSUME latencies \in Measures, NEW first \in Fastest
  PROVE  /\ Winner(first) \in Reached
         /\ \A best \in Fastest : Winner(first) = best \/ CloseEnough(Winner(first), best)
<1>1. \A best \in Fastest : latencies[first] = latencies[best] /\ CloseEnough(first, best)
  BY FastestAreClose
<1>2. CASE Winner(first) = first
  BY <1>1, <1>2 DEF Fastest
<1>3. CASE Winner(first) # first
  <2>1. Winner(first) \in Reached /\ CloseEnough(Winner(first), first)
    BY <1>3 DEF Winner
  <2> QED
    BY <1>1, <2>1 DEF CloseEnough
<1> QED
  BY <1>2, <1>3

ClosestIInv == ClosestTypeOK /\ LocatedBest

Caches == [region : Regions, fresh : BOOLEAN] \cup {NoCache}

\* The page begins with what is cached, or with a detection.
LEMMA StartInv ==
  ASSUME ClosestIInv, NEW c \in Caches, Start(c), UNCHANGED stored, orphan' \in BOOLEAN,
         pin' \in Regions \cup {None}, cache' \in Caches
  PROVE  ClosestIInv'
<1>1. latencies' = NoLatencies /\ latencies' \in Measures
  BY NoMeasures DEF Start
<1>2. c.fresh => c.region \in Regions
  BY DEF Caches, NoCache
<1>3. c.region \in Regions \cup {None}
  BY DEF Caches, NoCache
<1>4. /\ region' \in Regions \cup {None} /\ status' \in {"detecting", "ready"}
      /\ queue' \in Seq(Regions) /\ measuring' = {} /\ cut' = FALSE
      /\ preferred' \in Regions \cup {None}
  <2>1. <<>> \in Seq(Regions) /\ RegionOrder \in Seq(Regions)
    BY ClosestAssumption
  <2>2. CASE c.fresh
    BY <1>2, <2>1, <2>2 DEF Start
  <2>3. CASE ~c.fresh
    BY <1>3, <2>1, <2>3 DEF Start
  <2> QED
    BY <2>2, <2>3
<1>5. ClosestTypeOK'
  BY <1>1, <1>4 DEF ClosestIInv, ClosestTypeOK, Measures, Caches
<1> QED
  BY <1>1, <1>5 DEF ClosestIInv, LocatedBest

\* The workers: a region is taken, measured, or cut off.
LEMMA WorkersInv ==
  ASSUME ClosestIInv, Take \/ Measured \/ Deadline
  PROVE  ClosestIInv'
<1> USE DEF ClosestIInv
<1>1. status' # "ready"
  BY DEF Take, Measured, Deadline, Detecting
<1>2. LocatedBest'
  BY <1>1 DEF LocatedBest
<1>3. CASE Take
  <2>1. Head(queue) \in Regions /\ Tail(queue) \in Seq(Regions)
    BY <1>3 DEF Take, ClosestTypeOK
  <2>2. measuring' \subseteq Regions /\ queue' \in Seq(Regions)
    BY <1>3, <2>1 DEF Take, ClosestTypeOK
  <2> QED
    BY <1>2, <1>3, <2>2 DEF Take, ClosestTypeOK
<1>4. CASE Measured
  <2>1. PICK r \in measuring, ms \in Latencies \cup {Never} :
          /\ measuring' = measuring \ {r}
          /\ latencies' = [x \in DOMAIN latencies \cup {r} |->
                             IF x = r THEN ms ELSE latencies[x]]
    BY <1>4 DEF Measured
  <2>2. latencies \in Measures /\ r \in Regions
    BY DEF ClosestTypeOK, Measures
  <2>3. /\ DOMAIN latencies' \subseteq Regions
        /\ latencies' \in [DOMAIN latencies' -> Latencies \cup {Never}]
    BY <2>1, <2>2, MeasuresAre
  <2>4. latencies' \in Measures
    BY <2>3, MeasuresAre
  <2> QED
    BY <1>2, <1>4, <2>1, <2>4 DEF Measured, ClosestTypeOK, Measures
<1>5. CASE Deadline
  BY <1>2, <1>5 DEF Deadline, ClosestTypeOK
<1> QED
  BY <1>3, <1>4, <1>5

\* A detection comes to its end.
LEMMA FoundInv ==
  ASSUME ClosestIInv, Found \/ FoundNothing
  PROVE  ClosestIInv'
<1>1. latencies \in Measures
  BY DEF ClosestIInv, ClosestTypeOK, Measures
<1>2. UNCHANGED <<stored, pin, queue, measuring, latencies, preferred, cut, orphan>>
  BY DEF Found, FoundNothing, detectionVars
<1>3. CASE Found
  <2>1. PICK first \in Fastest :
          /\ region' = Winner(first)
          /\ cache' = IF stored THEN [region |-> Winner(first), fresh |-> TRUE] ELSE cache
    BY <1>3 DEF Found
  <2>2. region' \in Reached /\ region' \in Regions
        /\ \A best \in Fastest : region' = best \/ CloseEnough(region', best)
    BY <1>1, <2>1, WinnerIsBest, ReachedIsTimed
  <2>3. cache' \in Caches
    BY <2>1, <2>2 DEF Caches, ClosestIInv, ClosestTypeOK
  <2>4. status' = "ready"
    BY <1>3 DEF Found
  <2>5. ClosestTypeOK'
    BY <1>2, <2>2, <2>3, <2>4 DEF Caches, ClosestIInv, ClosestTypeOK
  <2>6. LocatedBest'
    BY <1>2, <2>2 DEF LocatedBest, Reached, Fastest, CloseEnough
  <2> QED
    BY <2>5, <2>6 DEF ClosestIInv
<1>4. CASE FoundNothing
  BY <1>2, <1>4 DEF FoundNothing, ClosestIInv, ClosestTypeOK, LocatedBest
<1> QED
  BY <1>3, <1>4

LEMMA ClosestStep ==
  ASSUME ClosestIInv, [ClosestNext]_closestVars
  PROVE  ClosestIInv'
<1>1. CASE Recheck \/ Load
  <2>1. PICK c \in Caches : Start(c)
    BY <1>1 DEF Recheck, Load, ClosestIInv, ClosestTypeOK, Caches
  <2>2. /\ UNCHANGED stored /\ orphan' \in BOOLEAN
        /\ pin' \in Regions \cup {None} /\ cache' \in Caches
    BY <1>1 DEF Recheck, Load, ClosestIInv, ClosestTypeOK, Caches
  <2> QED
    BY <2>1, <2>2, StartInv
<1>2. CASE Pin \/ CacheExpires
  <2>1. UNCHANGED <<stored, region, status, queue, measuring, latencies, preferred, cut,
                    orphan>>
    BY <1>2 DEF Pin, CacheExpires, locateVars, detectionVars
  <2>2. pin' \in Regions \cup {None}
    BY <1>2 DEF Pin, CacheExpires, ClosestIInv, ClosestTypeOK
  <2>3. cache' \in Caches
    <3>1. CASE CacheExpires
      <4>1. cache \in [region : Regions, fresh : BOOLEAN]
        BY <3>1 DEF CacheExpires, ClosestIInv, ClosestTypeOK, NoCache
      <4> QED
        BY <3>1, <4>1 DEF CacheExpires, Caches
    <3>2. CASE Pin
      BY <3>2 DEF Pin, ClosestIInv, ClosestTypeOK, Caches
    <3> QED
      BY <1>2, <3>1, <3>2
  <2> QED
    BY <2>1, <2>2, <2>3
       DEF ClosestIInv, ClosestTypeOK, Caches, LocatedBest, Reached, Fastest, CloseEnough
<1>3. CASE OrphanEnds \/ UNCHANGED closestVars
  <2>1. /\ UNCHANGED <<cache, stored, pin, region, status, queue, measuring, latencies,
                       preferred, cut>>
        /\ orphan' \in {FALSE, orphan}
    BY <1>3 DEF OrphanEnds, closestVars, locateVars, detectionVars
  <2> QED
    BY <2>1 DEF ClosestIInv, ClosestTypeOK, LocatedBest, Reached, Fastest, CloseEnough
<1> QED
  BY <1>1, <1>2, <1>3, WorkersInv, FoundInv DEF ClosestNext

LEMMA ClosestInv == ClosestSpec => []ClosestIInv
<1>1. ClosestInit => ClosestIInv
  BY NoMeasures, ClosestAssumption
     DEF ClosestInit, ClosestIInv, ClosestTypeOK, LocatedBest, Measures
<1> QED
  BY <1>1, ClosestStep, PTL DEF ClosestSpec

\* The state of the guess is well formed; what is cached names a region.
THEOREM ClosestIsTyped == ClosestSpec => []ClosestTypeOK
<1>1. ClosestIInv => ClosestTypeOK
  BY DEF ClosestIInv
<1> QED
  BY <1>1, ClosestInv, PTL

\* The region shown after a detection answered, and no other beats it by a clear margin:
\* for any number of workers, any round trips and any margin of at least one, and
\* wherever a deadline or a recheck cuts the probes short.
THEOREM ClosestLocatedBest == ClosestSpec => []LocatedBest
<1>1. ClosestIInv => LocatedBest
  BY DEF ClosestIInv
<1> QED
  BY <1>1, ClosestInv, PTL

-----------------------------------------------------------------------------
(* Preferences *)

\* Storage has the last choice of every preference whose choice it did not refuse, and
\* that choice is one it gives back.
ChoiceStored ==
  \A k \in Keys :
    /\ k \notin unkept /\ chosen[k] # Unset => storage[k] = chosen[k]
    /\ chosen[k] \in {Unset} \cup (IF k = "language" THEN Languages ELSE {PutAway})

PreferencesIInv ==
  /\ storage = [k \in Keys |-> storage[k]]
  /\ chosen = [k \in Keys |-> chosen[k]]
  /\ tabShows = [t \in Tabs |-> [k \in Keys |-> tabShows[t][k]]]
  /\ ChoiceStored

LEMMA PreferencesStep ==
  ASSUME PreferencesIInv, [PreferencesNext]_preferenceVars
  PROVE  PreferencesIInv'
<1> USE DEF PreferencesIInv
<1>1. ASSUME NEW t \in Tabs, NEW k \in Keys, Mount(t, k)
      PROVE  PreferencesIInv'
  BY <1>1 DEF Mount, ChoiceStored
<1>2. ASSUME NEW t \in Tabs, NEW k \in Keys, Unmount(t, k)
      PROVE  PreferencesIInv'
  BY <1>2 DEF Unmount, ChoiceStored
<1>3. ASSUME NEW t \in Tabs, NEW k \in Keys, NEW v, Choose(t, k, v),
             v \in IF k = "language" THEN Languages ELSE {PutAway}
      PROVE  PreferencesIInv'
  BY <1>3 DEF Choose, ChoiceStored
<1>4. ASSUME NEW t \in Tabs, NEW l \in Offered, SetLang(t, l)
      PROVE  PreferencesIInv'
  <2>1. Choose(t, "language", l) /\ "language" \in Keys /\ l \in Languages
    BY <1>4 DEF SetLang, Keys, Offered, Languages, BaseCodes
  <2> QED
    BY <1>3, <2>1
<1>5. ASSUME NEW t \in Tabs, NEW b \in Banners, Dismiss(t, b)
      PROVE  PreferencesIInv'
  <2>1. Choose(t, b, PutAway) /\ b \in Keys /\ b # "language"
    BY <1>5, PreferencesAssumption DEF Dismiss, Keys
  <2> QED
    BY <1>3, <2>1
<1>6. CASE UNCHANGED preferenceVars
  BY <1>6 DEF preferenceVars, ChoiceStored
<1> QED
  BY <1>1, <1>2, <1>4, <1>5, <1>6 DEF PreferencesNext

\* What was last chosen in any tab comes back wherever it is read again, for any tabs,
\* banners and choices: only a language the browser had refused to keep is guessed.
THEOREM PreferencesChoiceComesBack == PreferencesSpec => ChoiceComesBack
<1>1. PreferencesInit => PreferencesIInv
  BY DEF PreferencesInit, PreferencesIInv, ChoiceStored
<1>2. PreferencesIInv =>
        \A t \in Tabs, k \in Keys :
          Mount(t, k) /\ chosen[k] # Unset /\ k \notin unkept => tabShows'[t][k] = chosen[k]
  <2> SUFFICES ASSUME PreferencesIInv, NEW t \in Tabs, NEW k \in Keys,
                      Mount(t, k), chosen[k] # Unset, k \notin unkept
               PROVE  tabShows'[t][k] = chosen[k]
    OBVIOUS
  <2>1. tabShows'[t][k] = AtMount(k)
    BY DEF Mount, PreferencesIInv
  <2>2. storage[k] = chosen[k]
        /\ chosen[k] \in IF k = "language" THEN Languages ELSE {PutAway}
    BY DEF PreferencesIInv, ChoiceStored
  <2>3. AtMount(k) = chosen[k]
    BY <2>2 DEF AtMount, DetectLang, BannerAtMount
  <2> QED
    BY <2>1, <2>3
<1> QED
  BY <1>1, <1>2, PreferencesStep, PTL DEF PreferencesSpec, ChoiceComesBack

-----------------------------------------------------------------------------
(* Navigation *)

NavEntries == [route : Routes, query : Queries, seen : Views \cup {NoView}]

Trails == {h \in [entries : Seq(NavEntries), at : Nat] : h.at \in 1 .. Len(h.entries)}

Names == {"none", "home", "region", "register", "login", "admin", "account", "notfound"}

Apps == [who : Whos \cup {"loading"}, gated : BOOLEAN, route : Routes,
         view : Views \cup {NoView}, keyed : Names]

NavIsTyped ==
  /\ trail \in Trails
  /\ app \in Apps
  /\ late \in Routes \cup {NoRoute}
  /\ effects \in [redirect : Routes \cup {NoRoute}, mirror : BOOLEAN]
  /\ leaving \in Routes \cup {NoRoute}

\* Every entry but the one the tab is at shows again what it showed when it was left.
Linked(h) ==
  \A i \in 1 .. Len(h.entries) :
    i # h.at => h.entries[i].seen \in {NoView, Parse(h.entries[i].query)}

\* A redirect is due only over "Loading", and a view is mirrored only where there is one.
EffectsFit ==
  /\ effects.redirect # NoRoute => app.view = NoView
  /\ effects.mirror => app.view # NoView

NavIInv == NavIsTyped /\ Linked(trail) /\ EffectsFit /\ LinkKeepsView

\* A link gives back the view it was made from, but for blanks around the search.
LEMMA ParseOfQuery ==
  ASSUME NEW v \in Views
  PROVE  /\ Parse(ToQuery(v)) = [v EXCEPT !.search = Trimmed(@)]
         /\ Parse(ToQuery(v)) \in Views
<1>1. v.search \in Searches /\ v.page \in {0, 1} /\ v = [search |-> v.search, page |-> v.page]
  BY DEF Views
<1>2. Trimmed(v.search) \in Searches /\ (v.search = "" => Trimmed(v.search) = "")
  BY <1>1 DEF Trimmed, Searches
<1> DEFINE link == ToQuery(v)
<1>3. /\ "q" \in DOMAIN link <=> v.search # ""
      /\ "q" \in DOMAIN link => link["q"] = Trimmed(v.search)
  BY DEF ToQuery
<1>4. /\ "page" \in DOMAIN link <=> v.page > 0
      /\ "page" \in DOMAIN link => link["page"] = v.page + 1
  BY DEF ToQuery
<1> HIDE DEF link
<1>5. Parse(link) = [search |-> Trimmed(v.search), page |-> v.page]
  <2>1. (IF "q" \in DOMAIN link THEN link["q"] ELSE "") = Trimmed(v.search)
    BY <1>2, <1>3
  <2>2. (IF "page" \in DOMAIN link /\ link["page"] > 1 THEN link["page"] - 1 ELSE 0) = v.page
    <3>1. CASE v.page = 0
      BY <1>4, <3>1
    <3>2. CASE v.page = 1
      <4>1. "page" \in DOMAIN link /\ link["page"] = 2
        BY <1>4, <3>2
      <4> QED
        BY <3>2, <4>1
    <3> QED
      BY <1>1, <3>1, <3>2
  <2> QED
    BY <2>1, <2>2 DEF Parse
<1>6. [v EXCEPT !.search = Trimmed(@)] = [search |-> Trimmed(v.search), page |-> v.page]
  BY DEF Views
<1>7. [search |-> Trimmed(v.search), page |-> v.page] \in Views
  BY <1>1, <1>2 DEF Views
<1> QED
  BY <1>5, <1>6, <1>7 DEF link

\* Whatever link is opened, the view read from it is one there is.
LEMMA ParseIsView == ASSUME NEW q \in Queries PROVE Parse(q) \in Views
<1>1. CASE \E v \in Views : q = ToQuery(v)
  BY <1>1, ParseOfQuery
<1>2. CASE q = [k \in {"page"} |-> 1]
  BY <1>2 DEF Parse, Views, Searches
<1> QED
  BY <1>1, <1>2 DEF Queries

LEMMA NoViewIsNone == NoView \notin Views
BY DEF NoView, Views

LEMMA RoutesAre ==
  /\ \A name \in {"register", "login", "admin", "account", "notfound"} : Plain(name) \in Routes
  /\ Home(DefaultPlatform) \in Routes
  /\ NoRoute \notin Routes
  /\ \A r \in Routes \cup {NoRoute} : r.name \in Names
<1>1. \A name \in {"register", "login", "admin", "account", "notfound"} : Plain(name) \in Routes
  BY DEF Routes
<1>2. Home(DefaultPlatform) \in Routes
  BY NavigationAssumptions DEF Routes
<1>3. ASSUME NEW r \in Routes
      PROVE  r.name \in Names \ {"none"}
  BY DEF Names, Routes, Plain, Home, RegionOf
<1>4. NoRoute.name = "none"
  BY DEF NoRoute, Plain
<1>5. NoRoute \notin Routes
  BY <1>3, <1>4
<1>6. \A r \in Routes \cup {NoRoute} : r.name \in Names
  BY <1>3, <1>4 DEF Names
<1> QED
  BY <1>1, <1>2, <1>5, <1>6

LEMMA NewEntry ==
  ASSUME NEW r \in Routes
  PROVE  Entry(r, EmptyQuery) \in NavEntries /\ Entry(r, EmptyQuery).route = r
<1>1. EmptyQuery \in Queries
  <2>1. [search |-> "", page |-> 0] \in Views
    BY DEF Views, Searches
  <2> QED
    BY <2>1 DEF EmptyQuery, Queries
<1> QED
  BY <1>1 DEF Entry, NavEntries

-----------------------------------------------------------------------------
\* The query of the entry the tab is at becomes a view's.
LEMMA MirroredIs ==
  ASSUME NEW h \in Trails, Linked(h), NEW v \in Views
  PROVE  /\ Mirrored(h, v) \in Trails /\ Linked(Mirrored(h, v))
         /\ Here(Mirrored(h, v)).query = ToQuery(v)
<1> DEFINE e == [h.entries[h.at] EXCEPT !.query = ToQuery(v)]
           m == Mirrored(h, v)
<1>1. h.entries \in Seq(NavEntries) /\ h.at \in 1 .. Len(h.entries)
  BY DEF Trails
<1>2. h.entries[h.at] \in NavEntries
  BY <1>1
<1>3. e \in NavEntries /\ e.query = ToQuery(v)
  BY <1>2 DEF NavEntries, Queries
<1>4. m = [h EXCEPT !.entries = [h.entries EXCEPT ![h.at] = e]]
  BY DEF Mirrored
<1> HIDE DEF e, m
<1>5. m.entries = [h.entries EXCEPT ![h.at] = e] /\ m.at = h.at
      /\ m \in [entries : {m.entries}, at : Nat]
  BY <1>4 DEF Trails
<1>6. m.entries \in Seq(NavEntries) /\ Len(m.entries) = Len(h.entries)
      /\ \A i \in 1 .. Len(h.entries) :
           m.entries[i] = IF i = h.at THEN e ELSE h.entries[i]
  BY <1>1, <1>3, <1>5
<1> QED
  BY <1>1, <1>3, <1>5, <1>6 DEF Trails, Linked, Here, m

\* An entry is left, showing nothing or what its query says.
LEMMA LeftIs ==
  ASSUME NEW h \in Trails, Linked(h), NEW seen \in Views \cup {NoView},
         seen \in {NoView, Parse(Here(h).query)}
  PROVE  /\ Left(h, seen) \in Trails
         /\ Left(h, seen).at = h.at /\ Len(Left(h, seen).entries) = Len(h.entries)
         /\ \A i \in 1 .. Len(h.entries) :
              /\ Left(h, seen).entries[i].seen \in {NoView, Parse(Left(h, seen).entries[i].query)}
              /\ i # h.at => Left(h, seen).entries[i] = h.entries[i]
<1> DEFINE e == [h.entries[h.at] EXCEPT !.seen = seen]
           m == Left(h, seen)
<1>1. h.entries \in Seq(NavEntries) /\ h.at \in 1 .. Len(h.entries)
  BY DEF Trails
<1>2. h.entries[h.at] \in NavEntries
  BY <1>1
<1>3. e \in NavEntries /\ e.seen = seen /\ e.query = Here(h).query
  BY <1>2 DEF NavEntries, Here
<1>4. m = [h EXCEPT !.entries = [h.entries EXCEPT ![h.at] = e]]
  BY DEF Left
<1> HIDE DEF e, m
<1>5. m.entries = [h.entries EXCEPT ![h.at] = e] /\ m.at = h.at
      /\ m \in [entries : {m.entries}, at : Nat]
  BY <1>4 DEF Trails
<1>6. m.entries \in Seq(NavEntries) /\ Len(m.entries) = Len(h.entries)
      /\ \A i \in 1 .. Len(h.entries) :
           m.entries[i] = IF i = h.at THEN e ELSE h.entries[i]
  BY <1>1, <1>3, <1>5
<1>7. m \in Trails
  BY <1>1, <1>5, <1>6 DEF Trails
<1>8. \A i \in 1 .. Len(h.entries) :
        /\ m.entries[i].seen \in {NoView, Parse(m.entries[i].query)}
        /\ i # h.at => m.entries[i] = h.entries[i]
  BY <1>3, <1>6 DEF Linked
<1> QED
  BY <1>5, <1>6, <1>7, <1>8 DEF m

\* pushState keeps what lies behind, of which the browser may drop the oldest.
LEMMA PushIs ==
  ASSUME NEW h \in Trails, Linked(h), NEW seen \in Views \cup {NoView},
         seen \in {NoView, Parse(Here(h).query)}, NEW r \in Routes
  PROVE  Push(h, r, seen) \in Trails /\ Linked(Push(h, r, seen))
         /\ Here(Push(h, r, seen)).route = r
<1> DEFINE left == Left(h, seen).entries
           e == Entry(r, EmptyQuery)
           kept == SubSeq(left, 1, h.at)
           all == Append(kept, e)
           p == Push(h, r, seen)
<1>1. /\ left \in Seq(NavEntries) /\ h.at \in 1 .. Len(left)
      /\ \A i \in 1 .. Len(left) : left[i].seen \in {NoView, Parse(left[i].query)}
  BY LeftIs DEF Trails
<1>2. e \in NavEntries /\ e.route = r
  BY NewEntry
<1>3. p = IF Len(all) > MaxEntries THEN [entries |-> Tail(all), at |-> Len(Tail(all))]
                                   ELSE [entries |-> all, at |-> Len(all)]
  BY DEF Push
<1> HIDE DEF left, e, p
<1>4. /\ kept \in Seq(NavEntries) /\ Len(kept) = h.at
      /\ \A i \in 1 .. h.at : kept[i] = left[i]
  BY <1>1
<1> HIDE DEF kept
<1>5. /\ all \in Seq(NavEntries) /\ Len(all) = h.at + 1 /\ h.at \in Nat \ {0}
      /\ \A i \in 1 .. h.at : all[i] = left[i]
      /\ all[h.at + 1] = e
  BY <1>1, <1>2, <1>4
<1> HIDE DEF all
<1>6. /\ Tail(all) \in Seq(NavEntries) /\ Len(Tail(all)) = h.at
      /\ \A i \in 1 .. h.at : Tail(all)[i] = all[i + 1]
  BY <1>5
<1>7. CASE Len(all) > MaxEntries
  <2>1. p.entries = Tail(all) /\ p.at = h.at /\ p \in [entries : Seq(NavEntries), at : Nat]
    BY <1>3, <1>5, <1>6, <1>7
  <2>2. \A i \in 1 .. h.at :
          i # h.at => Tail(all)[i].seen \in {NoView, Parse(Tail(all)[i].query)}
    <3>1. ASSUME NEW i \in 1 .. h.at, i # h.at
          PROVE  i + 1 \in 1 .. h.at /\ i + 1 \in 1 .. Len(left)
      BY <1>1, <1>5, <3>1
    <3> QED
      BY <1>1, <1>5, <1>6, <3>1
  <2> QED
    BY <1>2, <1>5, <1>6, <2>1, <2>2 DEF Trails, Linked, Here, p
<1>8. CASE ~(Len(all) > MaxEntries)
  <2>1. p.entries = all /\ p.at = h.at + 1 /\ p \in [entries : Seq(NavEntries), at : Nat]
    BY <1>3, <1>5, <1>8
  <2>2. \A i \in 1 .. h.at + 1 :
          i # h.at + 1 => all[i].seen \in {NoView, Parse(all[i].query)}
    <3>1. ASSUME NEW i \in 1 .. h.at + 1, i # h.at + 1
          PROVE  i \in 1 .. h.at /\ i \in 1 .. Len(left)
      BY <1>1, <1>5, <3>1
    <3> QED
      BY <1>1, <1>5, <3>1
  <2> QED
    BY <1>2, <1>5, <2>1, <2>2 DEF Trails, Linked, Here, p
<1> QED
  BY <1>7, <1>8

\* navigate pushes only another route.
LEMMA NavigatedIs ==
  ASSUME NEW h \in Trails, Linked(h), NEW seen \in Views \cup {NoView},
         seen \in {NoView, Parse(Here(h).query)}, NEW r \in Routes
  PROVE  /\ Navigated(h, r, seen) \in Trails /\ Linked(Navigated(h, r, seen))
         /\ \/ Navigated(h, r, seen) = h
            \/ Here(Navigated(h, r, seen)).route # Here(h).route
BY PushIs DEF Navigated

\* What the effects of a render leave.
LEMMA AfterEffectsIs ==
  ASSUME NEW h \in Trails, Linked(h), NEW view, NEW fx,
         fx.redirect \in Routes \cup {NoRoute}, fx.mirror => view \in Views
  PROVE  /\ AfterEffects(h, fx, view) \in Trails /\ Linked(AfterEffects(h, fx, view))
         /\ fx.redirect = NoRoute /\ fx.mirror =>
              Here(AfterEffects(h, fx, view)).query = ToQuery(view)
         /\ fx.redirect = NoRoute /\ ~fx.mirror => AfterEffects(h, fx, view) = h
<1> DEFINE m == IF fx.mirror THEN Mirrored(h, view) ELSE h
<1>1. m \in Trails /\ Linked(m) /\ (fx.mirror => Here(m).query = ToQuery(view))
  BY MirroredIs
<1>2. AfterEffects(h, fx, view) =
        IF fx.redirect # NoRoute THEN Navigated(m, fx.redirect, NoView) ELSE m
  BY DEF AfterEffects
<1>3. ~fx.mirror => m = h
  OBVIOUS
<1> HIDE DEF m
<1> QED
  BY <1>1, <1>2, <1>3, NavigatedIs

\* A redirect goes to one of the routes.
LEMMA TargetIs ==
  ASSUME NEW a
  PROVE  Target(a) \in Routes \cup {NoRoute} /\ Target(a).name \in Names
BY RoutesAre DEF Target

\* The render of a keeps who is there and the route; its view is a view there is, and
\* none over "Loading".
LEMMA RenderedIs ==
  ASSUME NEW a \in Apps, NEW h \in Trails
  PROVE  /\ Rendered(a, h) \in Apps
         /\ Target(Rendered(a, h)) = Target(a)
         /\ Target(a) # NoRoute => Rendered(a, h).view = NoView
         /\ Rendered(a, h).view \in {NoView, IF a.view = NoView THEN Parse(Here(h).query)
                                                                ELSE a.view}
<1> DEFINE view == IF ~DashboardShown(a) THEN NoView
                   ELSE IF a.view = NoView THEN Parse(Here(h).query) ELSE a.view
           name == Target(a).name
           b == [a EXCEPT !.keyed = name, !.view = view]
<1>1. Rendered(a, h) = b
  BY DEF Rendered
<1>2. Parse(Here(h).query) \in Views
  <2>1. Here(h) \in NavEntries
    BY DEF Here, Trails
  <2> QED
    BY <2>1, ParseIsView DEF NavEntries
<1>3. view \in Views \cup {NoView}
  BY <1>2 DEF Apps
<1>4. name \in Names
  BY TargetIs
<1>5. Target(a) # NoRoute => view = NoView
  BY DEF DashboardShown, Loading
<1>6. view \in {NoView, IF a.view = NoView THEN Parse(Here(h).query) ELSE a.view}
  OBVIOUS
<1> HIDE DEF view, name
<1>7. b \in Apps /\ b.who = a.who /\ b.gated = a.gated /\ b.route = a.route /\ b.view = view
  BY <1>3, <1>4 DEF Apps
<1> HIDE DEF b
<1>8. Target(b) = Target(a)
  BY <1>7 DEF Target
<1> QED
  BY <1>1, <1>5, <1>6, <1>7, <1>8

\* What the visitor sees of the view is what the query of the entry says.
LEMMA ShowingIs ==
  ASSUME NavIInv
  PROVE  Showing \in Views \cup {NoView} /\ Showing \in {NoView, Parse(Here(trail).query)}
<1>1. CASE app.view # NoView /\ ~carried /\ effects = NoEffects
  <2>1. app.view \in Views
    BY <1>1 DEF NavIInv, NavIsTyped, Apps
  <2>2. Here(trail).query = ToQuery(app.view)
    BY <1>1 DEF NavIInv, LinkKeepsView
  <2> QED
    BY <1>1, <2>1, <2>2, ParseOfQuery DEF Showing
<1>2. CASE ~(app.view # NoView /\ ~carried /\ effects = NoEffects)
  BY <1>2 DEF Showing
<1> QED
  BY <1>1, <1>2

\* The effects of a render: over "Loading" a redirect, over a view its mirror.
LEMMA EffectsAre ==
  ASSUME NavIInv, NEW b \in Apps, Target(b) # NoRoute => b.view = NoView,
         NEW set \in BOOLEAN
  PROVE  /\ EffectsOf(b, set) \in [redirect : Routes \cup {NoRoute}, mirror : BOOLEAN]
         /\ EffectsOf(b, set).redirect # NoRoute => b.view = NoView
         /\ EffectsOf(b, set).mirror <=> b.view # NoView /\ (set \/ app.view = NoView)
         /\ EffectsOf(b, set).mirror => b.view \in Views
BY TargetIs DEF EffectsOf, Apps

\* A render by itself keeps the invariant, whether its effects run at once or later: its
\* view is mirrored, unless it is the view of before, over the same query or carried.
LEMMA CommitInv ==
  ASSUME NavIInv, effects = NoEffects, NEW h \in Trails, Linked(h), NEW a \in Apps,
         NEW set \in BOOLEAN, CommitNow(h, a, set) \/ (set = FALSE /\ CommitLater(h, a)),
         h = trail \/ Here(h).route # Here(trail).route,
         ~set => a.view = app.view,
         leaving' \in Routes \cup {NoRoute}
  PROVE  NavIInv'
<1> DEFINE b == Rendered(a, h)
           fx == EffectsOf(b, set)
<1>1. /\ b \in Apps /\ Target(b) = Target(a) /\ (Target(a) # NoRoute => b.view = NoView)
      /\ b.view \in {NoView, IF a.view = NoView THEN Parse(Here(h).query) ELSE a.view}
  BY RenderedIs
<1>2. /\ fx \in [redirect : Routes \cup {NoRoute}, mirror : BOOLEAN]
      /\ fx.redirect # NoRoute => b.view = NoView
      /\ fx.mirror <=> b.view # NoView /\ (set \/ app.view = NoView)
      /\ fx.mirror => b.view \in Views
  BY <1>1, EffectsAre
<1>3. NoEffects \in [redirect : Routes \cup {NoRoute}, mirror : BOOLEAN]
      /\ NoEffects.redirect = NoRoute /\ NoEffects.mirror = FALSE
  BY DEF NoEffects
<1>4. CASE CommitNow(h, a, set)
  <2>1. /\ app' = b /\ trail' = AfterEffects(h, fx, b.view)
        /\ late' = fx.redirect /\ effects' = NoEffects
        /\ Histories(h, b, fx.mirror)
    BY <1>4 DEF CommitNow
  <2> HIDE DEF b, fx
  <2>2. /\ trail' \in Trails /\ Linked(trail')
        /\ fx.redirect = NoRoute /\ fx.mirror => Here(trail').query = ToQuery(b.view)
        /\ fx.redirect = NoRoute /\ ~fx.mirror => trail' = h
    BY <1>2, <2>1, AfterEffectsIs
  <2>3. NavIsTyped'
    BY <1>1, <1>2, <1>3, <2>1, <2>2 DEF NavIsTyped
  <2>4. EffectsFit'
    BY <1>3, <2>1 DEF EffectsFit
  <2>5. ASSUME b.view # NoView, ~carried'
        PROVE  Here(trail').query = ToQuery(b.view)
    <3>1. fx.redirect = NoRoute
      BY <1>2, <2>5
    <3>2. CASE ~fx.mirror
      <4>1. ~set /\ app.view # NoView
        BY <1>2, <2>5, <3>2
      <4>2. b.view = app.view
        BY <1>1, <2>5, <4>1
      <4>3. ~carried /\ Here(h).route = Here(trail).route
        BY <2>1, <2>5, <3>2, <4>1 DEF Histories
      <4> QED
        BY <2>2, <3>1, <3>2, <4>1, <4>2, <4>3 DEF NavIInv, LinkKeepsView
    <3> QED
      BY <2>2, <3>1, <3>2
  <2> QED
    BY <2>1, <2>2, <2>3, <2>4, <2>5 DEF NavIInv, LinkKeepsView, Linked, Here
<1>5. CASE set = FALSE /\ CommitLater(h, a)
  <2>1. /\ app' = b /\ trail' = h /\ late' = NoRoute /\ effects' = fx
        /\ Histories(h, b, FALSE)
    BY <1>5 DEF CommitLater
  <2> HIDE DEF b, fx
  <2>2. NavIsTyped'
    BY <1>1, <1>2, <2>1 DEF NavIsTyped
  <2>3. EffectsFit'
    BY <1>2, <2>1 DEF EffectsFit
  <2>4. ASSUME b.view # NoView, ~carried', fx = NoEffects
        PROVE  Here(h).query = ToQuery(b.view)
    <3>1. app.view # NoView
      BY <1>2, <1>3, <2>4
    <3>2. b.view = app.view
      BY <1>1, <1>5, <2>4, <3>1
    <3>3. ~carried /\ Here(h).route = Here(trail).route
      BY <2>1, <2>4, <3>1 DEF Histories
    <3> QED
      BY <3>1, <3>2, <3>3 DEF NavIInv, LinkKeepsView
  <2> QED
    BY <2>1, <2>2, <2>3, <2>4 DEF NavIInv, LinkKeepsView, Linked, Here
<1> QED
  BY <1>4, <1>5

\* The entry a traversal comes to, and all the others, are as they were; the one it left
\* has what it showed.
LEMMA TraversedIs ==
  ASSUME NavIInv, NEW i \in DOMAIN trail.entries \ {trail.at}
  PROVE  /\ [Left(trail, Showing) EXCEPT !.at = i] \in Trails
         /\ Linked([Left(trail, Showing) EXCEPT !.at = i])
         /\ Here([Left(trail, Showing) EXCEPT !.at = i]) = trail.entries[i]
<1> DEFINE left == Left(trail, Showing)
           there == [left EXCEPT !.at = i]
<1>1. /\ left \in Trails /\ left.at = trail.at /\ Len(left.entries) = Len(trail.entries)
      /\ \A j \in 1 .. Len(trail.entries) :
           /\ left.entries[j].seen \in {NoView, Parse(left.entries[j].query)}
           /\ j # trail.at => left.entries[j] = trail.entries[j]
  BY ShowingIs, LeftIs DEF NavIInv, NavIsTyped
<1>2. i \in 1 .. Len(trail.entries)
  BY DEF NavIInv, NavIsTyped, Trails
<1> HIDE DEF left
<1>3. there.entries = left.entries /\ there.at = i
      /\ there \in [entries : Seq(NavEntries), at : Nat]
  BY <1>1, <1>2 DEF Trails
<1> HIDE DEF there
<1>4. there \in Trails /\ Linked(there) /\ Here(there) = trail.entries[i]
  BY <1>1, <1>2, <1>3 DEF Trails, Linked, Here
<1> QED
  BY <1>4 DEF there, left

\* Back and Forward: the effects still to run may write to the entry come to, and the
\* render that follows writes over it.
LEMMA TraverseInv ==
  ASSUME NavIInv, NEW i, Traverse(i)
  PROVE  NavIInv'
<1> DEFINE there == [Left(trail, Showing) EXCEPT !.at = i]
           listens == app.view # NoView /\ ~effects.mirror
           view == IF listens THEN Parse(Here(there).query) ELSE app.view
           popped == [app EXCEPT !.route = Here(there).route, !.view = view]
           b == Rendered(popped, there)
           before == AfterEffects(there, effects, app.view)
           fx == EffectsOf(b, TRUE)
<1>1. /\ i \in DOMAIN trail.entries \ {trail.at}
      /\ app' = b /\ trail' = AfterEffects(before, fx, b.view)
      /\ late' = IF fx.redirect # NoRoute THEN fx.redirect ELSE effects.redirect
      /\ effects' = NoEffects /\ leaving' = leaving
  BY DEF Traverse
<1>2. there \in Trails /\ Linked(there)
  BY <1>1, TraversedIs
<1>3. /\ app \in Apps
      /\ effects.redirect \in Routes \cup {NoRoute}
      /\ effects.mirror => app.view \in Views
      /\ leaving \in Routes \cup {NoRoute}
  BY DEF NavIInv, NavIsTyped, EffectsFit, Apps
<1> HIDE DEF there
<1>4. before \in Trails /\ Linked(before)
  BY <1>2, <1>3, AfterEffectsIs
<1>5. popped \in Apps
  <2>1. Here(there) \in NavEntries
    BY <1>2 DEF Here, Trails
  <2>2. Here(there).route \in Routes /\ view \in Views \cup {NoView}
    BY <1>3, <2>1, ParseIsView DEF NavEntries, Apps
  <2> HIDE DEF view
  <2> QED
    BY <1>3, <2>2 DEF Apps
<1> HIDE DEF before, popped
<1>6. b \in Apps /\ (Target(b) # NoRoute => b.view = NoView)
  BY <1>2, <1>5, RenderedIs
<1> HIDE DEF b
<1>7. /\ fx \in [redirect : Routes \cup {NoRoute}, mirror : BOOLEAN]
      /\ fx.redirect # NoRoute => b.view = NoView
      /\ fx.mirror <=> b.view # NoView
      /\ fx.mirror => b.view \in Views
  BY <1>6, EffectsAre
<1> HIDE DEF fx
<1>8. /\ trail' \in Trails /\ Linked(trail')
      /\ b.view # NoView => Here(trail').query = ToQuery(b.view)
  BY <1>1, <1>4, <1>7, AfterEffectsIs
<1>9. NoEffects \in [redirect : Routes \cup {NoRoute}, mirror : BOOLEAN]
      /\ NoEffects.redirect = NoRoute /\ NoEffects.mirror = FALSE
  BY DEF NoEffects
<1>10. NavIsTyped'
  BY <1>1, <1>3, <1>6, <1>7, <1>8, <1>9 DEF NavIsTyped
<1> QED
  BY <1>1, <1>8, <1>9, <1>10 DEF NavIInv, EffectsFit, LinkKeepsView, Linked, Here

\* The effects of a later render.
LEMMA RunEffectsInv ==
  ASSUME NavIInv, RunEffects
  PROVE  NavIInv'
<1>1. /\ effects # NoEffects
      /\ trail' = AfterEffects(trail, effects, app.view)
      /\ late' \in {effects.redirect, late} /\ effects' = NoEffects
      /\ UNCHANGED <<app, leaving, carried>>
  BY DEF RunEffects
<1>2. /\ trail \in Trails /\ Linked(trail)
      /\ effects \in [redirect : Routes \cup {NoRoute}, mirror : BOOLEAN]
      /\ effects.redirect # NoRoute => app.view = NoView
      /\ effects.mirror => app.view \in Views
  BY DEF NavIInv, NavIsTyped, EffectsFit, Apps
<1>3. effects.redirect = NoRoute => effects.mirror
  BY <1>1, <1>2 DEF NoEffects
<1>4. /\ trail' \in Trails /\ Linked(trail')
      /\ app.view # NoView => Here(trail').query = ToQuery(app.view)
  BY <1>1, <1>2, <1>3, AfterEffectsIs
<1>5. NoEffects \in [redirect : Routes \cup {NoRoute}, mirror : BOOLEAN]
      /\ NoEffects.redirect = NoRoute /\ NoEffects.mirror = FALSE
  BY DEF NoEffects
<1>6. NavIsTyped'
  BY <1>1, <1>2, <1>4, <1>5 DEF NavIInv, NavIsTyped
<1> QED
  BY <1>1, <1>4, <1>5, <1>6 DEF NavIInv, EffectsFit, LinkKeepsView, Linked, Here

LEMMA PressInv ==
  ASSUME NavIInv, NEW to \in Routes, Press(to)
  PROVE  NavIInv'
<1> DEFINE h == Navigated(trail, to, Showing)
           a == [app EXCEPT !.route = to]
<1>1. effects = NoEffects /\ CommitNow(h, a, FALSE) /\ leaving' = leaving
  BY DEF Press
<1>2. h \in Trails /\ Linked(h) /\ (h = trail \/ Here(h).route # Here(trail).route)
  BY ShowingIs, NavigatedIs DEF NavIInv, NavIsTyped
<1>3. a \in Apps /\ a.view = app.view
  BY DEF NavIInv, NavIsTyped, Apps
<1>4. leaving' \in Routes \cup {NoRoute}
  BY <1>1 DEF NavIInv, NavIsTyped
<1> HIDE DEF h, a
<1> QED
  BY <1>1, <1>2, <1>3, <1>4, CommitInv

LEMMA SetViewInv ==
  ASSUME NavIInv, NEW v \in Views, SetView(v)
  PROVE  NavIInv'
<1> DEFINE a == [app EXCEPT !.view = v]
<1>1. effects = NoEffects /\ CommitNow(trail, a, TRUE) /\ leaving' = leaving
  BY DEF SetView
<1>2. trail \in Trails /\ Linked(trail)
  BY DEF NavIInv, NavIsTyped
<1>3. a \in Apps
  BY DEF NavIInv, NavIsTyped, Apps
<1>4. leaving' \in Routes \cup {NoRoute}
  BY <1>1 DEF NavIInv, NavIsTyped
<1> HIDE DEF a
<1> QED
  BY <1>1, <1>2, <1>3, <1>4, CommitInv

\* What a search and a page button set are views.
LEMMA ViewsSet ==
  ASSUME NavIInv, NEW s \in Searches, NEW p \in 0 .. 1
  PROVE  [search |-> s, page |-> 0] \in Views /\ [app.view EXCEPT !.page = p] \in Views
<1>1. app.view \in Views \cup {NoView}
  BY DEF NavIInv, NavIsTyped, Apps
<1>2. NoView \in [search : Searches, page : Nat]
  BY DEF NoView, Searches
<1>3. Views \subseteq [search : Searches, page : Nat]
  BY DEF Views
<1>4. app.view \in [search : Searches, page : Nat]
  BY <1>1, <1>2, <1>3
<1> QED
  BY <1>4 DEF Views

LEMMA SearchAndTurnInv ==
  ASSUME NavIInv, NEW s \in Searches, NEW p \in 0 .. 1, Search(s) \/ Turn(p)
  PROVE  NavIInv'
BY ViewsSet, SetViewInv DEF Search, Turn

\* A render that comes later: the one a redirect asked for, the answer who is signed in,
\* the end of a sign-out.
LEMMA LaterInv ==
  ASSUME NavIInv, NEW h \in Trails, Linked(h),
         h = trail \/ Here(h).route # Here(trail).route,
         NEW a \in Apps, a.view = app.view, CommitLater(h, a),
         leaving' \in Routes \cup {NoRoute}
  PROVE  NavIInv'
<1>1. effects = NoEffects
  BY DEF CommitLater
<1> QED
  BY <1>1, CommitInv

LEMMA RenderLateInv ==
  ASSUME NavIInv, RenderLate
  PROVE  NavIInv'
<1> DEFINE a == [app EXCEPT !.route = late]
<1>1. late # NoRoute /\ CommitLater(trail, a) /\ leaving' = leaving
  BY DEF RenderLate
<1>2. a \in Apps /\ a.view = app.view
  BY <1>1 DEF NavIInv, NavIsTyped, Apps
<1>3. trail \in Trails /\ Linked(trail) /\ leaving' \in Routes \cup {NoRoute}
  BY <1>1 DEF NavIInv, NavIsTyped
<1> HIDE DEF a
<1> QED
  BY <1>1, <1>2, <1>3, LaterInv

LEMMA LearntInv ==
  ASSUME NavIInv, NEW h \in Trails, Linked(h),
         h = trail \/ Here(h).route # Here(trail).route,
         NEW who \in Whos, NEW gated \in BOOLEAN, NEW route \in Routes,
         Learnt(h, who, gated, route), leaving' \in Routes \cup {NoRoute}
  PROVE  NavIInv'
<1> DEFINE shut == gated /\ who = "out"
           a == [app EXCEPT !.who = who, !.gated = shut, !.route = route]
<1>1. CommitLater(h, a)
  BY DEF Learnt
<1>2. shut \in BOOLEAN
  OBVIOUS
<1> HIDE DEF shut
<1>3. a \in Apps /\ a.view = app.view
  BY <1>2 DEF NavIInv, NavIsTyped, Apps
<1> HIDE DEF a
<1> QED
  BY <1>1, <1>3, LaterInv

LEMMA WhoAnsweredInv ==
  ASSUME NavIInv, NEW who \in Whos, NEW gated \in BOOLEAN, WhoAnswered(who, gated)
  PROVE  NavIInv'
<1>1. Learnt(trail, who, gated, IF late # NoRoute THEN late ELSE app.route)
      /\ leaving' = leaving
  BY DEF WhoAnswered
<1>2. trail \in Trails /\ Linked(trail) /\ leaving' \in Routes \cup {NoRoute}
  BY <1>1 DEF NavIInv, NavIsTyped
<1>3. (IF late # NoRoute THEN late ELSE app.route) \in Routes
  BY DEF NavIInv, NavIsTyped, Apps
<1> QED
  BY <1>1, <1>2, <1>3, LearntInv

LEMMA SignedOutInv ==
  ASSUME NavIInv, NEW who \in Whos, NEW gated \in BOOLEAN, SignedOut(who, gated)
  PROVE  NavIInv'
<1> DEFINE h == Navigated(trail, leaving, Showing)
<1>1. leaving # NoRoute /\ Learnt(h, who, gated, leaving) /\ leaving' = NoRoute
  BY DEF SignedOut
<1>2. leaving \in Routes
  BY <1>1 DEF NavIInv, NavIsTyped
<1>3. h \in Trails /\ Linked(h) /\ (h = trail \/ Here(h).route # Here(trail).route)
  BY <1>2, ShowingIs, NavigatedIs DEF NavIInv, NavIsTyped
<1> HIDE DEF h
<1> QED
  BY <1>1, <1>2, <1>3, LearntInv

LEMMA SignOutInv ==
  ASSUME NavIInv, SignOut
  PROVE  NavIInv'
<1>1. leaving' = Home(app.route.platform) /\ UNCHANGED <<trail, app, late, effects, carried>>
      /\ app.route.platform \in SitePlatforms
  <2>1. \A r \in Routes : r.platform \in SitePlatforms
    BY NavigationAssumptions DEF Routes, Home, RegionOf, Plain
  <2> QED
    BY <2>1 DEF SignOut, NavIInv, NavIsTyped, Apps
<1>2. leaving' \in Routes
  BY <1>1 DEF Routes
<1> QED
  BY <1>1, <1>2 DEF NavIInv, NavIsTyped, EffectsFit, LinkKeepsView, Linked, Here

-----------------------------------------------------------------------------
LEMMA NavInitInv == ASSUME NavInit PROVE NavIInv
<1>1. PICK r \in Routes, q \in Queries : trail = [entries |-> <<Entry(r, q)>>, at |-> 1]
  BY DEF NavInit
<1>2. Entry(r, q) \in NavEntries /\ Entry(r, q).route = r
  BY DEF Entry, NavEntries
<1>3. <<Entry(r, q)>> \in Seq(NavEntries) /\ Len(<<Entry(r, q)>>) = 1
      /\ <<Entry(r, q)>>[1] = Entry(r, q)
  BY <1>2
<1>4. trail \in Trails /\ Linked(trail) /\ Here(trail).route = r
  <2> DEFINE first == <<Entry(r, q)>>
  <2>1. first \in Seq(NavEntries) /\ Len(first) = 1 /\ first[1] = Entry(r, q)
    BY <1>3
  <2>2. trail = [entries |-> first, at |-> 1]
    BY <1>1
  <2> HIDE DEF first
  <2>3. trail.entries = first /\ trail.at = 1
    BY <2>2
  <2>4. Here(trail).route = r
    BY <1>2, <2>1, <2>3 DEF Here
  <2>5. trail \in Trails
    BY <2>1, <2>2 DEF Trails
  <2>6. \A i \in 1 .. Len(first) : i = 1
    BY <2>1
  <2>7. Linked(trail)
    BY <2>3, <2>6, Zenon DEF Linked
  <2> QED
    BY <2>4, <2>5, <2>7
<1>5. app = [who |-> "loading", gated |-> FALSE, route |-> r, view |-> NoView,
             keyed |-> "none"]
  BY <1>4 DEF NavInit
<1>6. app \in Apps /\ app.view = NoView
  BY <1>5 DEF Apps, Names
<1>7. NoEffects \in [redirect : Routes \cup {NoRoute}, mirror : BOOLEAN]
      /\ NoEffects.redirect = NoRoute /\ NoEffects.mirror = FALSE
  BY DEF NoEffects
<1>8. late = NoRoute /\ effects = NoEffects /\ leaving = NoRoute
  BY DEF NavInit
<1> QED
  BY <1>4, <1>6, <1>7, <1>8 DEF NavIInv, NavIsTyped, EffectsFit, LinkKeepsView

LEMMA NavStep == ASSUME NavIInv, [NavNext]_navVars PROVE NavIInv'
<1>1. CASE \E to \in Routes : Press(to)
  BY <1>1, PressInv
<1>2. CASE \E s \in Searches : Search(s)
  <2>1. 0 \in 0 .. 1
    OBVIOUS
  <2> QED
    BY <1>2, <2>1, SearchAndTurnInv
<1>3. CASE \E p \in 0 .. 1 : Turn(p)
  <2>1. "" \in Searches
    BY DEF Searches
  <2> QED
    BY <1>3, <2>1, SearchAndTurnInv
<1>4. CASE \E i \in 1 .. MaxEntries : Traverse(i)
  BY <1>4, TraverseInv
<1>5. CASE RunEffects
  BY <1>5, RunEffectsInv
<1>6. CASE RenderLate
  BY <1>6, RenderLateInv
<1>7. CASE \E who \in Whos, gated \in BOOLEAN : WhoAnswered(who, gated) \/ SignedOut(who, gated)
  BY <1>7, WhoAnsweredInv, SignedOutInv
<1>8. CASE SignOut
  BY <1>8, SignOutInv
<1>9. CASE UNCHANGED navVars
  BY <1>9 DEF navVars, NavIInv, NavIsTyped, EffectsFit, LinkKeepsView, Linked, Here
<1> QED
  BY <1>1, <1>2, <1>3, <1>4, <1>5, <1>6, <1>7, <1>8, <1>9 DEF NavNext

\* The address bar always has a link to what the overview shows, through every order of
\* clicks, Back and Forward, redirects, sign-outs and late answers, for every number of
\* platforms and every length of the history.
THEOREM NavLinkKeepsView == NavSpec => []LinkKeepsView
<1>1. NavIInv => LinkKeepsView
  BY DEF NavIInv
<1> QED
  BY <1>1, NavInitInv, NavStep, PTL DEF NavSpec

\* Back and Forward show a page as it was left: what an entry showed is what its query
\* says, whoever wrote to the history in between, and the dashboard reads that query.
THEOREM NavBackShowsWhatWasLeft == NavSpec => BackShowsWhatWasLeft
<1>1. ASSUME NavIInv, NEW i \in 1 .. MaxEntries, Traverse(i), effects = NoEffects,
             app'.view # NoView
      PROVE  trail.entries[i].seen \in {NoView, app'.view}
  <2> DEFINE there == [Left(trail, Showing) EXCEPT !.at = i]
             view == IF app.view # NoView /\ ~effects.mirror THEN Parse(Here(there).query)
                     ELSE app.view
             popped == [app EXCEPT !.route = Here(there).route, !.view = view]
  <2>1. i \in DOMAIN trail.entries \ {trail.at} /\ app' = Rendered(popped, there)
    BY <1>1 DEF Traverse
  <2>2. there \in Trails /\ Here(there) = trail.entries[i]
    BY <1>1, <2>1, TraversedIs
  <2> HIDE DEF there
  <2>3. Here(there) \in NavEntries
    BY <2>2 DEF Here, Trails
  <2>4. Parse(Here(there).query) \in Views /\ Here(there).route \in Routes
    BY <2>3, ParseIsView DEF NavEntries
  <2>5. view = IF app.view # NoView THEN Parse(Here(there).query) ELSE NoView
    BY <1>1 DEF NoEffects
  <2> HIDE DEF view
  <2>6. popped \in Apps /\ popped.view = view
    BY <1>1, <2>4, <2>5 DEF NavIInv, NavIsTyped, Apps
  <2> HIDE DEF popped
  <2>7. app'.view = Parse(Here(there).query)
    BY <1>1, <2>1, <2>2, <2>4, <2>5, <2>6, RenderedIs
  <2>8. i \in 1 .. Len(trail.entries) /\ i # trail.at
    BY <1>1, <2>1 DEF NavIInv, NavIsTyped, Trails
  <2> QED
    BY <1>1, <2>2, <2>7, <2>8 DEF NavIInv, Linked
<1>2. NavIInv /\ [NavNext]_navVars
        => [\A i \in 1 .. MaxEntries :
              Traverse(i) /\ effects = NoEffects /\ app'.view # NoView
                => trail.entries[i].seen \in {NoView, app'.view}]_navVars
  BY <1>1
<1> QED
  BY <1>2, NavInitInv, NavStep, PTL DEF NavSpec, BackShowsWhatWasLeft

\* Over "Loading" the redirect of the last render is due, or set and about to be shown,
\* unless it was overtaken.
RedirectAhead ==
  Loading(app) /\ app.who # "loading" /\ ~overtaken => Target(app) \in {effects.redirect, late}

\* The effect of a redirect is keyed by where the last render is to go.
RedirectIInv ==
  /\ app.keyed = Target(app).name
  /\ effects.redirect \in {NoRoute, Target(app)}
  /\ RedirectAhead

\* A redirect leads to another page, and is known by the name of that page.
LEMMA TargetLeads ==
  ASSUME NEW a, NEW b
  PROVE  /\ Target(a) # NoRoute => a.who # "loading" /\ Target(a).name # a.route.name
         /\ Target(a).name = Target(b).name => Target(a) = Target(b)
<1>1. NoRoute.name = "none" /\ Plain("login").name = "login"
      /\ Home(DefaultPlatform).name = "home"
  BY DEF NoRoute, Plain, Home
<1>2. /\ Target(a) \in {NoRoute, Plain("login"), Home(DefaultPlatform)}
      /\ Target(b) \in {NoRoute, Plain("login"), Home(DefaultPlatform)}
  BY DEF Target
<1>3. Target(a) # NoRoute => a.who # "loading" /\ Target(a).name # a.route.name
  BY <1>1 DEF Target
<1> QED
  BY <1>1, <1>2, <1>3

LEMMA RenderedKeys ==
  ASSUME NEW a \in Apps, NEW h
  PROVE  /\ Rendered(a, h).keyed = Target(Rendered(a, h)).name
         /\ Rendered(a, h).route = a.route
<1> DEFINE view == IF ~DashboardShown(a) THEN NoView
                   ELSE IF a.view = NoView THEN Parse(Here(h).query) ELSE a.view
           name == Target(a).name
           b == [a EXCEPT !.keyed = name, !.view = view]
<1>1. Rendered(a, h) = b
  BY DEF Rendered
<1> HIDE DEF view
<1>2. name = Target(a).name
  OBVIOUS
<1> HIDE DEF name
<1>3. b.who = a.who /\ b.gated = a.gated /\ b.route = a.route /\ b.keyed = name
  BY DEF Apps
<1> HIDE DEF b
<1>4. Target(b) = Target(a)
  BY <1>3 DEF Target
<1> QED
  BY <1>1, <1>2, <1>3, <1>4

\* A render asks for its redirect, unless the one before asked for the same: then that
\* one is still to come, or was overtaken just now.
LEMMA RedirectAsked ==
  ASSUME RedirectIInv, NEW a \in Apps, NEW h, NEW set,
         effects.redirect = NoRoute \/ effects.redirect = Target(app),
         Loading(Rendered(a, h)), Rendered(a, h).who # "loading",
         ~(overtaken \/ (late # NoRoute /\ a.route # late))
  PROVE  Target(Rendered(a, h)) \in {EffectsOf(Rendered(a, h), set).redirect, effects.redirect}
<1> DEFINE b == Rendered(a, h)
<1>1. Target(b) # NoRoute
  BY DEF Loading
<1>2. b.route = a.route
  BY RenderedKeys
<1> HIDE DEF b
<1>3. CASE Target(b).name # app.keyed
  BY <1>3 DEF EffectsOf, b
<1>4. CASE Target(b).name = app.keyed
  <2>1. Target(b) = Target(app)
    BY <1>4, TargetLeads DEF RedirectIInv
  <2>2. Loading(app) /\ app.who # "loading"
    BY <1>1, <2>1, TargetLeads DEF Loading
  <2>3. Target(app) \in {effects.redirect, late}
    BY <2>2 DEF RedirectIInv, RedirectAhead
  <2>4. Target(b) # late
    BY <1>1, <1>2, TargetLeads
  <2> QED
    BY <2>1, <2>3, <2>4 DEF b
<1> QED
  BY <1>3, <1>4

LEMMA CommitRedirects ==
  ASSUME NavIInv, RedirectIInv, NEW h, NEW a \in Apps, NEW set,
         effects = NoEffects, CommitNow(h, a, set) \/ CommitLater(h, a)
  PROVE  RedirectIInv'
<1> DEFINE b == Rendered(a, h)
<1>1. /\ b.keyed = Target(b).name /\ b.route = a.route
      /\ NoEffects.redirect = NoRoute
  BY RenderedKeys DEF NoEffects
<1>2. PICK s \in {set, FALSE} :
        /\ app' = b
        /\ {late', effects'.redirect} = {NoRoute, EffectsOf(b, s).redirect}
        /\ overtaken' = (/\ Loading(b)
                         /\ overtaken \/ (late # NoRoute /\ b.route # late))
  BY <1>1 DEF CommitNow, CommitLater, Histories
<1>3. EffectsOf(b, s).redirect \in {NoRoute, Target(b)}
  BY DEF EffectsOf
<1>4. Loading(b) /\ b.who # "loading" /\ ~overtaken'
        => Target(b) \in {EffectsOf(b, s).redirect, NoRoute}
  BY <1>1, <1>2, RedirectAsked
<1> HIDE DEF b
<1>5. effects'.redirect \in {NoRoute, Target(b)}
  BY <1>2, <1>3
<1>6. RedirectAhead'
  BY <1>2, <1>4 DEF RedirectAhead
<1> QED
  BY <1>1, <1>2, <1>5, <1>6 DEF RedirectIInv

LEMMA TraverseRedirects ==
  ASSUME NavIInv, RedirectIInv, NEW i, Traverse(i)
  PROVE  RedirectIInv'
<1> DEFINE there == [Left(trail, Showing) EXCEPT !.at = i]
           view == IF app.view # NoView /\ ~effects.mirror THEN Parse(Here(there).query)
                   ELSE app.view
           popped == [app EXCEPT !.route = Here(there).route, !.view = view]
           b == Rendered(popped, there)
           fx == EffectsOf(b, TRUE)
<1>1. /\ i \in DOMAIN trail.entries \ {trail.at}
      /\ app' = b /\ effects' = NoEffects
      /\ late' = IF fx.redirect # NoRoute THEN fx.redirect ELSE effects.redirect
      /\ overtaken' = (/\ Loading(b)
                       /\ overtaken \/ (late # NoRoute /\ b.route # late))
  BY DEF Traverse, Histories
<1>2. Here(there) \in NavEntries
  <2>1. there \in Trails
    BY <1>1, TraversedIs
  <2> QED
    BY <2>1 DEF Here, Trails
<1> HIDE DEF there
<1>3. popped \in Apps
  <2>1. app \in Apps /\ Here(there).route \in Routes /\ view \in Views \cup {NoView}
    BY <1>2, ParseIsView DEF NavEntries, NavIInv, NavIsTyped, Apps
  <2> HIDE DEF view
  <2> QED
    BY <2>1 DEF Apps
<1> HIDE DEF popped
<1>4. /\ b.keyed = Target(b).name /\ b.route = popped.route
      /\ NoEffects.redirect = NoRoute
  BY <1>3, RenderedKeys DEF NoEffects
<1>5. fx.redirect \in {NoRoute, Target(b)}
  BY DEF EffectsOf
<1>6. Loading(b) /\ b.who # "loading" /\ ~overtaken'
        => Target(b) \in {fx.redirect, effects.redirect}
  BY <1>1, <1>3, <1>4, RedirectAsked DEF RedirectIInv
<1>7. Loading(b) /\ b.who # "loading" => Target(b) # NoRoute
  BY DEF Loading
<1> HIDE DEF b, fx
<1>8. RedirectAhead'
  BY <1>1, <1>5, <1>6, <1>7 DEF RedirectAhead
<1> QED
  BY <1>1, <1>4, <1>8 DEF RedirectIInv

LEMMA RedirectStep ==
  ASSUME NavIInv, RedirectIInv, [NavNext]_navVars
  PROVE  RedirectIInv'
<1>1. app \in Apps /\ late \in Routes \cup {NoRoute} /\ leaving \in Routes \cup {NoRoute}
  BY DEF NavIInv, NavIsTyped
<1>2. ASSUME NEW to \in Routes, Press(to) PROVE RedirectIInv'
  <2>1. [app EXCEPT !.route = to] \in Apps
    BY <1>1 DEF Apps
  <2> QED
    BY <1>2, <2>1, CommitRedirects DEF Press
<1>3. ASSUME NEW v \in Views, SetView(v) PROVE RedirectIInv'
  <2>1. [app EXCEPT !.view = v] \in Apps
    BY <1>1 DEF Apps
  <2> QED
    BY <1>3, <2>1, CommitRedirects DEF SetView
<1>4. ASSUME NEW i, Traverse(i) PROVE RedirectIInv'
  BY <1>4, TraverseRedirects
<1>5. CASE RunEffects
  <2>1. app' = app /\ overtaken' = overtaken /\ effects' = NoEffects
        /\ late' = IF effects.redirect # NoRoute THEN effects.redirect ELSE late
    BY <1>5 DEF RunEffects
  <2>2. NoEffects.redirect = NoRoute
    BY DEF NoEffects
  <2>3. Loading(app) /\ app.who # "loading" => Target(app) # NoRoute
    BY DEF Loading
  <2> QED
    BY <2>1, <2>2, <2>3 DEF RedirectIInv, RedirectAhead
<1>6. CASE RenderLate
  <2>1. [app EXCEPT !.route = late] \in Apps
    BY <1>1, <1>6 DEF RenderLate, Apps
  <2> QED
    BY <1>6, <2>1, CommitRedirects DEF RenderLate, CommitLater
<1>7. ASSUME NEW h, NEW who \in Whos, NEW gated \in BOOLEAN, NEW route \in Routes,
             Learnt(h, who, gated, route)
      PROVE  RedirectIInv'
  <2> DEFINE shut == gated /\ who = "out"
             a == [app EXCEPT !.who = who, !.gated = shut, !.route = route]
  <2>1. CommitLater(h, a) /\ shut \in BOOLEAN
    BY <1>7 DEF Learnt
  <2> HIDE DEF shut
  <2>2. a \in Apps
    BY <1>1, <2>1 DEF Apps
  <2> HIDE DEF a
  <2> QED
    BY <2>1, <2>2, CommitRedirects DEF CommitLater
<1>8. ASSUME NEW who \in Whos, NEW gated \in BOOLEAN,
             WhoAnswered(who, gated) \/ SignedOut(who, gated)
      PROVE  RedirectIInv'
  <2>1. app.route \in Routes
    BY <1>1 DEF Apps
  <2> QED
    BY <1>1, <1>7, <1>8, <2>1 DEF WhoAnswered, SignedOut
<1>9. CASE SignOut \/ UNCHANGED navVars
  BY <1>9 DEF SignOut, navVars, RedirectIInv, RedirectAhead
<1>10. ASSUME NEW s \in Searches, NEW p \in 0 .. 1, Search(s) \/ Turn(p)
       PROVE  RedirectIInv'
  BY <1>3, <1>10, ViewsSet DEF Search, Turn
<1>11. "" \in Searches /\ 0 \in 0 .. 1
  BY DEF Searches
<1> QED
  BY <1>2, <1>4, <1>5, <1>6, <1>8, <1>9, <1>10, <1>11 DEF NavNext

\* App.tsx redirects in an effect keyed by the name of the page it goes to, which does not
\* run again for a render with the same key: even so "Loading" is never left without a
\* redirect that is due, through any clicks, Back and Forward and answers, unless the route
\* it had set was overtaken.  This is the safety half of LoadingEnds.
THEOREM NavRedirectAhead == NavSpec => []RedirectAhead
<1>1. NavInit => RedirectIInv
  <2> SUFFICES ASSUME NavInit PROVE RedirectIInv
    OBVIOUS
  <2>1. app.who = "loading" /\ app.keyed = "none" /\ effects.redirect = NoRoute
    BY DEF NavInit, NoEffects
  <2>2. Target(app) = NoRoute /\ NoRoute.name = "none"
    BY <2>1 DEF Target, NoRoute, Plain
  <2> QED
    BY <2>1, <2>2 DEF RedirectIInv, RedirectAhead
<1>2. NavIInv /\ RedirectIInv /\ [NavNext]_navVars => RedirectIInv'
  BY RedirectStep
<1>3. RedirectIInv => RedirectAhead
  BY DEF RedirectIInv
<1>4. NavInit => NavIInv
  BY NavInitInv
<1>5. NavIInv /\ [NavNext]_navVars => NavIInv'
  BY NavStep
<1> QED
  BY <1>1, <1>2, <1>3, <1>4, <1>5, PTL DEF NavSpec

-----------------------------------------------------------------------------
(* SignIn *)

\* Of any session the page knows, no two redirects follow each other: the page one leads
\* to is where the visitor belongs.
THEOREM SignInOneRedirect == SignInSpec => [][FollowRedirect => ~Astray']_signInVars
<1>1. ASSUME FollowRedirect
      PROVE  ~Astray'
  <2>1. me' = me /\ meLoading' = meLoading /\ page' = Redirect(me, page)
    BY <1>1 DEF FollowRedirect, Render
  <2>2. Redirect(me, Redirect(me, page)) = Redirect(me, page)
    BY DEF Redirect
  <2> QED
    BY <2>1, <2>2 DEF Astray
<1>2. [SignInNext]_signInVars => [FollowRedirect => ~Astray']_signInVars
  BY <1>1
<1> QED
  BY <1>2, PTL DEF SignInSpec

\* Before the policy is chosen, and if it did not ask for a factor by itself, nothing leads
\* a visitor to the enrollment, where the policy would be chosen.
EnrollsWhereOwed ==
  ~meddled /\ ~policyChosen /\ ~required =>
    /\ mode.name # "enroll"
    /\ ~me.enroll
    /\ request.for # "policy"
    /\ request.for = "me" => request.next # "enroll"

ModeIsTyped == mode = [name |-> mode.name, methods |-> mode.methods, secret |-> mode.secret]

SignInIInv == ModeIsTyped /\ EnrollsWhereOwed /\ CompleteHasFactor

LEMMA RenderOwes ==
  ASSUME NEW m, NEW l, NEW p, Render(m, l, p), mode.name # "enroll", ~m.enroll
  PROVE  mode'.name # "enroll" /\ ~me'.enroll
BY DEF Render, ModeOf

\* Only the choice of the policy and what counts as meddling change what is asked.
LEMMA AskedBefore ==
  ASSUME SignInNext, ~meddled', ~policyChosen', ~required'
  PROVE  ~meddled /\ ~policyChosen /\ ~required
<1> USE DEF accountVars
<1>1. CASE Submits
  BY <1>1 DEF Submits, SendSetup, SendPassword, SendFactor, SendPolicy, BeginTotp, SendCode,
     SendPasskey, Send
<1>2. CASE HubHandles
  BY <1>2 DEF HubHandles, HubSetup, HubLogin, HubFactor, HubPolicy, HubBegin, HubActivate,
     HubPasskey, HubSignOut, HubRefuses, Answer
<1>3. CASE Mishap \/ SecretShown \/ MeAnswered
  <2>1. ASSUME UNCHANGED <<accountVars, meddled>>
        PROVE  ~meddled /\ ~policyChosen /\ ~required
    BY <2>1
  <2>2. ASSUME NEW m, MeIs(m)
        PROVE  UNCHANGED <<accountVars, meddled>>
    BY <2>2 DEF MeIs
  <2>3. CASE Unreached \/ AnswerLost \/ HubForgets \/ SecretShown
    BY <2>1, <2>3 DEF Unreached, AnswerLost, HubForgets, SecretShown
  <2>4. CASE UpgradeFails
    BY <2>4 DEF UpgradeFails, Answer
  <2> HIDE DEF accountVars
  <2> QED
    BY <1>3, <2>1, <2>2, <2>3, <2>4 DEF Mishap, MeFails, MeAnswered
<1>4. CASE FollowRedirect \/ Wander \/ Reload \/ GoSignIn
  BY <1>4 DEF FollowRedirect, Wander, Reload, GoSignIn
<1>5. CASE AdminActs \/ PolicyCutShort
  BY <1>5 DEF AdminActs, PolicyCutShort
<1> QED
  BY <1>1, <1>2, <1>3, <1>4, <1>5 DEF SignInNext

LEMMA ModeStep ==
  ASSUME ModeIsTyped, [SignInNext]_signInVars
  PROVE  ModeIsTyped'
<1> USE DEF ModeIsTyped
<1>1. CASE UNCHANGED mode
  BY <1>1
<1>2. CASE mode' = ModeOf(EmptyMe)
  BY <1>2 DEF ModeOf
<1>3. ASSUME NEW m, NEW l, NEW p, Render(m, l, p)
      PROVE  ModeIsTyped'
  BY <1>1, <1>3 DEF Render, ModeOf
<1>4. ASSUME NEW m, MeIs(m)
      PROVE  ModeIsTyped'
  <2>1. CASE request.next \in {"mfa", "enroll", "ok"}
    <3>1. mode' = mode \/ mode' = [name |-> request.next, methods |-> request.methods,
                                  secret |-> FALSE]
      BY <1>4, <2>1 DEF MeIs
    <3> QED
      BY <1>1, <3>1
  <2>2. CASE request.next \notin {"mfa", "enroll", "ok"}
    BY <1>3, <1>4, <2>2 DEF MeIs
  <2> QED
    BY <2>1, <2>2
<1>5. ASSUME NEW x \in BOOLEAN, mode' = [mode EXCEPT !.secret = x]
      PROVE  ModeIsTyped'
  BY <1>5
<1>6. CASE Submits
  BY <1>1, <1>6 DEF Submits, SendSetup, SendPassword, SendFactor, SendPolicy, BeginTotp, SendCode,
     SendPasskey, Send
<1>7. CASE HubHandles
  BY <1>1, <1>7 DEF HubHandles, HubSetup, HubLogin, HubFactor, HubPolicy, HubBegin, HubActivate,
     HubPasskey, HubSignOut, HubRefuses, Answer, Refuse
<1>8. CASE \/ Unreached \/ AnswerLost \/ UpgradeFails \/ HubForgets \/ AdminActs
           \/ PolicyCutShort
  BY <1>1, <1>8 DEF Unreached, AnswerLost, UpgradeFails, HubForgets, AdminActs,
     PolicyCutShort, Answer, Refuse, browserVars
<1>9. CASE MeFails \/ MeAnswered
  BY <1>4, <1>9 DEF MeFails, MeAnswered
<1>10. CASE SecretShown
  BY <1>5, <1>10 DEF SecretShown
<1>11. CASE FollowRedirect \/ GoSignIn
  BY <1>3, <1>11 DEF FollowRedirect, GoSignIn
<1>12. CASE Wander
  BY <1>1, <1>3, <1>5, <1>12 DEF Wander
<1>13. CASE Reload
  BY <1>2, <1>13 DEF Reload
<1>14. CASE UNCHANGED signInVars
  BY <1>1, <1>14 DEF signInVars, browserVars
<1> QED
  BY <1>6, <1>7, <1>8, <1>9, <1>10, <1>11, <1>12, <1>13, <1>14 DEF SignInNext, Mishap

LEMMA EnrollsStep ==
  ASSUME ModeIsTyped, EnrollsWhereOwed, SignInNext
  PROVE  EnrollsWhereOwed'
<1> SUFFICES ASSUME ~meddled', ~policyChosen', ~required'
             PROVE  /\ mode'.name # "enroll" /\ ~me'.enroll
                    /\ request'.for # "policy"
                    /\ request'.for = "me" => request'.next # "enroll"
  BY DEF EnrollsWhereOwed
<1>1. /\ mode.name # "enroll" /\ ~me.enroll /\ ~required
      /\ request.for # "policy"
      /\ request.for = "me" => request.next # "enroll"
  BY AskedBefore DEF EnrollsWhereOwed
<1>2. LoginNext # "enroll" /\ ~HubMe.enroll /\ ~EmptyMe.enroll /\ Idle.for = "nothing"
  BY <1>1 DEF LoginNext, HubMe, EmptyMe, Idle
<1>3. ASSUME NEW next, next # "enroll", request' = AskMe(next)
      PROVE  request'.for = "me" /\ request'.next # "enroll"
  BY <1>3 DEF AskMe
<1>4. CASE Submits
  <2>1. ~OnLogin("enroll")
    BY <1>1 DEF OnLogin
  <2>2. PICK what \in {"setup", "login", "factor"} : Send(what)
    BY <1>4, <2>1 DEF Submits, SendSetup, SendPassword, SendFactor, ChoosesPolicy, SendPolicy,
       BeginTotp, SendCode, SendPasskey
  <2> QED
    BY <1>1, <2>2 DEF Send
<1>5. CASE HubSetup \/ HubFactor \/ HubActivate \/ HubPasskey \/ HubSignOut
  BY <1>1, <1>3, <1>5 DEF HubSetup, HubFactor, HubActivate, HubPasskey, HubSignOut, Answer
<1>6. CASE HubLogin
  BY <1>1, <1>2, <1>3, <1>6 DEF HubLogin, Answer
<1>7. CASE HubPolicy
  BY <1>1, <1>7 DEF HubPolicy
<1>8. CASE HubBegin \/ SecretShown
  <2>1. me' = me /\ request'.for \in {"secret", "nothing"}
    BY <1>2, <1>8 DEF HubBegin, SecretShown
  <2>2. mode'.name = mode.name
    BY <1>8 DEF HubBegin, SecretShown, ModeIsTyped
  <2> QED
    BY <1>1, <2>1, <2>2
<1>9. CASE HubRefuses \/ Unreached \/ AnswerLost \/ UpgradeFails
  <2>1. UNCHANGED <<me, mode>>
    BY <1>9 DEF HubRefuses, Unreached, AnswerLost, UpgradeFails, Answer, Refuse
  <2>2. \/ request' = Idle
        \/ request' = AskMe("logout")
        \/ UpgradeFails /\ request' = AskMe(request.for) /\ request.for # "enroll"
    BY <1>9 DEF HubRefuses, Unreached, AnswerLost, UpgradeFails, Answer, Refuse
  <2> QED
    BY <1>1, <1>2, <1>3, <2>1, <2>2
<1>10. CASE MeAnswered \/ MeFails
  <2>1. PICK m \in {HubMe, EmptyMe} : MeIs(m)
    BY <1>10 DEF MeAnswered, MeFails
  <2>2. ~m.enroll /\ request' = Idle /\ request.for = "me"
    BY <1>2, <2>1 DEF MeIs
  <2>3. CASE request.next \in {"mfa", "enroll", "ok"}
    BY <1>1, <1>2, <2>1, <2>2, <2>3 DEF MeIs
  <2>4. CASE request.next \notin {"mfa", "enroll", "ok"}
    BY <1>1, <1>2, <2>1, <2>2, <2>4, RenderOwes DEF MeIs
  <2> QED
    BY <2>3, <2>4
<1>11. CASE HubForgets
  BY <1>1, <1>11 DEF HubForgets, browserVars
<1>12. CASE AdminActs \/ PolicyCutShort
  BY <1>12 DEF AdminActs, PolicyCutShort
<1>13. CASE FollowRedirect \/ GoSignIn
  BY <1>1, <1>13, RenderOwes DEF FollowRedirect, GoSignIn
<1>14. CASE Wander
  <2>1. ASSUME NEW p \in Pages, Render(me, meLoading, p), UNCHANGED request
        PROVE  mode'.name # "enroll" /\ ~me'.enroll
    BY <1>1, <2>1, RenderOwes
  <2>2. ~OnLogin("enroll")
    BY <1>1 DEF OnLogin
  <2>3. CASE UNCHANGED <<me, mode>> /\ request' = [for |-> "logout"]
    BY <1>1, <2>3
  <2> QED
    BY <1>1, <1>14, <2>1, <2>2, <2>3 DEF Wander
<1>15. CASE Reload
  BY <1>2, <1>3, <1>15 DEF Reload, ModeOf, EmptyMe
<1> QED
  BY <1>4, <1>5, <1>6, <1>7, <1>8, <1>9, <1>10, <1>11, <1>12, <1>13, <1>14, <1>15
     DEF SignInNext, HubHandles, Mishap

LEMMA CompleteStep ==
  ASSUME SignInIInv, SignInNext
  PROVE  CompleteHasFactor'
<1> SUFFICES ASSUME session' = "mfa", required', ~meddled'
             PROVE  factors' # {}
  BY DEF CompleteHasFactor
<1>1. CASE HubLogin
  BY <1>1 DEF HubLogin, LoginNext, Answer, accountVars
<1>2. CASE HubFactor
  BY <1>2 DEF HubFactor, accountVars
<1>3. CASE HubPolicy
  <2>1. ~meddled /\ ~policyChosen /\ request.for = "policy" /\ factors' = factors
    BY <1>3 DEF HubPolicy, Answer
  <2>2. required
    BY <2>1 DEF SignInIInv, EnrollsWhereOwed
  <2>3. CASE LoginNext' = "ok"
    BY <2>3 DEF LoginNext
  <2>4. CASE LoginNext' # "ok"
    BY <1>3, <2>1, <2>2, <2>4 DEF HubPolicy, SignInIInv, CompleteHasFactor
  <2> QED
    BY <2>3, <2>4
<1>4. CASE HubActivate \/ HubPasskey
  BY <1>4 DEF HubActivate, HubPasskey
<1>5. CASE HubSetup \/ HubSignOut
  BY <1>5 DEF HubSetup, HubSignOut
<1>6. CASE AdminActs \/ PolicyCutShort
  BY <1>6 DEF AdminActs, PolicyCutShort
<1>7. CASE HubForgets
  BY <1>7 DEF HubForgets, accountVars, SignInIInv, CompleteHasFactor
<1>8. ASSUME UNCHANGED <<accountVars, session, meddled>>
      PROVE  factors' # {}
  BY <1>8 DEF accountVars, SignInIInv, CompleteHasFactor
<1>9. CASE Submits
  BY <1>8, <1>9 DEF Submits, SendSetup, SendPassword, SendFactor, SendPolicy, BeginTotp,
     SendCode, SendPasskey, Send, hubSessionVars
<1>10. CASE HubBegin \/ HubRefuses \/ SecretShown \/ MeAnswered
  BY <1>8, <1>10 DEF HubBegin, HubRefuses, SecretShown, MeAnswered, MeIs, hubSessionVars
<1>11. CASE Unreached \/ AnswerLost \/ MeFails
  BY <1>8, <1>11 DEF Unreached, AnswerLost, MeFails, MeIs, hubSessionVars
<1>12. CASE UpgradeFails
  BY <1>12 DEF UpgradeFails, Answer, SignInIInv, CompleteHasFactor
<1>13. CASE FollowRedirect \/ Wander \/ Reload \/ GoSignIn
  BY <1>8, <1>13 DEF FollowRedirect, Wander, Reload, GoSignIn, hubSessionVars
<1> QED
  BY <1>1, <1>2, <1>3, <1>4, <1>5, <1>6, <1>7, <1>9, <1>10, <1>11, <1>12,
     <1>13 DEF SignInNext, HubHandles, Mishap

\* However a sign-in is interrupted, resumed or answered late, and wherever in it the policy
\* is chosen: no complete session without the factor that is asked for.
THEOREM SignInCompleteHasFactor == SignInSpec => []CompleteHasFactor
<1>1. SignInInit => SignInIInv
  BY DEF SignInInit, SignInIInv, ModeIsTyped, EnrollsWhereOwed, CompleteHasFactor, ModeOf, EmptyMe, AskMe
<1>2. SignInIInv /\ [SignInNext]_signInVars => SignInIInv'
  <2>1. CASE SignInNext
    BY <2>1, ModeStep, EnrollsStep, CompleteStep DEF SignInIInv
  <2>2. CASE UNCHANGED signInVars
    BY <2>2 DEF SignInIInv, ModeIsTyped, EnrollsWhereOwed, CompleteHasFactor, signInVars, accountVars,
       hubSessionVars, browserVars
  <2> QED
    BY <2>1, <2>2
<1>3. SignInIInv => CompleteHasFactor
  BY DEF SignInIInv
<1> QED
  BY <1>1, <1>2, <1>3, PTL DEF SignInSpec

-----------------------------------------------------------------------------
Levels == {"none", "password", "mfa"}

\* A page of the visitor's, that waits for nothing and leads nowhere by itself, offers a
\* form, the way to the login page, or a reason to load it again; "Loading" has asked for
\* the session; and nobody but an administrator chooses the policy.
SomethingToDo ==
  /\ meLoading => request.for = "me"
  /\ request.for = "policy" => admin
  /\ request = Idle /\ ~meLoading /\ ~Astray =>
       \/ In
       \/ page = "setup"
       \/ OnLogin("password") \/ OnLogin("enroll")
       \/ OnLogin("mfa") /\ mode.methods # {}
       \/ me.level = "none" /\ page # "login"
       \/ GivesUp

WaitIInv ==
  /\ ModeIsTyped
  /\ page \in Pages
  /\ session \in Levels
  /\ me.level \in Levels
  /\ mode.name \in {"password", "enroll", "mfa"}
  /\ me.needsPolicy => admin
  /\ request.for = "policy" => admin
  /\ meLoading => request.for = "me" /\ request.next = "mount"

LEMMA RedirectIsPage == ASSUME NEW m, NEW p \in Pages PROVE Redirect(m, p) \in Pages
  BY DEF Redirect, Pages

LEMMA RenderWaits ==
  ASSUME WaitIInv, NEW m, NEW l, NEW p, Render(m, l, p)
  PROVE  mode'.name \in {"password", "enroll", "mfa"}
BY DEF WaitIInv, Render, ModeOf

LEMMA MeWaits ==
  ASSUME WaitIInv, ModeIsTyped', NEW m, MeIs(m), m.level \in Levels, m.needsPolicy => admin
  PROVE  WaitIInv'
<1>1. /\ request.for = "me" /\ request' = Idle /\ Idle.for = "nothing"
      /\ me' = m /\ meLoading' = FALSE /\ page' \in {page, "home"}
      /\ admin' = admin /\ session' = session
  BY DEF MeIs, Render, Idle, accountVars, hubSessionVars
<1>2. mode'.name \in {"password", "enroll", "mfa"}
  <2>1. CASE request.next \in {"mfa", "enroll", "ok"}
    BY <2>1 DEF MeIs, WaitIInv
  <2>2. CASE request.next \notin {"mfa", "enroll", "ok"}
    BY <2>2, RenderWaits DEF MeIs
  <2> QED
    BY <2>1, <2>2
<1> QED
  BY <1>1, <1>2 DEF WaitIInv, Pages

LEMMA WaitStep ==
  ASSUME WaitIInv, SignInNext, ModeIsTyped'
  PROVE  WaitIInv'
<1>1. \A next : AskMe(next).for = "me" /\ AskMe(next).next = next
  BY DEF AskMe
<1>2. Idle.for = "nothing"
  BY DEF Idle
<1>3. CASE Submits
  <2>1. PICK what \in {"setup", "login", "factor", "policy", "begin", "activate", "passkey"} :
          /\ Send(what)
          /\ what = "policy" => me.needsPolicy
    BY <1>3 DEF Submits, SendSetup, SendPassword, SendFactor, ChoosesPolicy, SendPolicy,
       BeginTotp, SendCode, SendPasskey
  <2>2. request'.for = what /\ ~meLoading
    BY <2>1 DEF Send
  <2> QED
    BY <2>1, <2>2 DEF Send, WaitIInv, accountVars, hubSessionVars
<1>4. CASE HubHandles
  <2>1. /\ UNCHANGED <<me, meLoading, page, admin>>
        /\ request.for # "nothing" /\ request.for # "me"
        /\ mode' = mode
    BY <1>4 DEF HubHandles, HubSetup, HubLogin, HubFactor, HubPolicy, HubBegin, HubActivate,
       HubPasskey, HubSignOut, HubRefuses, Answer, Refuse, accountVars
  <2>2. request'.for \in {"me", "nothing", "secret"}
    BY <1>1, <1>2, <1>4 DEF HubHandles, HubSetup, HubLogin, HubFactor, HubPolicy, HubBegin,
       HubActivate, HubPasskey, HubSignOut, HubRefuses, Answer, Refuse
  <2>3. session' \in {session, "none", "password", "mfa"}
    BY <1>4 DEF HubHandles, HubSetup, HubLogin, HubFactor, HubPolicy, HubBegin, HubActivate,
       HubPasskey, HubSignOut, HubRefuses, hubSessionVars
  <2> QED
    BY <2>1, <2>2, <2>3 DEF WaitIInv, Levels
<1>5. CASE MeAnswered
  <2>1. HubMe.level \in Levels /\ (HubMe.needsPolicy => admin)
    BY DEF HubMe, WaitIInv
  <2> QED
    BY <1>5, <2>1, MeWaits DEF MeAnswered
<1>6. CASE MeFails
  <2>1. EmptyMe.level \in Levels /\ (EmptyMe.needsPolicy => admin)
    BY DEF EmptyMe, Levels
  <2> QED
    BY <1>6, <2>1, MeWaits DEF MeFails
<1>7. CASE SecretShown
  <2>1. mode'.name = mode.name
    BY <1>7 DEF SecretShown, WaitIInv, ModeIsTyped
  <2>2. UNCHANGED <<page, session, me, meLoading, admin>> /\ request.for = "secret"
        /\ request' = Idle
    BY <1>7 DEF SecretShown, accountVars, hubSessionVars
  <2> QED
    BY <1>2, <2>1, <2>2 DEF WaitIInv
<1>8. CASE Unreached \/ AnswerLost \/ UpgradeFails \/ PolicyCutShort
  <2>1. /\ UNCHANGED <<page, session, me, meLoading, admin, mode>>
        /\ request.for # "me" \/ request.next # "mount"
    BY <1>8 DEF Unreached, AnswerLost, UpgradeFails, PolicyCutShort, Answer, Refuse,
       accountVars, hubSessionVars
  <2>2. request'.for \in {"nothing", "me"}
    BY <1>1, <1>2, <1>8 DEF Unreached, AnswerLost, UpgradeFails, PolicyCutShort, Answer,
       Refuse
  <2> QED
    BY <2>1, <2>2 DEF WaitIInv
<1>9. CASE HubForgets \/ AdminActs
  <2>1. UNCHANGED <<page, me, meLoading, admin, mode, request>> /\ session' \in {session, "none"}
    BY <1>9 DEF HubForgets, AdminActs, accountVars, browserVars, hubSessionVars
  <2> QED
    BY <2>1 DEF WaitIInv, Levels
<1>10. ASSUME NEW p \in Pages, Render(me, meLoading, p), request' = request,
              UNCHANGED <<accountVars, hubSessionVars>>
       PROVE  WaitIInv'
  <2>1. UNCHANGED <<session, me, meLoading, admin>> /\ page' = p
    BY <1>10 DEF Render, accountVars, hubSessionVars
  <2> QED
    BY <1>10, <2>1, RenderWaits DEF WaitIInv
<1>11. CASE FollowRedirect
  <2>1. Redirect(me, page) \in Pages
    BY RedirectIsPage DEF WaitIInv
  <2> QED
    BY <1>10, <1>11, <2>1 DEF FollowRedirect
<1>12. CASE GoSignIn
  <2>1. "login" \in Pages
    BY DEF Pages
  <2> QED
    BY <1>10, <1>12, <2>1 DEF GoSignIn
<1>13. CASE Wander
  <2>1. CASE \E p \in Pages \ {page} : Render(me, meLoading, p) /\ UNCHANGED <<request, refused>>
    BY <1>10, <1>13, <2>1 DEF Wander
  <2>2. CASE /\ mode' = [mode EXCEPT !.secret = FALSE]
             /\ UNCHANGED <<me, meLoading, page, csrf, request, refused>>
    <3>1. mode'.name = mode.name
      BY <2>2 DEF WaitIInv, ModeIsTyped
    <3>2. UNCHANGED <<admin, session>>
      BY <1>13 DEF Wander, accountVars, hubSessionVars
    <3> QED
      BY <2>2, <3>1, <3>2 DEF WaitIInv
  <2>3. CASE /\ request' = [for |-> "logout"]
             /\ UNCHANGED <<me, meLoading, page, mode, csrf, refused>>
    <3>1. UNCHANGED <<admin, session>> /\ ~meLoading /\ request'.for = "logout"
      BY <1>13, <2>3 DEF Wander, accountVars, hubSessionVars
    <3> QED
      BY <2>3, <3>1 DEF WaitIInv
  <2> QED
    BY <1>13, <2>1, <2>2, <2>3 DEF Wander
<1>14. CASE Reload
  <2>1. /\ me' = EmptyMe /\ mode' = ModeOf(EmptyMe) /\ request' = AskMe("mount")
        /\ UNCHANGED <<page, session, admin>>
    BY <1>14 DEF Reload, accountVars, hubSessionVars
  <2> QED
    BY <1>1, <2>1 DEF WaitIInv, ModeOf, EmptyMe, Levels
<1> QED
  BY <1>3, <1>4, <1>5, <1>6, <1>7, <1>8, <1>9, <1>11, <1>12, <1>13, <1>14
     DEF SignInNext, Mishap

\* Wherever an error, an expired session or a reload leaves the visitor, there is a next
\* step to take, or one under way: the safety half of SignInCompletes.
THEOREM SignInSomethingToDo == SignInSpec => []SomethingToDo
<1>1. SignInInit => WaitIInv
  BY DEF SignInInit, WaitIInv, ModeIsTyped, ModeOf, EmptyMe, AskMe, Levels
<1>2. WaitIInv /\ [SignInNext]_signInVars => WaitIInv'
  <2>1. CASE WaitIInv /\ SignInNext
    BY <2>1, ModeStep, WaitStep DEF WaitIInv
  <2>2. CASE UNCHANGED signInVars
    BY <2>2 DEF WaitIInv, ModeIsTyped, signInVars, accountVars, hubSessionVars, browserVars
  <2> QED
    BY <2>1, <2>2
<1>3. WaitIInv => SomethingToDo
  <2> SUFFICES ASSUME WaitIInv, request = Idle, ~meLoading, ~Astray,
                      page # "setup", ~OnLogin("password"), ~OnLogin("enroll"),
                      ~(OnLogin("mfa") /\ mode.methods # {}),
                      ~(me.level = "none" /\ page # "login"), ~GivesUp
               PROVE  In
    BY DEF SomethingToDo, WaitIInv
  <2>1. Redirect(me, page) = page
    BY DEF Astray
  <2>2. page # "login"
    BY <2>1 DEF OnLogin, LoginShown, WaitIInv, GivesUp
  <2>3. me.level # "password"
    BY <2>1, <2>2 DEF Redirect
  <2> QED
    BY <2>2, <2>3 DEF WaitIInv, Levels, GivesUp, In
<1> QED
  BY <1>1, <1>2, <1>3, PTL DEF SignInSpec

=============================================================================
