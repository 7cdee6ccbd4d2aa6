------------------------------ MODULE MCDashboard ------------------------------
(***************************************************************************)
(* Seven parts of one browser: the live data, a region's page, the guess   *)
(* of the visitor's region, signing in, the way between pages, what is     *)
(* kept in localStorage and the contributors' page.  They share no         *)
(* variable, so a run of one says what a run of all would: every behaviour *)
(* runs one of them and leaves the others where they began.                *)
(***************************************************************************)
EXTENDS LiveIncentives, RegionPage, ClosestRegion, SignIn, Navigation, Preferences,
        RegisterPage

CONSTANTS r1, r2, r3

MCRegionOrder == <<r1, r2, r3>>

\* A platform whose readings begin late, and one without readings.
MCFirstReading == [p \in PagePlatforms |-> IF p = "win" THEN MaxStart ELSE 0]

\* A tag told by what follows its base, and one without a catalogue.
MCTags == {[base |-> "zh", more |-> "hk"], [base |-> "eo", more |-> ""]}

VARIABLE part

visitVars == <<navVars, preferenceVars, coverageVars>>
MCVars == <<part, liveVars, pageVars, closestVars, signInVars, visitVars>>

MCInit ==
  /\ part \in {"live", "page", "locate", "sign in", "navigate", "prefer", "register"}
  /\ LiveInit /\ (part # "live" => hubUp /\ platform = "win")
  /\ PageInit /\ (part # "page" => pagePlatform = "win")
  /\ ClosestInit /\ (part # "locate" => stored)
  /\ SignInInit /\ (part # "sign in" => ~account /\ ~requireAuth /\ page = "home")
  /\ NavInit
  /\ part # "navigate" => contribute /\ Here(trail) = Entry(Home("win"), EmptyQuery)
  /\ PreferencesInit /\ (part # "prefer" => accepted = <<>> /\ storage["language"] = Unset)
  /\ CoverageInit /\ (part # "register" => given = NoPlatform)

MCNext ==
  \/ part = "live" /\ LiveNext
     /\ UNCHANGED <<part, pageVars, closestVars, signInVars, visitVars>>
  \/ part = "page" /\ PageNext
     /\ UNCHANGED <<part, liveVars, closestVars, signInVars, visitVars>>
  \/ part = "locate" /\ ClosestNext
     /\ UNCHANGED <<part, liveVars, pageVars, signInVars, visitVars>>
  \/ part = "sign in" /\ SignInNext
     /\ UNCHANGED <<part, liveVars, pageVars, closestVars, visitVars>>
  \/ part = "navigate" /\ NavNext
     /\ UNCHANGED <<part, liveVars, pageVars, closestVars, signInVars, preferenceVars,
                    coverageVars>>
  \/ part = "prefer" /\ PreferencesNext
     /\ UNCHANGED <<part, liveVars, pageVars, closestVars, signInVars, navVars,
                    coverageVars>>
  \/ part = "register" /\ CoverageNext
     /\ UNCHANGED <<part, liveVars, pageVars, closestVars, signInVars, navVars,
                    preferenceVars>>

\* LiveFairness, PageFairness, SignInFairness and NavFairness, each for the part that runs.
MCSpec ==
  /\ MCInit /\ [][MCNext]_MCVars
  /\ WF_liveVars(part = "live" /\ Opened)
  /\ WF_liveVars(part = "live" /\ Message)
  /\ WF_liveVars(part = "live" /\ ~hubUp /\ Dropped)
  /\ WF_liveVars(part = "live" /\ Retry)
  /\ WF_liveVars(part = "live" /\ GraceEnds)
  /\ WF_liveVars(part = "live" /\ MetaAnswered)
  /\ WF_pageVars(part = "page" /\ Debounced)
  /\ \A h \in Hooks :
       WF_pageVars(part = "page" /\ \E r \in asked : r.hook = h /\ (Answered(r) \/ Failed(r)))
  /\ WF_pageVars(part = "page" /\ \E r \in asked : Dismissed(r))
  /\ WF_signInVars(part = "sign in" /\ FollowRedirect)
  /\ WF_signInVars(part = "sign in" /\ HubHandles)
  /\ WF_signInVars(part = "sign in" /\ SecretShown)
  /\ WF_signInVars(part = "sign in" /\ MeAnswered)
  /\ WF_signInVars(part = "sign in" /\ Submits)
  /\ WF_signInVars(part = "sign in" /\ GoSignIn)
  /\ WF_signInVars(part = "sign in" /\ GivesUp /\ Reload)
  /\ WF_navVars(part = "navigate" /\ RunEffects)
  /\ WF_navVars(part = "navigate" /\ RenderLate)
  /\ WF_navVars(/\ part = "navigate" /\ app.who = "loading"
                /\ \E who \in Whos, gated \in BOOLEAN : WhoAnswered(who, gated))

\* When the live data run: in the end the screen shows what the hub has.
LiveCatchesUp == part = "live" => ShownCatchesUp

\* When a region's page runs: it comes to rest on what is asked for.
PageComesToRest == part = "page" => PageSettles

\* When the visitor signs in: the visitor gets in.
VisitorSignsIn == part = "sign in" => SignInCompletes

\* When the visitor moves between pages: "Loading" gives way to one.
PageIsReached == part = "navigate" => LoadingEnds

=============================================================================
