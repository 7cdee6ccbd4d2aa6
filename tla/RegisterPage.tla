----------------------------- MODULE RegisterPage -----------------------------
(***************************************************************************)
(* The page for contributors, RegisterPage.tsx: the agents of every region *)
(* of a platform, which is the one the visitor picked, or else the one of  *)
(* the live data.  An effect asks the hub when that platform changes, and  *)
(* its cleanup aborts the request before; the rows of before stay until an *)
(* answer.                                                                 *)
(***************************************************************************)
EXTENDS Naturals, FiniteSets

CONSTANTS
  CoveragePlatforms,
  DefaultCoverage   \* DEFAULT_PLATFORM

NoPlatform == "none"

VARIABLES
  given,     \* the platform of the live data, or NoPlatform before they come
  picked,    \* the one the visitor picked, or NoPlatform
  rows,      \* whose agents are listed, or NoPlatform when nothing is
  requests   \* the platforms asked for whose answers are still heard

coverageVars == <<given, picked, rows, requests>>

ActivePlatform ==
  IF picked # NoPlatform THEN picked
  ELSE IF given # NoPlatform THEN given
  ELSE DefaultCoverage

CoverageInit ==
  /\ given \in CoveragePlatforms \cup {NoPlatform}
  /\ picked = NoPlatform
  /\ rows = NoPlatform
  /\ requests = {ActivePlatform}

\* The cleanup of the effect and its next run: a request cut off fails at once, and a
\* request that failed empties the list.
AskAgain ==
  /\ rows' = IF requests # {} THEN NoPlatform ELSE rows
  /\ requests' = {ActivePlatform'}

\* The effect depends on the platform alone.
Follow ==
  IF ActivePlatform' # ActivePlatform THEN AskAgain ELSE UNCHANGED <<rows, requests>>

\* useIncentives has data of another platform, or its first.
DataCome(p) ==
  /\ p # given
  /\ given' = p
  /\ UNCHANGED picked
  /\ Follow

Pick(p) ==
  /\ picked' = p
  /\ UNCHANGED given
  /\ Follow

\* fetchCoverage.
CoverageCame(p) ==
  /\ p \in requests
  /\ requests' = requests \ {p}
  /\ rows' = p
  /\ UNCHANGED <<given, picked>>

CoverageFailed(p) ==
  /\ p \in requests
  /\ requests' = requests \ {p}
  /\ rows' = NoPlatform
  /\ UNCHANGED <<given, picked>>

CoverageNext ==
  \E p \in CoveragePlatforms :
    DataCome(p) \/ Pick(p) \/ CoverageCame(p) \/ CoverageFailed(p)

CoverageSpec ==
  /\ CoverageInit /\ [][CoverageNext]_coverageVars
  /\ WF_coverageVars(\E p \in CoveragePlatforms : CoverageCame(p) \/ CoverageFailed(p))

-----------------------------------------------------------------------------
\* However the visitor switches and the answers come, the list comes to rest on the agents
\* of the platform named above it, or on nothing after a failure.
CoverageSettles == requests = {} => rows \in {NoPlatform, ActivePlatform}

=============================================================================
