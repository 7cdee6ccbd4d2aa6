--------------------------- MODULE VersionResolver ---------------------------
(***************************************************************************)
(* Which build of the game an agent presents to the game service:          *)
(* src/agent/version/resolver.ts and the state file of store.ts.  A build  *)
(* discovered in the depot is tried as a candidate; one that brings real   *)
(* data is confirmed and written to the file, and one that does not is     *)
(* given up for the last that did.                                         *)
(*                                                                         *)
(* The resolver has no loop of its own: AgentPoller calls it.  Its methods *)
(* are therefore operators here that say nothing of the poller's state.    *)
(* Versions are their build numbers, and the version is not pinned, as the *)
(* agent's configuration never pins it.                                    *)
(***************************************************************************)
EXTENDS Integers

CONSTANT MaxBuild   \* bound on the builds the game publishes

ASSUME ResolverAssumptions == MaxBuild \in Nat \ {0}

Builds == 1 .. MaxBuild

\* null, and the rejectedBuildId that rejects nothing.
NoBuild == 0

VARIABLES
  published,    \* the newest build in the depot
  active,       \* the build presented
  candidate,    \* the newest one adopted from the depot
  verified,     \* candidateVerified
  lastWorking,
  rejected,     \* rejectedBuildId
  disk,         \* the build in the state file
  writing       \* writes of the state file nobody waits for

memory == <<active, candidate, verified, lastWorking, rejected, writing>>
outside == <<published, disk>>

resolverVars == <<memory, outside>>

ResolverInit ==
  /\ published = 1
  /\ active = NoBuild
  /\ candidate = NoBuild
  /\ verified = FALSE
  /\ lastWorking = NoBuild
  /\ rejected = NoBuild
  /\ disk = NoBuild
  /\ writing = {}

\* The game publishes a build.
PublishBuild ==
  /\ published < MaxBuild
  /\ published' = published + 1
  /\ UNCHANGED <<memory, disk>>

\* The process is gone, with what it remembered and had yet to write.
ForgetMemory ==
  /\ active' = NoBuild
  /\ candidate' = NoBuild
  /\ verified' = FALSE
  /\ lastWorking' = NoBuild
  /\ rejected' = NoBuild
  /\ writing' = {}
  /\ UNCHANGED outside

\* The beginning of init; a file that cannot be read counts for none.
ReadState ==
  /\ lastWorking' \in {disk, NoBuild}
  /\ UNCHANGED <<active, candidate, verified, rejected, writing, outside>>

Worthwhile(build) == build > candidate /\ build > rejected

(***************************************************************************)
(* refreshFromDiscovery: the build the depot shows is adopted when it is   *)
(* worthwhile.  A discovery that fails changes nothing.  In init, the last *)
(* build that worked stands in when there is none.                         *)
(***************************************************************************)
Adopt(build) ==
  IF Worthwhile(build)
    THEN /\ candidate' = build
         /\ verified' = FALSE
         /\ active' = build
         /\ UNCHANGED <<lastWorking, rejected, writing, outside>>
    ELSE UNCHANGED resolverVars

InitWithout ==
  /\ active' = lastWorking
  /\ UNCHANGED <<candidate, verified, lastWorking, rejected, writing, outside>>

OnTrial == active # NoBuild /\ active = candidate /\ ~verified

Confirm ==
  /\ verified' = TRUE
  /\ lastWorking' = candidate
  /\ writing' = writing \cup {active}
  /\ UNCHANGED <<active, candidate, rejected, outside>>

Revert ==
  /\ rejected' = candidate
  /\ active' = lastWorking
  /\ UNCHANGED <<candidate, verified, lastWorking, writing, outside>>

\* Mutant: a candidate with nothing to fall back to is taken for confirmed.
PassResultTrusting(gotReal) ==
  IF OnTrial /\ (gotReal \/ lastWorking = NoBuild) THEN Confirm
  ELSE IF OnTrial /\ lastWorking # active THEN Revert
  ELSE UNCHANGED resolverVars

\* reportPassResult.
PassResult(gotReal) ==
  IF OnTrial /\ gotReal THEN Confirm
  ELSE IF OnTrial /\ lastWorking \notin {NoBuild, active} THEN Revert
  ELSE UNCHANGED resolverVars

\* writeLastWorkingVersion ends, having renamed its file into place or failed.
WriteEnds(build) ==
  /\ build \in writing
  /\ writing' = writing \ {build}
  /\ disk' \in {build, disk}
  /\ UNCHANGED <<active, candidate, verified, lastWorking, rejected, published>>

ResolverTypeOK ==
  /\ published \in Builds
  /\ {active, candidate, lastWorking, rejected, disk} \subseteq Builds \cup {NoBuild}
  /\ verified \in BOOLEAN
  /\ writing \subseteq Builds

=============================================================================
